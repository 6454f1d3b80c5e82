---------------------------- MODULE MCLuaServer ----------------------------
(***************************************************************************)
(* Model checking of what the Lua server drives: the dispatch of messages  *)
(* to the triggers of a space (RanaDispatch) and the messages of its       *)
(* clients (RanaClient), as uploads of scripts and as actions of triggers. *)
(* They share no state; a behaviour is one of one part, chosen in the      *)
(* initial state, and the variables of the other module rest.              *)
(***************************************************************************)
EXTENDS RanaDispatch, RanaClient, TLC

VARIABLES
    part    \* which module runs

serverVars == <<part, vars, clientVars>>

\* Bound: the uploads; there may be a restart.  MaxUploads is for the actions.
MaxFiles == 2

\* All three permute the same model values; only invariants are checked.
Symmetry == Permutations(Name) \cup Permutations(Key)
            \cup Permutations(Client)

-----------------------------------------------------------------------------
ServerInit == part \in {"dispatch", "upload", "action"} /\ Init /\ ClientInit

InDispatch(A) == part = "dispatch" /\ A /\ UNCHANGED <<part, clientVars>>
InUpload(A) == part = "upload" /\ A /\ log'.begun <= MaxFiles /\ UNCHANGED <<part, vars>>
InAction(A) == part = "action" /\ A /\ UNCHANGED <<part, vars>>

NextDispatch ==
    \/ InDispatch(Lua)
    \/ InDispatch(deleteTrigger)
    \/ InDispatch(onInvokeEvent)
    \/ InDispatch(WalkEnds)
    \/ InDispatch(WalkCrashes)
    \/ InDispatch(ConditionHolds)
    \/ InDispatch(BurstEnds)
NextUpload ==
    \/ \E o \in Client : \/ InUpload(open(o))
                         \/ InUpload(close(o))
                         \/ InUpload(Login(o))
                         \/ InUpload(Uploads(o))
    \/ InUpload(Restart)
NextAction ==
    \E o \in Client : \/ InAction(open(o))
                      \/ InAction(close(o))
                      \/ InAction(Login(o))
                      \/ InAction(Actions(o))
ServerNext == NextDispatch \/ NextUpload \/ NextAction
ServerSpec == ServerInit /\ [][ServerNext]_serverVars

-----------------------------------------------------------------------------
\* The properties are the two modules' own: those of one hold in the parts of the
\* other, where its variables rest in their initial state.
=============================================================================
