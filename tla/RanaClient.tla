----------------------------- MODULE RanaClient -----------------------------
(***************************************************************************)
(* What the clients of the Lua server send piece by piece: a script with   *)
(* its save file, kept by RanaClient until it is whole and then written to *)
(* the disk and listed by RanaScriptManager, and the new action of a       *)
(* trigger.  A RanaClient is a session of the pool: after close it serves  *)
(* another connection.  The server handles one message at a time, so the   *)
(* clients' messages interleave and each handler is a step.                *)
(*                                                                         *)
(* A byte of a file is <<upload, file, place>>.  Names and paths are those *)
(* the table's text form gives back: no "=", no ":", no blanks at the ends.*)
(***************************************************************************)
EXTENDS Integers, Sequences, SequencesExt, FiniteSetsExt

CONSTANTS
    Client,         \* the session objects
    Path, Type,     \* what a script is stored under, and the types of spaces
    Length,         \* the lengths of files that clients announce
    ActionLength,   \* the lengths of actions that clients announce
    Piece,          \* the sizes of the pieces they send
    MaxUploads,     \* bound: the transfers begun
    MaxRuns         \* bound: the runs of the server

Files == {"script", "save"}
Nothing == 0    \* no transfer; no file
NoType == -1    \* of a path that is not listed; a type is a BYTE

ASSUME ClientAssumption ==
    /\ Type \subseteq 0..255 /\ Length \subseteq Nat /\ ActionLength \subseteq Nat
    /\ Piece \subseteq Nat /\ MaxUploads \in Nat /\ MaxRuns \in Nat

VARIABLES
    c,          \* the members of the RanaClients
    peer,       \* what the connected clients have yet to send
    m,          \* the members of RanaScriptManager
    disk,       \* the scripts, the save files, and the manager's own file
    acts,       \* the actions given to triggers
    log         \* auxiliary: transfers begun, runs, the upload last answered "ok",
                \* and what has failed unseen since

clientVars == <<c, peer, m, disk, acts, log>>

NoInfo == [type |-> NoType, name |-> Nothing]
NoBuf == [there |-> FALSE, len |-> 0, data |-> <<>>]
NoWrite == [path |-> Nothing, type |-> Nothing, name |-> Nothing,
            buf |-> [f \in Files |-> NoBuf]]
NewClient == [open |-> FALSE, access |-> FALSE, write |-> NoWrite, action |-> NoBuf]
NoPeer == [id |-> Nothing, next |-> [f \in Files \cup {"action"} |-> 1]]
EmptyTable == [p \in Path |-> NoInfo]

\* What a type becomes when its last digits are cut off: the line of a path ends
\* with it, and atoi reads none as 0.
CutType(y, tens) == y \div tens
Tens == {10, 100, 1000}
AnyType == Type \cup {CutType(y, tens) : y \in Type, tens \in Tens}

\* The manager's table: what is listed, the same by type, and whether the file is old.
Loaded(t) == [info |-> t, ofType |-> [y \in AnyType |-> {p \in Path : t[p].type = y}],
              changed |-> FALSE]

ClientInit ==
    /\ c = [o \in Client |-> NewClient]
    /\ peer = [o \in Client |-> NoPeer]
    /\ m = Loaded(EmptyTable)
    /\ disk = [file |-> [p \in Path |-> [f \in Files |-> <<>>]], conf |-> EmptyTable]
    /\ acts = {}
    /\ log = [begun |-> 0, runs |-> 1, good |-> [p \in Path |-> Nothing], len |-> <<>>,
              lost |-> {}, cut |-> FALSE, risk |-> {}]

Bytes(id, f, from, n) == [k \in 1..n |-> <<id, f, from + k - 1>>]
Whole(id, f) == Bytes(id, f, 1, log.len[id][f])

-----------------------------------------------------------------------------
\* open: a connection is accepted and given an unused object.
open(o) ==
    /\ ~c[o].open /\ c' = [c EXCEPT ![o].open = TRUE]
    /\ UNCHANGED <<peer, m, disk, acts, log>>

\* close: the upload's buffers are freed; the action's stay.
\* (Slip: the upload's stay as well.)
Closed_Keeps(s) == [s EXCEPT !.open = FALSE]
Closed(s) == [s EXCEPT !.open = FALSE, !.write.buf = NoWrite.buf]

close(o) ==
    /\ c[o].open
    /\ c' = [c EXCEPT ![o] = Closed(c[o])] /\ peer' = [peer EXCEPT ![o] = NoPeer]
    /\ UNCHANGED <<m, disk, acts, log>>

\* The handler of TS_LOGIN_REQ, for a client that is accepted.
Login(o) ==
    /\ c[o].open /\ ~c[o].access /\ c' = [c EXCEPT ![o].access = TRUE]
    /\ UNCHANGED <<peer, m, disk, acts, log>>

\* checkAccess, the guard of every handler below.
Served(o) == c[o].open /\ c[o].access

\* A transfer begins on the client's side as well, with a number of its own.
Begun(o, id, lens) ==
    /\ peer' = [peer EXCEPT ![o] = [NoPeer EXCEPT !.id = id]]
    /\ log' = [log EXCEPT !.begun = id, !.len = Append(@, lens)]

\* A client that is refused sends no pieces (what the answer is for).
Refused(o) == peer' = [peer EXCEPT ![o] = NoPeer] /\ UNCHANGED log

\* new BYTE[n + 1] and m_...Position = 0.
NewBuf(n) == [there |-> TRUE, len |-> n, data |-> <<>>]

\* The path is not listed with another type.
Admits(p, y) == m.info[p].type \in {NoType, y}

\* validatePath, and the type the path is listed with.
MayBegin(o, p, y) == (~\A f \in Files : c[o].write.buf[f].there) /\ Admits(p, y)

scriptWriteBegin(o, p, y, lens) ==
    /\ Served(o) /\ log.begun < MaxUploads
    /\ IF MayBegin(o, p, y)
       THEN LET id == log.begun + 1
            IN  /\ c' = [c EXCEPT ![o].write =
                           [path |-> p, type |-> y, name |-> id,
                            buf |-> [f \in Files |-> NewBuf(lens[f])]]]
                /\ Begun(o, id, lens)
       ELSE UNCHANGED c /\ Refused(o)
    /\ UNCHANGED <<m, disk, acts>>

\* The next n bytes of a file.
Sent(o, f, n) == Bytes(peer[o].id, f, peer[o].next[f], n)
NextPiece(o, f, n) ==
    /\ Served(o) /\ peer[o].id # Nothing
    /\ f \in DOMAIN log.len[peer[o].id]
    /\ peer[o].next[f] <= log.len[peer[o].id][f] + 1    \* bound: one byte too many
    /\ peer' = [peer EXCEPT ![o].next[f] = @ + n]

\* scriptWriteScriptAppend, scriptWriteSaveFileAppend: more than was announced
\* ends the upload, for both files.  (Slip: only for the one.)
Appended_One(w, f, data) ==
    LET b == w.buf[f]
    IN  IF Len(b.data \o data) > b.len THEN [w EXCEPT !.buf[f] = NoBuf]
        ELSE [w EXCEPT !.buf[f].data = @ \o data]
Appended(w, f, data) ==
    LET b == w.buf[f]
    IN  IF Len(b.data \o data) > b.len THEN [w EXCEPT !.buf = NoWrite.buf]
        ELSE [w EXCEPT !.buf[f].data = @ \o data]

scriptAppend(o, f, n) ==
    /\ NextPiece(o, f, n)
    /\ c' = IF ~c[o].write.buf[f].there THEN c
            ELSE [c EXCEPT ![o].write = Appended(@, f, Sent(o, f, n))]
    /\ UNCHANGED <<m, disk, acts, log>>

-----------------------------------------------------------------------------
\* What saveBuffToFile may leave of data where old was: the file, a part of it,
\* or the old file when none can be opened.  That the file could not be closed,
\* when a part of it is still to be written, is not looked at.
Written(old, data) ==
    {[ok |-> TRUE, closed |-> TRUE, data |-> data], [ok |-> FALSE, closed |-> TRUE, data |-> old]}
    \cup {[ok |-> ok, closed |-> ~ok, data |-> SubSeq(data, 1, k)] :
              ok \in BOOLEAN, k \in 0..(Len(data) - 1)}

\* What may be left of the lines of table t: some, and one that is cut in the type.
\* (Cut further to the left it is no line: loadScriptItem skips it.)
LinesOf(t) == {p \in Path : t[p] # NoInfo}
SomeLines(t) == {[p \in Path |-> IF p \in kept THEN t[p] ELSE NoInfo] : kept \in SUBSET LinesOf(t)}
CutFiles(t) ==
    SomeLines(t)
    \cup {[some EXCEPT ![p] = [t[p] EXCEPT !.type = CutType(@, tens)]] :
              some \in SomeLines(t), p \in LinesOf(t), tens \in Tens}

\* save: nothing is written when nothing has changed or the file cannot be opened.
\* The file that is opened is emptied; whether it is written, and closed, is not
\* looked at.  (Slip: the change is forgotten though the file was not opened.)
Kept(x) == [m |-> x, conf |-> disk.conf, cut |-> log.cut]
Saved_Forgets(x) ==
    {[m |-> [x EXCEPT !.changed = FALSE], conf |-> disk.conf, cut |-> log.cut]}
Saved(x) ==
    {Kept(x)} \cup
    IF ~x.changed THEN {}
    ELSE {[m |-> [x EXCEPT !.changed = FALSE], conf |-> x.info, cut |-> FALSE]}
         \cup {[m |-> [x EXCEPT !.changed = FALSE], conf |-> t, cut |-> TRUE] : t \in CutFiles(x.info)}

\* setScriptInfo, for a path that is not listed with another type.
Listed(p, y, name) ==
    [m EXCEPT !.info[p] = [type |-> y, name |-> name], !.ofType[y] = @ \cup {p},
              !.changed = TRUE]

\* Whether what was announced has come.  (Slip: of the script alone.)
Complete_Script(w) == Len(w.buf["script"].data) = w.buf["script"].len
Complete(w) == \A f \in Files : Len(w.buf[f].data) = w.buf[f].len

\* scriptWriteSave has freed the buffers.
Ended(o, noted) ==
    /\ c' = [c EXCEPT ![o].write.buf = NoWrite.buf]
    /\ peer' = [peer EXCEPT ![o] = NoPeer] /\ log' = noted
    /\ UNCHANGED acts

\* It has answered that upload id of path p failed, or "ok".
Refusing(p) == [log EXCEPT !.good[p] = Nothing]
Answering(p, id, closed, cut) ==
    [log EXCEPT !.good[p] = id, !.cut = cut, !.risk = @ \ {p},
                !.lost = IF closed THEN @ \ {p} ELSE @ \cup {p}]

\* scriptWriteSave when there is nothing to store.
NothingSaved(o) ==
    LET w == c[o].write
    IN  /\ Served(o) /\ (\A f \in Files : w.buf[f].there) => ~Complete(w)
        /\ (\E f \in Files : w.buf[f].there) \/ peer[o].id # Nothing
        /\ Ended(o, log) /\ UNCHANGED <<m, disk>>

\* scriptWriteSave: the script, then the save file, then the table and its file.
scriptWriteSave(o) ==
    LET w == c[o].write
        p == w.path
        put(f, d) == [disk EXCEPT !.file[p][f] = d]
    IN  /\ Served(o) /\ \A f \in Files : w.buf[f].there
        /\ Complete(w)
        /\ \E a \in Written(disk.file[p]["script"], w.buf["script"].data) :
           IF ~a.ok
           THEN disk' = put("script", a.data) /\ UNCHANGED m /\ Ended(o, Refusing(p))
           ELSE \E b \in Written(disk.file[p]["save"], w.buf["save"].data) :
                LET both == [disk EXCEPT !.file[p] = [script |-> a.data, save |-> b.data]]
                IN  IF ~b.ok \/ ~Admits(p, w.type)
                    THEN disk' = both /\ UNCHANGED m /\ Ended(o, Refusing(p))
                    ELSE \E r \in Saved(Listed(p, w.type, w.name)) :
                         /\ disk' = [both EXCEPT !.conf = r.conf] /\ m' = r.m
                         /\ Ended(o, Answering(p, w.name, a.closed /\ b.closed, r.cut))

\* The process ends and is started again: load reads the table.  stop has saved it;
\* without stop, or when the process ends in stop, the disk has what a save leaves
\* that fails there.  What it has when the process ends in scriptWriteSave is what
\* that handler leaves when the write under way fails, or is cut, there.
Restart ==
    /\ log.runs < MaxRuns
    /\ \E r \in Saved(m) :
        /\ disk' = [disk EXCEPT !.conf = r.conf] /\ m' = Loaded(r.conf)
        /\ log' = [log EXCEPT !.runs = @ + 1, !.cut = FALSE,
                              !.risk = IF r.cut \/ r.m.changed THEN Path ELSE @]
    /\ c' = [o \in Client |-> NewClient] /\ peer' = [o \in Client |-> NoPeer]
    /\ UNCHANGED acts

-----------------------------------------------------------------------------
\* triggerActionReceiveBegin: an action that was under way is dropped.
\* (Slip: its buffer is used again.)
NewAction_Reused(b, n) == IF b.there THEN [b EXCEPT !.len = n] ELSE NewBuf(n)
NewAction(b, n) == NewBuf(n)

\* The space may have gone; then nothing is changed.
triggerActionReceiveBegin(o, n) ==
    /\ Served(o) /\ log.begun < MaxUploads
    /\ \/ /\ c' = [c EXCEPT ![o].action = NewAction(@, n)]
          /\ Begun(o, log.begun + 1, [action |-> n])
       \/ UNCHANGED c /\ Refused(o)
    /\ UNCHANGED <<m, disk, acts>>

triggerActionReceiveAppend(o, n) ==
    LET b == c[o].action
        data == b.data \o Sent(o, "action", n)
    IN  /\ NextPiece(o, "action", n)
        /\ c' = IF ~b.there THEN c
                ELSE [c EXCEPT ![o].action =
                        IF Len(data) > b.len THEN NoBuf ELSE [b EXCEPT !.data = data]]
        /\ UNCHANGED <<m, disk, acts, log>>

\* triggerActionCommit, modifyTriggerAction: the trigger is given the action unless
\* it or its space has gone or the action does not compile.
triggerActionCommit(o) ==
    LET b == c[o].action
    IN  /\ Served(o) /\ (b.there \/ peer[o].id # Nothing)
        /\ acts' \in (IF b.there /\ Len(b.data) = b.len
                      THEN {acts, acts \cup {b.data}} ELSE {acts})
        /\ c' = [c EXCEPT ![o].action = NoBuf] /\ peer' = [peer EXCEPT ![o] = NoPeer]
        /\ UNCHANGED <<m, disk, log>>

-----------------------------------------------------------------------------
Uploads(o) ==
    \/ \E p \in Path, y \in Type, lens \in [Files -> Length] : scriptWriteBegin(o, p, y, lens)
    \/ \E f \in Files, n \in Piece : scriptAppend(o, f, n)
    \/ NothingSaved(o)
    \/ scriptWriteSave(o)
Actions(o) ==
    \/ \E n \in ActionLength : triggerActionReceiveBegin(o, n)
    \/ \E n \in Piece : triggerActionReceiveAppend(o, n)
    \/ triggerActionCommit(o)
ClientNext ==
    \/ \E o \in Client : open(o) \/ close(o) \/ Login(o) \/ Uploads(o) \/ Actions(o)
    \/ Restart
ClientSpec == ClientInit /\ [][ClientNext]_clientVars

-----------------------------------------------------------------------------
\* What is listed has a type, that of a client or what was left of it in the file.
ClientTypeOK ==
    /\ DOMAIN c = Client /\ DOMAIN peer = Client
    /\ m.info \in [Path -> {NoInfo} \cup [type : AnyType, name : 1..log.begun]]
    /\ disk.conf \in [Path -> {NoInfo} \cup [type : AnyType, name : 1..log.begun]]
    /\ \A o \in Client, f \in Files : Len(c[o].write.buf[f].data) <= c[o].write.buf[f].len

\* NoHalfUpload: an upload has both its buffers or none, and a connection finds
\* none of an earlier one's (close, scriptWriteScriptAppend).
NoHalfUpload ==
    \A o \in Client : LET b == c[o].write.buf
                      IN  /\ b["script"].there <=> b["save"].there
                          /\ b["script"].there => c[o].open

\* FilesWhole: however the messages of several clients interleave, whatever writes
\* fail and wherever the process ends, a file on the disk is the beginning of one
\* client's file; after an upload that was answered "ok" both files are there whole
\* and belong together, until a later upload to the path fails in between, unless
\* one of them could not be closed (RanaClient::scriptWriteSave, saveBuffToFile).
FilesWhole ==
    /\ ClientTypeOK /\ NoHalfUpload
    /\ \A p \in Path, f \in Files :
           LET d == disk.file[p][f]
           IN  /\ d = <<>> \/ IsPrefix(d, Whole(d[1][1], f))
               /\ log.good[p] # Nothing /\ p \notin log.lost => d = Whole(log.good[p], f)

\* TableKept: the table by path and the table by type agree; the manager's file is
\* as the table unless a change is noted or the file was cut when it was last
\* written, and unless it was cut it lists no path with another type; an upload that
\* was answered "ok" is listed by its name, unless the server was started again when
\* the file was not as the table (setScriptInfo, save, load).
TableKept ==
    /\ \A y \in AnyType : m.ofType[y] = {p \in Path : m.info[p].type = y}
    /\ m.changed \/ log.cut \/ disk.conf = m.info
    /\ \A p \in Path :
        /\ log.cut \/ disk.conf[p].type \in {NoType, m.info[p].type}
        /\ log.good[p] # Nothing /\ p \notin log.risk => m.info[p].name = log.good[p]

\* AnsweredIsStored, which the code does not keep: an upload that was answered "ok"
\* has its files whole on the disk and is listed by its name (Cmd_Rana.cpp answers
\* ERROR_OK, which RanaProto_Rana.h calls success).
AnsweredIsStored ==
    \A p \in Path : log.good[p] # Nothing =>
        /\ m.info[p].name = log.good[p]
        /\ \A f \in Files : disk.file[p][f] = Whole(log.good[p], f)

\* ActionsWhole: what a trigger is given is the whole of one action that a client
\* sent, though the buffer of one that was broken off outlives its connection.
ActionsWhole ==
    \A a \in acts : \E id \in 1..log.begun :
        "action" \in DOMAIN log.len[id] /\ a = Whole(id, "action")
=============================================================================
