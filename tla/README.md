# Verification of the behaviour editor

The repository is a Windows editor for game behaviour ("triggers": when an event
happens and a condition holds, do some actions), the Lua code generator behind it,
and the C++ runtime that executes the generated Lua in a game server. This
directory holds TLA+ modules that model its core, TLC configurations that check
them on small instances, and TLAPS proofs of theorems for every instance.

Paths below are relative to `src/`. Sources are GBK encoded with CRLF line ends.

How to check, from this directory:

    tlc -workers 2 -config MCEditor.cfg MCEditor.tla      (one per run)
    tlapm TreeForestProofs.tla

`PROJECT.json` lists the components, the runs with their properties, a slip of the
code ("mutant") that each property catches, the source lines of every definition,
the hazards of the code, the findings and the theorems.


## 1. The system

### Editor

| Part | Source | State it keeps | Operations | Talks to |
|---|---|---|---|---|
| Tree template | `Vek/Vek/Base/Tree.h` | four pointers per node: parent, previous, next, first child | insert, append, unlink, remove, swap, delete | base class of every node of a space and of the definition tree |
| Nodes of a space | `TriggerEditor/Space/S*.cpp` | texts, definition, set of references, error mask | clone, copy from, verify, XML in and out | tree template, TEE definitions |
| Space manager | `TriggerEditor/Space/SpaceManager.cpp` | the root of the loaded space, its file name, counters for names | load, save, build default nodes, look up | frame, nodes, XML |
| Commands | `TriggerEditor/Command/Commands.cpp` | per command: the nodes and places it noted, what hangs on it | execute, unexecute, delete | tree template, windows (refresh), command manager |
| Command manager | `TriggerEditor/Command/CmdManager.cpp` | per document a list of commands with two iterators; the nodes that are cut; the clipboard | add, undo, redo, remove the lists of a document, flush, cut, copy, paste | commands, frame (changed flag) |
| Windows | `TriggerEditor/UI/*.cpp` | widgets, selection | create, delete, cut, paste, drag, edit in a dialog | command manager, space manager |
| Frame | `TriggerEditor/App/TgrFrame.cpp` | selected space, last selection, changed flag | open, choose, save, close | space manager, command manager, windows |
| Code generator | `TriggerEditor/LuaCode`, `SpaceFactory/GenCode` | none | text from a space | nodes |
| Lua client | `TriggerEditor/Protocol/LuaClient.cpp` | state of the connection | connect, retry, send scripts | Zoic session |
| Definitions | `TEENode/Tree` | the tree of events, conditions, functions that the editor offers | load, include, look up | tree template, XML |
| Factories | `TEEFactory`, `SpaceFactory`, `GWWidget` | windows for writing definitions | make, delete, drag a definition | definitions, tree template |

A *space* is a tree: root, groups, triggers and functions, and inside a trigger its
events, conditions and actions. The gallery window edits groups, triggers and
functions; a trigger opened in an edit window is a document of its own, with its own
undo list. Everything runs in the thread of the windows: what is hard here is not
concurrency but long sequences of legal calls. Commands remember pointers and places
and own the nodes they took out; undo lists are nested, since deleting a trigger in
the gallery deletes the trigger's list; the file, the flag, the selection and the
root must agree across loads, failed writes and answers to questions.

### Runtime

| Part | Source | State it keeps | Operations | Talks to |
|---|---|---|---|---|
| Space bank | `Vek/LuaBind/RanaSpaceBank.cpp` | active and unused spaces, handles with serials, the list of spaces that failed | create, delete, reload, routine | everything below |
| Space | `Vek/LuaBind/RanaSpace.cpp` | a Lua state, its threads, a status | load a file, run functions in threads | Lua |
| Event and trigger banks | `Vek/LuaBind/RanaEventBank.cpp`, `RanaTriggerBank.cpp` | events by type, label and trigger; triggers by handle | register, dispatch a message, burst a trigger | Lua actions, which may call back |
| Timer bank | `Vek/LuaBind/RanaTimerBank.cpp` | active timers by expiry, paused timers, the one that expires | create, switch, reset, routine | space bank, event bank |
| Waiting threads | `Vek/LuaBind/RanaWait.cpp`, `Vek/Vek/Base/TimerBank.cpp` | sleeping Lua threads by type of space | wait, tick, delete with a space | spaces, Vek timers |
| Network | `Vek/Zoic` | sessions in a pool, send and receive buffers, keep-alive counters | accept, receive, split, send, probe, close | server, client |
| Lua server | `Vek/LuaServer` | per client the upload and the action under way; the table of scripts and its file | take uploads in pieces, list, reload, tick: timers, then spaces, then sessions | all of the runtime |
| Block allocator | `BlockAllocator.h` | a free list | allocate, free | definition nodes |

The runtime is one thread as well, driven by ticks, but it is re-entrant: an action
runs Lua, and Lua may register events, switch timers, wait, or end its space while
the bank that called it is in the middle of a loop. Sessions meet the outside world:
split packets, full buffers, time-outs, files that cannot be written. The Lua
server's clients interleave message by message; each message is handled whole.

### What makes each part correct

* Tree template: pointers agree, nothing points to freed memory, no cycle; it
  implements ordered lists of children, and an insertion puts a node where asked.
* Command manager: a list is two stacks; a command is done and undone in turns; every
  command object has one owner.
* Commands: undo and redo restore exactly what was shown; no command meets a freed
  node or a place that is not there; every node has one owner.
* Frame: a space goes to its own file, a cleared flag means that the file holds what
  is shown, changes are not dropped silently, no command outlives its root. (The first
  and the third hold with exceptions only: section 6.)
* References between nodes: the set of a definition is the set of its users, each
  bears its name, and one that lost its definition is marked.
* Runtime spaces, timers, waits: what belongs to a space ends with it and not
  otherwise; a timer that is on expires; a loop survives what its callbacks do.
* Event and trigger banks: no doubles, each message is read with its own context
  however messages nest, a message for the first trigger bursts one.
* Sessions: messages come out as they went in; handles of closed sessions find
  nothing; a dead peer is noticed.
* Editor's client: a server hears the login first and nothing stale; the client comes
  back when the server does.
* Lua server: a stored script and its save file are whole and belong together; the
  table and its index agree, and its file with them unless a write of it was cut; what
  the client was told is stored is there after a restart. (The last does not hold:
  section 6.)


## 2. Plan

The most important behaviour came first.

| Step | Modules | State |
|---|---|---|
| 1 | `TreeNode`, `TreeForest`, `OrderedForest`, `TreeForestProofs` | modelled, checked, proved |
| 2 | `UndoList`, `CmdManager`, `UndoStack` | modelled, checked, proved (in `TgrFrameProofs`) |
| 3 | `TgrFrame`, `TgrFrameProofs` | modelled, checked, proved |
| 4 | `EditCommands` (composes 1 and 2 with the windows), `EditCommandsProofs` | modelled, checked, proved in part |
| 5 | `RanaTimerBank`, `RanaTimerProofs` | modelled, checked, safety proved |
| 6 | `RanaSpaceBank`, `RanaWait` (composes the bank with the waits), `RanaSpaceProofs` | modelled, checked, safety proved |
| 7 | `RanaDispatch`, `LuaServerProofs` | modelled, checked, proved |
| 8 | `ZoicSession`, `ZoicSessionBank`, `EditorClient`, `NetworkProofs` | modelled, checked, safety proved |
| 9 | `SpaceReferences`, `SpaceReferencesProofs` | modelled, checked, proved |
| 10 | `RanaClient` (uploads to the Lua server), `LuaServerProofs` | modelled, checked, proved |
| 11 | `TEEFrame` (the tree of definitions in its window) | modelled for a finding |

Abstract specifications: `OrderedForest` for the tree, `UndoStack` for the lists. Each
is a PROPERTY of a run, and both are proved. `RanaWait` is shown to keep to the
interface of `RanaSpaceBank` by the theorem `WaitsUseThePool`.

Of the safety properties that the runs check and that hold, three have no theorem:
`NothingBreaks`, `UndoRestores` and `EachHasOneOwner` of `EditCommands`. They need a
careful user and functions that exist from the start, so they are not true of every
instance, and they are about the whole history of a document. What is proved instead, for
every instance: that the tree stays well formed whatever the user does, and that undo is
the inverse of a command, of a macro and of an edit that is undone at once. Section 5
gives the reasons.


## 3. The modules

### The tree template

* `TreeNode` writes each method of `Tree.h` as an operator on a record of four
  functions (`parent`, `prev`, `next`, `first`), the assignments of the method in
  their order. `Deleted` is what the recursive destructor frees. A node whose memory
  is freed has no fields any more; here they are null, and what still points to it is
  what `NoDangling` forbids.
* `TreeForest` is the state machine: construct, and each method with the guard that
  callers provide and that the assertions of `Tree.h` demand (inserted nodes are
  unlinked and not above their new parent).
* `OrderedForest` says the same with sequences of children, without pointers.
* `MCTreeForest` states the refinement: `ImplementsOrderedForest` maps each pointer
  structure to the sequences a walk along `next` meets.
* `Swap` does not work for neighbours: the previous sibling it noted for one is the other,
  which it then inserts behind itself, against the assertion of InsertAfter
  (`Tree.h:139`). `DoSwap` excludes them. The editor never swaps neighbours: it exchanges a
  node of the space with one that was built aside, or with one of another parent's list
  (`Commands.cpp:620`, `686`, `749`; `StatementDlg.cpp:323`, `ParamDlg.cpp:821`,
  `SpaceManager.cpp:1083`, `1135`).
* `TEEFrame` is the one caller that does: definitions are made, deleted and dragged among
  their siblings, and a drag with the right button exchanges two of them. Its operations
  other than that are those `TreeForest` has, so it is run for its finding only
  (`MCTEEFrame`). The roots of the kinds stand for themselves, without the root above them.

### Undo lists

* `UndoList` is `CmdList`: a sequence and the places of the two list iterators,
  `end()` being the place behind the last command.
* `CmdManager` keeps one list per document and, per address, whether there is a
  command and whether its effect is in place. Executing a gallery command may delete
  triggers from the space, and `RemoveItemNode` then deletes the lists of those
  documents: the parameter `R` of each action.
* `UndoStack` is what a user expects: a stack of what was done and one of what could
  be redone. `CmdManager` implements it: `Done` and `Undone` are the parts of a list
  before and from its redo iterator.
* `MCEditor` runs `TreeForest`, `CmdManager` by itself, `TgrFrame` and `SpaceReferences`,
  one of them in each behaviour: `part` says which, and the variables of the others rest. The lists are
  a part of their own because the session never removes one document's list from
  within another's command; `EditCommands` does.

### The session of the editor

* `TgrFrame` extends `CmdManager` with files, root, selection and flag. The content
  of a space is abstracted to the set of edits in effect, each command being a new
  edit, so "file and screen agree" is equality of sets.
* Loading can fail (the file is missing or cannot be parsed): the default space is
  shown and counts as changed. Writing can fail or stop half-way (`Unreadable`);
  SaveTrigger clears the flag either way (`saveFailed` notes it).
* `OpenSpaces` empties the gallery and clears the selection and m_iLastSpaceSelect,
  while the root stays in the space manager; the variables' dialog can still edit that
  root, since it asks the manager. SaveTrigger takes the root from the manager and the
  file from the selection (`Target`). Cancel in OnSpaceChoice puts the selection back
  only if there was one (`Kept`): the action is the same after `OpenSpaces` as after a
  load, and that is what `SavesOwnSpace` fails on.
* `Close` composes the destructor of the frame and the next start of the program.
* In SaveTrigger the dialog for a file name is not modelled: a root has always been
  loaded with a name.

### Commands on a space

* `EditCommands` composes `TreeForest`'s state, the operators of `TreeNode` and the
  lists of `UndoList`. A macro is a sequence of commands; executing it folds the
  commands over a record of the state, in the order of the calls of the code,
  including the lists that are deleted on the way.
* The constructors note where a node stands (`DeleteNodeCmd`, `MoveNodeCmd` for
  PasteNodeCmd). What would be undefined in C++ (use of a freed node, a broken
  assertion, linking a node twice) sets `broken`, and the system stops there.
* The windows are the operators from `Attached` on: what a document shows, what can
  be selected, where a new or pasted node goes for that selection.
* `seen` notes, per document, what it showed at each place of its list: `UndoRestores`
  compares against it.
* `space` is the space that was loaded: the tree of its file, the addresses that new
  nodes may get, and the bound on macros. Init chooses one of `Spaces` and no step
  changes it. `MCEditCommands` gives two: the statements of a trigger, and a gallery.

Abstractions made in `EditCommands`:

* Statement classes are one class, so every place a window offers to some class is
  offered. The statements of a trigger hang below the trigger itself, without the
  fixed roots between.
* A pasted copy is a new node, like a newly created one; variables that the edit
  window pastes in a macro of their own are left out.
* Selections have at most two nodes. Those of different parents come in either
  order: the code sorts by the order of the widgets.
* Widgets are left out; UpdateReferenceNodes is in `SpaceReferences`.
* `Careful` (an assumption about the user): between a cut and its paste, which is in
  the same document, the user neither undoes nor redoes nor edits a statement.
  Without it the code breaks; see section 6. The run `edit` assumes it, the run
  `cut_paste` does not.

### References between nodes

* `SpaceReferences` keeps, per reference (a call of a function, a parameter that names
  a trigger), its definition, its copy of the name and its error mark, and per
  definition the set of its references. A node is in the tree of its holder or hangs
  on a command; order and places are in `EditCommands`.
* An action is a command's Execute, UnExecute or destructor with all it calls:
  AddNodeItem (PostLoadedSpace looks definitions up by name, UpdateReferenceNodes
  renames, CheckErrorTree marks), RemoveItemNode, and what the deletion of nodes does
  to the sets. A step that looks a definition up and fails is noted in `found`.
* Names are kept apart by CheckNameValid and its like (`Taken`). References to
  variables are left out: their types, arrays and the roots of locals and parameters
  are a subsystem of their own.
* The constant `Copies` says whether copies are pasted. In the run `references_lost`
  they are not, so that the finding does not rest on a name typed by hand.

### The runtime

* `RanaTimerBank` is the timers of all spaces and the loop of `routine`. A time is
  kept relative to `g_Clock`, so that states repeat. While `mode` is "callback" the
  Lua that a timer runs may do whatever it may do between frames. `Garbage` is what
  the clock may lead to before `initCurrentTime` gives `m_curTime` a value.
* `RanaSpaceBank` is the pool: slots with serials, tables by slot and name, and the
  list of spaces whose Lua failed. An element of the list is a node `<<slot, number>>`,
  and a space remembers the number of its own (`m_itErrorList`). initialEmptySpace
  clears the mark of a space that is reloaded and leaves its node (`RanaSpace.cpp:116`),
  so a slot may have several nodes, and a node may be older than the space in its slot;
  `stale` notes those slots. `routine` asks the context of whatever space it finds
  there; where that is null the program ends (`crashed`, `RanaSpaceBank.cpp:331`).
* `RanaWait` extends it with the threads that wait, which the code keeps by the type
  of the space, and with TimerBank::Tick, which walks its list while callbacks append.
* `MCRanaWait` runs the pool alone, with reloads of failed spaces, or the pool with
  threads, where the spaces that are reloaded have not failed (`bank'.stale = {}`): both
  at once are some millions of states, and the theorem `WaitsLive` covers them.
* `RanaDispatch` is one space's events and triggers. The calls under way are a stack
  of frames: a walk of `onMessage`, the condition of a trigger, its action. Lua runs
  whenever a trigger is on top, and may start another walk. Where `push_back` may move
  the vector that a walk stands in, the outcome is nondeterministic (`crashed`).

### The network

* `ZoicSession` is one connection with the bytes in both buffers, the error it keeps,
  the keep-alive, and the peer. A handler may refuse a message or set an error.
* `ZoicSessionBank` is the server's pool: accepting, the loop of `run`, handlers that
  end any session they find by a handle noted before, however old. `m_itList`, the place
  a session keeps in the list, is `Place`: the list has no session twice.
* `EditorClient` is the editor's connection, its retries, what the frame shows, and a
  server that stops and starts.
* `MCNetwork` extends all three and runs one of them in each behaviour. They share no
  state, so a product would only multiply the states; the variables of the parts that
  rest are constant. A session is of one of the `Setups` (its buffers, its messages, how
  its peer behaves), kept in `conf`, which no step changes: what it receives, what it
  sends and its keep-alive are checked on a setup of their own.

### The Lua server

* `RanaClient` is what clients send in pieces: a script with its save file, and the
  new action of a trigger, with RanaScriptManager's table and its file. A session
  object is closed and serves another connection (`open`, `close`); what `close` does
  not free stays.
* A write of an upload's file (`Written`) can fail before the file is opened or half-way,
  and is then reported; or at the flush in fclose, whose result saveBuffToFile drops
  (`closed`), and the upload goes on as if the file were whole.
* A save of the table (`Saved`) does nothing when the file cannot be opened. Once it is
  opened it is empty, and any part of the lines may be left (`CutFiles`), the last of
  them cut in the type: "12" becomes "1" (`CutType`), and 0 when no digit is left. The
  note of the change is taken back whatever was written. Not modelled is a file whose
  middle is missing, a flush having failed between two that succeeded.
* `Restart` is the end of the process with or without `stop`, or in the middle of it, and
  `load` of whatever the disk has. An end within scriptWriteSave leaves what a failing
  write leaves there. `log` notes what has gone unseen: paths whose files were not
  closed (`lost`), that the table's file is cut (`cut`), and the paths whose listing the
  last start may have changed (`risk`).
* The clients are external: they heed the answer to a request to begin, and may send
  less or more than announced, break off or begin again.
* `MCLuaServer` extends `RanaDispatch` and `RanaClient` and runs one of them in each
  behaviour, as `MCNetwork` does; uploads and actions are apart, since the code keeps
  them in different members of the session object.


## 4. The runs

The state spaces of the passing runs are explored completely.

| Run | Instance | Distinct states | Shows |
|---|---|---|---|
| `editor` | 4 node addresses; 2 documents, 4 command addresses; 2 spaces, gallery and variables, 3 edits in all; 1 function, 2 triggers, 3 references, 2 names | 434360 | pointers sound, refinement of `OrderedForest`, `PlacesAsAsked`; iterators, effects, ownership, refinement of `UndoStack`; flag, own file once loaded, no stale commands; sets, names and marks agree |
| `session_loss` | 2 spaces, 3 edits | until found | finding: undo after a save |
| `session_other_file` | 2 spaces, 1 edit | until found | finding: one space saved into the other's file |
| `definition_drag` | 1 kind, 3 definitions | until found | finding: a definition falls out of the tree |
| `edit` | a trigger with 2 statements and 1 free address, 2 macros; a group with a function and 3 free addresses, 3 macros | 85215 | undo restores, one owner, nothing breaks |
| `cut_paste` | as `edit`, without `Careful` | until found | finding: a node that was cut is pasted from outside the tree |
| `references_lost` | as in `editor`, with 3 names, no copies | until found | finding: a moved trigger loses the reference to itself |
| `timers` | 2 spaces with 1 timer, periods to 2, frames to 2 | 93052 | lists, owners, neither early nor overdue, every timer served |
| `waits` | 2 slots, 2 types, 3 creations, 2 nodes of a slot; 2 threads | 116196 | pool, handles, waits, failures served, lives end |
| `server` | 2 triggers, 2 keys, 3 calls deep, 2 events; 2 clients, 2 uploads, 2 runs; 2 clients, 3 actions | 1404184 | banks, contexts; files, table, actions whole |
| `uploads_lost` | the same | until found | finding: what was answered "ok" is not listed after a restart |
| `network` | see below | 127467 | frames, sending, pool, keep-alive, retries |

Why these bounds are enough to show the interesting cases:

* `editor`, the tree: the branches of every method depend on a node's neighbours and
  parent: a middle child with both siblings and their parent are four nodes. `Swap` of
  distant and of differently rooted nodes occur; neighbours are in `definition_drag`.
* `editor`, the lists: four addresses let one list hold three commands with the iterators
  at the beginning, inside and at the end, while another list is deleted; addresses are
  reused after a deletion.
* `editor`, the session: two spaces are the one on the screen and the other; three edits
  suffice for one saved, one undone and one made after that.
* `edit`: two macros are one to undo and one that follows or replaces it; a macro
  deletes or moves up to two nodes, and three statements give first, middle, last and
  nesting. In the gallery three macros are needed for a trigger to be made, its
  statement to be made in its own document, and the trigger's group to be deleted,
  which deletes the trigger's list, undone and redone. `MaxCmds` counts the macros of
  all documents.
* `editor`, the references: a trigger can refer to itself and to another; a copy can take the
  place of its original; a name can be given up by one trigger and taken by the other.
* `timers`: a period may be shorter than a frame, equal to it or longer, so a timer may
  be due twice in a frame; `IntMax` is 1, so that a period of 2 is one whose conversion
  to int is not positive. Two timers of two spaces: while one runs Lua the other may be
  switched, deleted with its space, or due as well.
* `waits`: two slots of one or of two types; a third creation reuses a slot. With two
  nodes of a slot, a space that failed and was reloaded fails again while its old node is
  on the list, or leaves that node to a space made in its slot without a context. Lives
  of no time and of two units, frames of one.
* `server`: three calls are a walk, a trigger in it and a walk in that; two events of
  one type are a walk with something after it. Two uploads are two clients at one path,
  with the same type or not; files are empty or of two bytes, pieces of one or two, so
  a file comes in one or two pieces or is too long by one. The types are 1 and 12, the
  second of which can be cut to the first. Three actions: one broken
  off on a connection, one on the next, one of the other client.
* `network`, receiving: a buffer of 4 bytes, messages of 2 to 4, and lengths no message
  has, two of them in any fragments. Sending: two messages of 2 or 3 bytes into a
  buffer that starts at 3 and may grow to 5. Keep-alive: three probes and a frame as
  long as all of them. Pool: 1 or 2 sessions, three clients. Editor: three waits, two
  probe times, three queued requests.

Bounds in guards: `MaxCmds` (macros), `MaxPeriod` and `MaxStep` (times), `MaxSerial`
and `MaxNodes` (spaces created, nodes one slot has on the list of failures), `MaxDepth` and `MaxEvents`
(calls, events), `MaxIn`, `MaxOut`, `MaxConns` and `Stall` (messages, connections, the
longest frame), `MaxUploads` and `MaxRuns` (transfers, runs of the server); in `MCLuaServer`
`MaxFiles` (the uploads of scripts among the transfers), and in `MCEditor` `SessionCmd`
(the edits of a session).

Deadlock is checked in `timers`. The others may stop: `editor` when all nodes with
references are freed, since a freed one does not come back; `edit` where something is
broken, which `NothingBreaks` reports; `waits`, `server` and `network` when a bound is
used up, `waits` also when the program has crashed.

Symmetry is used where only safety is checked: triggers, references and names in `editor`
and `references_lost`, of which the action properties of `editor` do not speak; triggers,
keys and clients in `server` and `uploads_lost`. No CHOOSE there picks one of them, and
none is ordered.

### Fairness

The editor acts only when the user does, and no user is obliged to do anything, so its
modules state no fairness. The runtime is driven by a main loop that calls Tick for
ever (Vek/Vek/Base/Service.cpp):

* `timers`: WF of the server's own steps (routine, its loop, the clock). Lua is under
  no obligation. `EveryTimerServed`: a timer that is on and not reset for ever expires
  again and again.
* `waits`: WF of the ticks, SF of the service of a failed space, since the space may
  leave and come back to the list while others are served. `EveryLifeEnds` speaks of
  timers with a life, `FailuresServed` of marked spaces; neither of a program that has
  crashed.
* `network`: WF of the session's run and of the clock; WF of the bank's run; SF of the
  selector, which has its turn between two runs and is not enabled during one; WF of
  the client's start, Tick, selector and clock. The server that the client talks to is
  under no obligation: `ComesBack` assumes that it stays up.

### The properties

* One type invariant per module, checked alone (`FrameTypeOK`, which has that of
  the lists, `ListsTypeOK`, in it; `EditTypeOK`) or as a conjunct of the first property of the part.
* `WellFormed`: the fields are typed, pointers agree and lead to living nodes, and every
  walk ends.
  `PlacesAsAsked` (action property): an insertion puts the node exactly where its
  reference says and moves no other child.
* `Cursors`, `EffectsInPlace`, `OwnedOnce`, `ImplementsUndoStack`: see section 1.
* `FlagHonest`: while the flag is clear, the file is as the screen, except after an undo,
  a redo or a failed save. `CommandsOfThisRoot`. `SavesLoadedSpace` (action property): once a
  space was loaded since the list of spaces was opened, a save changes its file and no
  other.
* `DragExchanges` (action property, violated): a drag with the right button exchanges two
  siblings and moves no other.
* Violated: `SavesOwnSpace`, the same of every save; `LossIsAsked`, a space that differs
  from its file is not dropped without the question, except after a save that failed.
* `ListsInSpace`: a trigger whose commands are kept is in the space. `NothingBreaks`,
  `UndoRestores`, `EachHasOneOwner`; `CutNodeHasParent` (violated): the
  assertion in the constructor of PasteNodeCmd.
* `ReferencesAgree`, `LossIsShown`; `DefinitionsFound` (violated): the assertions of
  PostXMLLoaded.
* `Containers`, `OwnersLive`, `NothingOverdue`, `NeverEarly`, `EveryTimerServed`.
* `PoolConsistent`: the four containers agree; a marked space has its node on the list and
  a context to ask; a node on the list is that of a marked space or one that a reload
  left; and the program crashes only on one that a reload left. `StaleHandles`,
  `WaitsAreLive`, `FailuresServed`, `EveryLifeEnds`.
* `BanksConsistent`, `ContextOfMessage`, `FirstOnlyOne`.
* `FilesWhole`: what is on the disk is a beginning of one client's file, and after an
  upload that was answered "ok" both files are there whole unless one was not closed;
  an upload has both buffers or none, and none outlives its connection. `TableKept`: the
  table by path and by type agree; its file is as the table unless a change is noted or
  the file is cut; what was answered "ok" is listed unless the server was started with
  a file that was not as the table. `ActionsWhole`: a trigger is given one whole action.
* Violated: `AnsweredIsStored`, the two without their exceptions.
* `PoolHolds` of the bank and `ServerHears` of the client are those modules' own;
  `FramesInOrder`, `SentInOrder` and `ProbesAreDue` are the session's. The temporal
  `EndsAreServed` and `ComesBack` name the part of the run they are about and the
  properties of its module.


## 5. What is proved

`tlapm` checks eight modules of theorems with no unproved leaf. Assumptions are only
those of the constants:

| Assumption | Says |
|---|---|
| `NullAssumption` | null is not a node |
| `GalleryAssumption`, `FrameAssumption` | the gallery is a document; "no space" is not a space, and the session has the two documents of the gallery and the variables |
| `EditAssumption` | finitely many addresses, of disjoint classes (a function's and a trigger's are apart); the gallery is no node; a space is loaded from its root downwards |
| `TimerAssumption`, `NoneAssumption` | times are numbers and a frame may take some; "none" is not a timer |
| `BankAssumption` (`RanaSpaceBank`), `WaitAssumption` | there is a slot, "none" is neither a context nor a number; times are numbers |
| `DispatchAssumption` | the bounds are numbers, "none" is neither a key nor a number |
| `BankAssumption` (`ZoicSessionBank`) | sizes are numbers, the end of the list is none |
| `SetupAssumption` | the receive buffer holds the length of a message, the send buffer starts no smaller and may only grow, there is a probe, and the last silence is the longest |
| `EditorAssumption` | the waits do not fall, the first probe (`SYSPING_KEEPIDLE`) takes some time, the send buffer has room for a request |
| `ReferenceAssumption` | functions, triggers and their references are apart |
| `ClientAssumption` | lengths and pieces are numbers, a type is a byte |

The sets may be of any size, infinite ones included except for the addresses of
`EditAssumption`, and the bounds any numbers.

**`TreeForestProofs`**: `TreeTypeOK`, `TreeWellLinked`, `TreeAcyclic`, `TreeNoDangling`
and their conjunction `TreeWellFormed`, for any set of nodes. That there is no cycle is
stated without reachability (recursion over data is out of the prover's reach): no set
of nodes is closed under `parent`, nor under `next`, except the empty one. The invariant
`IInv` needs all four together: an insertion keeps the pointers consistent only if the
reference is where it says, deletion frees a set that is closed under the pointers only
if they are consistent, and the new parent is not inside the inserted node only if there
is no cycle. Each method has one lemma about the fields it writes and one about what it
keeps.

`ForestRefines` and `ChildrenAsAsked` say what the pointers mean. The children of a node
are a recursive function of the pointers; that it is defined, and what it returns, is
proved without induction over data. A walk from a node is unique, for the nodes where
two walks differ would be closed under `next`; hence the list (`Lists`) is known by its
places, and a sequence whose places agree with the pointers is the list (`ChildSeqIs`).
Each method then has a lemma on the lists it leaves (`InsertAfterSeq`, `UnlinkSeq`,
`RemoveSeq`, `RemoveNextsSeq`, `SwapSeq`), and one that makes it a step of
`OrderedForest`. The subtree of a node, there the least set closed under the lists, is
the set that the destructor's recursion frees (`DeletedIsDown`).

**`TgrFrameProofs`**, the lists: `CmdTypeOK`, `CmdCursors`, `CmdEffectsInPlace`,
`CmdOwnedOnce` for any documents and commands, from their conjunction (a step of an
iterator changes one command's effect; that no other place of any list holds that
command is `OwnedOnce`). `CmdRefinesStacks` shows that every step is a step of
`UndoStack` or a stutter.

**`TgrFrameProofs`**, the session: `SessionTypeOK`, `SessionSavesLoadedSpace`,
`SessionCommandsOfThisRoot`, `SessionFlagHonest` for any spaces and edits. The invariant
`FrameIInv` adds to the checked properties the invariant of the lists; that files
hold only edits that were made (`FilesMade`), since what a load shows is typed because of
it; and `ScreenIsChosen`: while the root is on the screen, which it is whenever
m_iLastSpaceSelect is set, it is the root of the selected space. `SessionSavesLoadedSpace`
and `SessionFlagHonest` rest on the last: a save writes the root's own file, and makes the
flag honest, only because the selection names that file.

**`EditCommandsProofs`**, what holds of any user: `EditTreeWellFormed`,
`EditListsInSpace`, `EditTyped`, for any nodes, any spaces that are loaded, any number of
macros, careful users or not. A step is computed on a record of the tree, the living
nodes, the lists and what is broken. The invariant `EditIInv` says that this record is
`Good`, that `seen` has the shape of the lists, and that the root is never cut, nor
statements together with other nodes. `Good` joins the well-formed tree, the classes of nodes (a statement holds
statements only, a trigger hangs below groups) and `Listed`: the commands of a list are
about nodes of that document, and the triggers with lists are in the space. Each
computation on a record keeps `Good`, from the methods of the tree (whose lemmas are
those of `TreeForestProofs`) through commands and macros to the actions; while a subtree
is removed, the lists of a set `W` of triggers in it are still to go (`Good(s, W)`). The
folds over macros, lists and selections are recursive functions over an interval: they
exist by a step upwards (`TurnsExist`), and a predicate that each turn keeps holds at
the end (`Onwards`). The classes are why `ListsInSpace` is inductive: what is done in a
trigger's own document moves statements, never the trigger.

**`EditCommandsProofs`**, what undo takes back: `CommandUndone`, `MacroUndone`,
`EditUndone`. A command that finds what it noted (`Notes`) is undone exactly; the state
returns as a whole, with the order of the children. A macro is undone backwards, so each
command is undone on the state it left (`Done` is the sequence of these states). That
the windows' macros note what they find is the last part: a place is noted in the
constructor, before the first command runs. Of two selected nodes the later one is
deleted first, and the place of the other was noted while it still stood there.
`DeleteUndone` shows that the place is still right: siblings are selected in their
order, so the node that has gone is not what the other one stands behind
(`BeforeNotNext`). The hypothesis `Quiet` says
that no list of commands is deleted with the node: nodes are freed then, and undo does
not bring them back. `~CanReDo` says the same of the commands that a new macro replaces.

**`RanaTimerProofs`**: `TimerTypeOK`, `TimerContainers`, `TimerOwnersLive`,
`TimerNothingOverdue`, `TimerNeverEarly`, for any spaces, handles, periods, frames and
width of int. The invariant joins them with what they rest on between two calls: a
timer that expires has been taken out of the order before its Lua runs, so whatever that
does starts from consistent lists; when `routine` returns nothing is due because the loop
ends only then, and what Lua sets outside the loop has a positive rest.

**`RanaSpaceProofs`**: `SpacesPoolConsistent`, `SpacesStaleHandles`, `WaitsLive`, for any
number of slots, names, types and threads. `Good` says more than `PoolConsistent`: the
unused list has no slot twice, each name is of one active space, and every serial that
was given is below the next one. The last is why `StaleHandles` is inductive: an old
handle (`Outdated`) can match no space that is opened later. An operation on a space
breaks the agreement of its own state for a while and of no other (`GoodBut`); a failure
in a callback may happen just there. Of the list of failures, `NodesKnown` says that each
node of a slot is that of its marked space or the slot is one where a reload left a node,
and `CrashExplained` that only such a slot has stopped the program; every
operation keeps both for the slot it is about and leaves the other slots' nodes alone.
`WaitsUseThePool` shows that every step of
`RanaWait` is a step of `RanaSpaceBank` or leaves it alone, so what is proved of the
pool holds with the threads as well (`WaitsKeepThePool`); `WaitsLive` then needs that a
space found by its type exists: the one with the least serial.

**`LuaServerProofs`**, the dispatch: `DispatchBanks`, `DispatchContexts`, `DispatchFirst`, for any
names, keys and depth of calls. The properties speak of the context and the walk that
are on top; the invariant of all of them: a frame's context is at its rank among the
walks on the stack (`ContextsOK`), and any walk for the first trigger has burst one
exactly if it has found one (`FrameOK`). By `BurstingOK` the bursting trigger is one that exists:
it is set only while a call is under way, and what deletes triggers runs outside of all.

**`NetworkProofs`**, the session: `FramesReceived`, `MessagesSent`, `ProbesWereDue`, for any
setups. The bytes are concatenations of messages, and what a session hands on is cut from
them by a loop. `SessionIInv` follows the messages by their places in the stream: what is
in the buffer and on the line goes on, message after message, from the start of the first
one that was not handed on (`HearsOn`), the length that is kept is that message's
(`LengthKept`), and what the socket took followed by what is queued is what was asked
(`Sending`). The recursive functions are proved to exist by a step upwards
from one number to the next (`Upwards`), which needs no operator as a parameter.
`Awaits` says why `RoomToReceive` holds: when the loop has handed on what it could, less
than one message is left, or an error is set.

**`NetworkProofs`**, the pool: `BankHolds`, for any sizes of the pool and any
connections. `LoopOK` says that what the loop has still to drive is the list from the
iterator on; closing the session that was passed keeps it, which is why the iterator
moves first. `NetOK` adds that waiting and accepted sockets are apart, without which an
accepted socket might be of two sessions; `KnownOK` that serials given are below the
next one.

**`NetworkProofs`**, the editor's client: `EditorHeard`. While the session is open, all
that is queued was queued on this connection, and until the server has heard something
the login is the first in the queue (`LoginNext`). The login is queued only after
DoConnect has run the session once; that this first run sends nothing is `Untouched`: the
queue is empty and the first probe is not due. The queue is empty because
ConnectGameServer closes a session that waits or is connected, and a client that was
disconnected was closed and cannot queue a request, for its menu items are off.

**`SpaceReferencesProofs`**: `ReferencesKept`, `LossesMarked`, for any definitions,
references and names. An operation renames or removes one definition after another, so
within it the invariant holds but for a set of definitions not updated yet and a set of
references not checked (`Good(b, X, U)`); each helper has a lemma on what it does to the
two sets. `MarkedOK`, a reference to a definition that was unlinked is marked, is what
makes `LossIsShown` inductive.

**`LuaServerProofs`**, the uploads: `UploadsFilesWhole`, `UploadsTableKept`, `ActionsGivenWhole`, for
any clients, paths, types, lengths and cuts into pieces, whatever writes fail, whether
that is reported or not. The properties speak of the disk; the
invariant also of what is under way: the buffers of an upload are beginnings of both
files of one transfer, and a client that still sends it goes on where they end (`UploadOK`,
`GoesOn`). Without the last, a whole file would be of the right length only. `ActionOK`
says the same of an action's buffer, which may be left from an earlier connection: the
next client begins anew before it sends. For the table, `CutTypes` and `CutTables` bound
what a cut file can hold (paths that were listed, each with its name and with its type
or with what is left of it), so that the server starts with a well-formed table from any
of them; `TableOK` ties the exceptions of `TableKept` to the steps that make them.

Where a proof needs a least element (of serials, of places in a list), it is taken from
the library's theorem that the numbers are well founded, which has no operator as a
parameter.

Only model-checked:

* Liveness, which the prover does not reach: `EveryTimerServed`, `FailuresServed`,
  `EveryLifeEnds`, `EndsAreServed`, `ComesBack`.
* `NothingBreaks`, `UndoRestores`, `EachHasOneOwner` of `EditCommands`. They are false
  of some instances: without `Careful`, or with a function that can be deleted and made
  again at the same address (section 6). `UndoRestores` over a whole history also needs that every command of every
  document, at whatever place of its list, would find the tree it was made for, while
  other documents change that tree and lists are deleted with their triggers. That is a
  statement about all the trees a document has shown, built along the history;
  `MacroUndone` is its step. Nor do the theorems cover a pasted selection of two nodes
  (its second command was made before the first had moved, so the place that it noted
  may be one that the first changed), and the removal of a trigger with its list.
* `CutNodeHasParent`, `LossIsAsked`, `SavesOwnSpace`, `DefinitionsFound`,
  `DragExchanges` and `AnsweredIsStored` are violated (section 6).


## 6. Where the code departs from what it says

Found while modelling, each shown by a run:

1. `session_loss`: OnSpaceChoice asks before it drops changes, when the changed flag is
   set. Undo and redo change the space without setting it. Edit, save, undo, choose
   another space: the undone state is gone without a question.
2. `cut_paste`: what was cut is kept by plain pointers, and only a DeleteNodeCmd takes
   a node out. Cut a statement, change it in its dialog (an exchange), paste: the
   constructor asserts that the node has a parent, and it has none.
3. `references_lost`: removing a trigger empties the name of every reference to it, also
   of one inside it; putting it back looks the definition up by name before the names
   are given back. Move a trigger that names itself: the assertion of PostXMLLoaded
   fails, and the reference stays without its definition.
4. `session_other_file`: OpenSpaces clears the selection and keeps the root. A change in
   the variables' dialog sets the flag; choose another space, answer the question with
   Cancel: the choice stays, since there is no earlier one to put back
   (`TgrFrame.cpp:313`). Save: the old root is written into the file of the other space,
   which is lost.
5. `uploads_lost`: the server answers an upload with success whatever became of the
   table's file, which is emptied first, written and closed without a look at the
   results, and then counts as saved (`RanaScriptManager.cpp:92-110`). Cut there by a
   full disk, it is not written again until something else changes, and after a restart
   the script is not listed. The two files of the upload are closed without a look as
   well (`RanaClient.cpp:307`).
6. `definition_drag`: in the window of TEEFactory, a drag with the right button exchanges
   two siblings (`TEEFrame.cpp:816`). Of neighbours, Swap inserts one behind itself, which
   `Tree.h:139` asserts against. Without the assertion that definition is its own next
   sibling and is not met any more among its parent's children; the window shows it, and
   the file that is saved lacks it.

### What the models show of the code

Behaviour the models have because the code has it. No doc, comment or test promises
otherwise (or only in passing), and no property is stated against it.

Editor:

* A function's undo list is not deleted with the function (`Commands.cpp:352`), and
  documents are keyed by the node's address: a new function at that address would
  inherit it. The `edit` run has its function loaded from the start for this reason.
* A cut in one document and a paste in another put a command on the second list that
  moves nodes of the first (`EditTree.cpp:666`); undoing the lists in another order
  meets places that are not there. `Careful` excludes it.
* A trigger cut together with a group and pasted on a top-level group is put under the
  root (`GalleryTree.cpp:560`).
* A failed save clears the flag and is only logged (`TgrFrame.cpp:670`, `674`): the next
  load or the end of the program drops the changes without a question. The user has been
  told, so `FlagHonest` and `LossIsAsked` except it (`saveFailed`).
* The frame closes when the save it was asked for is refused or fails
  (`TgrFrame.cpp:106`), and opening the list of spaces again drops changes without a
  question (`TgrFrame.cpp:700`).
* A recursive call in a function that is deleted and brought back by undo loses its
  definition like the trigger of finding 3 (`Commands.cpp:287`, `SFuncCall.cpp:326`),
  and so does a statement put back while its definition is out of the space.
* Removing a group refreshes references to the group, not to the triggers in it
  (`Commands.cpp:367`): `LossIsShown` leaves those out (`unseen`) until they are checked
  again. Removing a parameter looks for its function through the parent that Unlink
  has cleared (`Commands.cpp:233`).

Runtime:

* getTimerRestTime gives the rest that was set, not what remains (`RanaTimerBank.cpp:298`;
  `RanaTimerBank.h:60` calls it the remaining time). It changes nothing and is not
  an action.
* A repeating timer whose period does not fit in an int stops after its first expiry
  (`RanaTimerBank.cpp:147`).
* Reloading a space after a failure clears its mark and leaves its node on the list
  (`RanaSpace.cpp:116`). `routine` then handles it as failed with no error code, and may
  delete the reloaded space, or the next space in that slot; if that one was made without
  a context, it calls a method of a null pointer (`RanaSpaceBank.cpp:331`, `crashed`).
  `PoolConsistent` says that nothing else leads there.
* Waits are kept by type: deleting one space ends the waits of all spaces of its type
  (`RanaWait.cpp:80`, `125`).
* `Wait(0)` never ends (`Timer.cpp:42` takes a life of 0 for none), and a life is the
  time divided by 1000 while the ticks are milliseconds (`RanaWait.cpp:76`).
* A thread that fails stays on the stack of its space (`RanaSpace.cpp:307`).
* After a nested burst the outer trigger is no longer the bursting one
  (`RanaTriggerBank.cpp:177`).
* Events are compared without their timer, so a trigger gets the event of one timer
  only (`RanaEventBank.cpp:44`).
* Registering an event of the type whose vector a message walks may move that vector
  (`RanaEventBank.cpp:291`): `crashed` of `RanaDispatch`. No property excludes it: it
  happens, and what the properties say of the banks holds up to that point.

Network and Lua server:

* After one long frame the probes follow each other without an interval
  (`Session.cpp:121`).
* DoConnect decides by the session's old error, not by the result of the connect: after
  CloseServer a failed try reads as connected until the next Tick (`LuaClient.cpp:52`).
  `FalseEnds` says that it is found out.
* close frees the buffers of an upload but not the one of a trigger's action
  (`RanaClient.cpp:100`): the next connection of that session object finds it half
  filled. `ActionsWhole` holds because a client begins before it sends.
* When the second file of an upload cannot be written, or another client has listed the
  path with another type since the upload began, the answer is a failure and the files
  on the disk are the new ones or a mixture of both uploads (`RanaClient.cpp:324`).
  `FilesWhole` speaks of a path until that happens.
* Cut in its last line, the table's file may list a path with another type than it was
  stored with: "12" becomes "1" (`RanaScriptManager.cpp:104`). After a restart, uploads to
  it with the old type are refused.
* fileLoad answers success for a file that is not there, with length 0
  (`RanaClient.cpp:390`), and an action is answered twice (`RanaClient.cpp:793`,
  `Cmd_Rana.cpp:708`).
* loadScriptItem looks a path up before it has trimmed it (`RanaScriptManager.cpp:193`),
  so two paths that differ in blanks at the end meet at the next start. The model's
  paths have none.


## 7. Not modelled

* Texts, wording, XML, icons, widgets, dialogs, the clipboard's format, logging and
  generated code: data that no property tells apart.
* Lua itself and TinyXML: third-party code. Lua is what may happen in a callback.
* The building of default nodes and menus, the definitions the editor offers, the block
  allocator, the factory programs but for `TEEFrame`'s tree: sequential code that reads
  files or fills in trees by the calls `TreeForest` has.
* References to variables, the statements' own commands (content, on and off, exchange
  of a child): they change what is inside a node, neither the tree nor its owners.
* Downloads and queries of the Lua server, which change nothing it keeps, and the
  messages that create triggers and events or run a script, whose effects are actions
  of `RanaDispatch`.
* The end of the program for the runtime's banks, and the options of sockets.

The share of the sources that is mapped is small because much of the repository is
third-party code, generated code, windows and text.
