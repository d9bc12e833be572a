---------------------------- MODULE EditorBridge ----------------------------
(***************************************************************************)
(* The file-drop channel between tools that drive the TM2020 map editor    *)
(* (tools/tm_mcp/server.py; harvest_pillar_rules.py and                    *)
(* realise_generated_map.py carry the same loop) and the TMMapControl      *)
(* plugin (openplanet-plugin/TMMapControl/Main.as).  A caller writes       *)
(* <id>.cmd.json and polls for <id>.res.json until its deadline; the       *)
(* plugin scans, carries the command out and writes the result.  Neither   *)
(* file is written atomically, a deadline may pass at any moment, removing *)
(* a file may fail, and the plugin may be reloaded while it works.         *)
(***************************************************************************)
EXTENDS Integers, Sequences, FiniteSets, SequencesExt

CONSTANTS
    Callers,
    OpsOf,        \* caller -> the commands it sends
    MaxId,        \* bound: commands ever sent
    Maps,         \* map files load_map may be asked for
    NoMap,        \* no editor is open
    MaxMishaps    \* bound: plugin reloads and files that could not be removed

Ids == 1..MaxId
Loads == [op : {"load"}, map : Maps]
Edits == [op : {"place", "read"}, map : {NoMap}]

ASSUME BridgeAssumption ==
    /\ OpsOf \in [Callers -> SUBSET (Loads \cup Edits)]
    /\ MaxId \in Nat /\ MaxMishaps \in Nat

VARIABLES
    cmd,       \* id -> "none", "torn" or "whole"
    res,       \* id -> NoResult, or the result with how much of it is written
    asked,     \* id -> the command
    sender,    \* caller -> the id it waits for (0: none) and what it was told
    lastId,
    plugin,    \* the plugin's coroutine
    editor,    \* the map open in the editor
    ran,      \* observer: id -> times the command was carried out
    excused,   \* observer: ids hit by a mishap
    mishaps

bridgeVars == <<cmd, res, asked, sender, lastId, plugin, editor, ran, excused, mishaps>>

NoResult == [state |-> "none"]
Scanning == [at |-> "scan", queue |-> <<>>, id |-> 0, closed |-> FALSE, out |-> NoResult]
NoCall == [id |-> 0, told |-> NoResult, read |-> FALSE]

BridgeInit ==
    /\ cmd = [i \in Ids |-> "none"] /\ res = [i \in Ids |-> NoResult]
    /\ asked = [i \in Ids |-> [op |-> "read", map |-> NoMap]]
    /\ sender = [c \in Callers |-> NoCall] /\ lastId = 0
    /\ plugin = Scanning /\ editor = NoMap
    /\ ran = [i \in Ids |-> 0] /\ excused = {} /\ mishaps = 0

-----------------------------------------------------------------------------
(* _call: the caller. *)

\* write_text: the file is there before its content is
WriteCommand(c, op) ==
    /\ sender[c].id = 0 /\ lastId < MaxId
    /\ lastId' = lastId + 1
    /\ cmd' = [cmd EXCEPT ![lastId + 1] = "torn"]
    /\ asked' = [asked EXCEPT ![lastId + 1] = op]
    /\ sender' = [sender EXCEPT ![c] = [NoCall EXCEPT !.id = lastId + 1]]
    /\ UNCHANGED <<res, plugin, editor, ran, excused, mishaps>>
CommandWritten(c) ==
    /\ sender[c].id # 0 /\ cmd[sender[c].id] = "torn"
    /\ cmd' = [cmd EXCEPT ![sender[c].id] = "whole"]
    /\ UNCHANGED <<res, asked, sender, lastId, plugin, editor, ran, excused, mishaps>>

\* Mutant: a half-written result is taken for a whole one.
ReadableAny(r) == r.state # "none"

\* a result that does not parse yet is polled again
Readable(r) == r.state = "whole"
ReadResult(c) ==
    /\ sender[c].id # 0 /\ ~sender[c].read /\ cmd[sender[c].id] # "torn"
    /\ Readable(res[sender[c].id])
    /\ sender' = [sender EXCEPT ![c].read = TRUE, ![c].told = res[sender[c].id]]
    /\ UNCHANGED <<cmd, res, asked, lastId, plugin, editor, ran, excused, mishaps>>

\* both files are removed; a removal that fails is ignored
CleanUp(c) ==
    /\ sender[c].read
    /\ \E kept \in SUBSET {"cmd", "res"} :
         /\ mishaps + Cardinality(kept) <= MaxMishaps
         /\ mishaps' = mishaps + Cardinality(kept)
         /\ cmd' = IF "cmd" \in kept THEN cmd ELSE [cmd EXCEPT ![sender[c].id] = "none"]
         /\ res' = IF "res" \in kept THEN res ELSE [res EXCEPT ![sender[c].id] = NoResult]
         /\ excused' = IF kept = {} THEN excused ELSE excused \cup {sender[c].id}
    /\ sender' = [sender EXCEPT ![c] = NoCall]
    /\ UNCHANGED <<asked, lastId, plugin, editor, ran>>
Deadline(c) ==
    /\ sender[c].id # 0 /\ ~sender[c].read /\ cmd[sender[c].id] # "torn"
    /\ \/ /\ cmd' = [cmd EXCEPT ![sender[c].id] = "none"]
          /\ UNCHANGED <<excused, mishaps>>
       \/ /\ mishaps < MaxMishaps /\ mishaps' = mishaps + 1
          /\ excused' = excused \cup {sender[c].id}
          /\ cmd' = cmd
    /\ sender' = [sender EXCEPT ![c] = NoCall]
    /\ UNCHANGED <<res, asked, lastId, plugin, editor, ran>>

-----------------------------------------------------------------------------
(* Main, ScanPending and ProcessCommand: the plugin. *)

Plugin(fields) == plugin' = fields
NextCommand == [Scanning EXCEPT !.at = "pick", !.queue = plugin.queue]

Pending(i) == cmd[i] # "none" /\ res[i].state = "none"
ScanPending ==
    /\ plugin.at = "scan"
    /\ \E order \in SetToSeqs({i \in Ids : Pending(i)}) :
         order # <<>> /\ Plugin([Scanning EXCEPT !.at = "pick", !.queue = order])
    /\ UNCHANGED <<cmd, res, asked, sender, lastId, editor, ran, excused, mishaps>>

\* Json::FromFile: a file that is gone or half written is malformed
PickCommand ==
    /\ plugin.at = "pick"
    /\ \/ /\ plugin.queue = <<>> /\ Plugin(Scanning)
       \/ /\ plugin.queue # <<>>
          /\ LET i == Head(plugin.queue) IN
             Plugin([plugin EXCEPT !.queue = Tail(@), !.id = i,
                        !.at = IF cmd[i] = "whole" THEN asked[i].op ELSE "answer",
                        !.out = [state |-> "none", result |-> "malformed", map |-> editor,
                                 closed |-> FALSE, op |-> asked[i].op]])
    /\ UNCHANGED <<cmd, res, asked, sender, lastId, editor, ran, excused, mishaps>>

Answer(result, map, closed) ==
    Plugin([plugin EXCEPT !.at = "answer", !.out.result = result, !.out.map = map, !.out.closed = closed])
CarriedOut == ran' = [ran EXCEPT ![plugin.id] = @ + 1]

\* load_map: quit the editor and wait (it may not close in time), then EditMap, which
\* does nothing while an editor is open, then wait for an editor
Closed(still) == still = NoMap
QuitEditor ==
    /\ plugin.at = "load"
    /\ CarriedOut
    /\ \E still \in {NoMap, editor} :
         /\ editor' = still
         /\ Plugin([plugin EXCEPT !.at = "edit", !.closed = Closed(still)])
    /\ UNCHANGED <<cmd, res, asked, sender, lastId, excused, mishaps>>
EditMap ==
    /\ plugin.at = "edit"
    /\ \E opened \in IF editor = NoMap THEN {NoMap, asked[plugin.id].map} ELSE {editor} :
         /\ editor' = opened
         /\ Answer(IF opened = NoMap THEN "refused" ELSE "ok", opened, plugin.closed)
    /\ UNCHANGED <<cmd, res, asked, sender, lastId, ran, excused, mishaps>>

\* place_blocks, clear, save, validate (mutating) and the ops that only read
Mutate ==
    /\ plugin.at = "place"
    /\ \/ editor = NoMap /\ Answer("refused", NoMap, FALSE) /\ ran' = ran
       \/ editor # NoMap /\ CarriedOut /\ \E r \in {"ok", "refused"} : Answer(r, editor, FALSE)
    /\ UNCHANGED <<cmd, res, asked, sender, lastId, editor, excused, mishaps>>
ReadState ==
    /\ plugin.at = "read"
    /\ CarriedOut /\ Answer("ok", editor, FALSE)
    /\ UNCHANGED <<cmd, res, asked, sender, lastId, editor, excused, mishaps>>

\* an exception anywhere in ProcessCommand is caught by Main, which answers for it
Crash ==
    /\ plugin.at \in {"load", "edit", "place", "read"}
    /\ Answer("crash", editor, FALSE)
    /\ UNCHANGED <<cmd, res, asked, sender, lastId, editor, ran, excused, mishaps>>

\* Json::ToFile: the file appears, then its content
WriteResult ==
    /\ plugin.at = "answer"
    /\ res' = [res EXCEPT ![plugin.id] = [plugin.out EXCEPT !.state = "torn"]]
    /\ Plugin([plugin EXCEPT !.at = "flush"])
    /\ UNCHANGED <<cmd, asked, sender, lastId, editor, ran, excused, mishaps>>
ResultWritten ==
    /\ plugin.at = "flush"
    /\ res' = [res EXCEPT ![plugin.id] = [plugin.out EXCEPT !.state = "whole"]]
    /\ Plugin(NextCommand)
    /\ UNCHANGED <<cmd, asked, sender, lastId, editor, ran, excused, mishaps>>

\* PluginReloader (or a crash of the game script) starts the coroutine afresh
Reload ==
    /\ plugin.at # "scan" /\ mishaps < MaxMishaps
    /\ mishaps' = mishaps + 1
    /\ excused' = excused \cup {plugin.id} \cup ToSet(plugin.queue)
    /\ Plugin(Scanning)
    /\ UNCHANGED <<cmd, res, asked, sender, lastId, editor, ran>>

PluginStep ==
    \/ ScanPending \/ PickCommand \/ QuitEditor \/ EditMap \/ Mutate \/ ReadState
    \/ Crash \/ WriteResult \/ ResultWritten
BridgeNext ==
    \/ \E c \in Callers : \/ \E op \in OpsOf[c] : WriteCommand(c, op)
                          \/ CommandWritten(c) \/ ReadResult(c) \/ CleanUp(c) \/ Deadline(c)
    \/ PluginStep
    \/ Reload

-----------------------------------------------------------------------------
\* Polling through half-written files, a caller is told only of a result the plugin
\* finished writing, for its own command; "ok" means the command was carried out.
ToldTheTruth ==
    \A c \in Callers : sender[c].read =>
        /\ sender[c].told.state = "whole"
        /\ sender[c].told.op = asked[sender[c].id].op
        /\ sender[c].told.result = "ok" => ran[sender[c].id] > 0

\* Carried out at most once: the result file keeps the plugin from taking a command up
\* again until the caller has removed both, and commands outlived by a deadline are gone.
\* Only a file that could not be removed or a plugin reload repeats one (Main.as:88).
CarriedOutOnce == \A i \in Ids \ excused : ran[i] <= 1

\* A load that found the old editor closed and reports success has the map that was asked
\* for in the editor (the measured failure of Main.as:185: success with the old map).
LoadedIsAsked ==
    \A c \in Callers :
        (sender[c].read /\ sender[c].told.op = "load"
           /\ sender[c].told.result = "ok" /\ sender[c].told.closed)
        => sender[c].told.map = asked[sender[c].id].map

\* Two callers, half-written files, deadlines and a game that will not close its editor:
\* what callers are told is so, and no command is carried out twice.
BridgeHonest == ToldTheTruth /\ CarriedOutOnce /\ LoadedIsAsked

\* One bad command never takes the endpoint down: whatever fails, the plugin comes back
\* to scanning ("bricking the plugin until reload", Main.as:61).
EndpointSurvives == []<>(plugin.at = "scan")
=============================================================================
