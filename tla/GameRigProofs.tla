---------------------------- MODULE GameRigProofs ----------------------------
(***************************************************************************)
(* Proofs about the two channels to the game, for any number of callers,   *)
(* commands, maps, jobs, ghosts and samples: callers of the editor bridge  *)
(* are told what happened and no command is carried out twice; a capture   *)
(* batch leaves telemetry that can be trusted; and the rules that clean    *)
(* replays give the verdict of their definitions.                          *)
(***************************************************************************)
EXTENDS EditorBridge, CaptureRig, ReplayCleaning, SequenceTheorems, Orders

-----------------------------------------------------------------------------
(* The editor bridge. *)

Kinds == {"load", "place", "read"}
Command == [op : Kinds, map : Maps \cup {NoMap}]
Out == [state : {"none", "torn", "whole"}, result : {"malformed", "ok", "refused", "crash"},
        map : Maps \cup {NoMap}, closed : BOOLEAN, op : Kinds]
Call == [id : 0..MaxId, told : Out \cup {NoResult}, read : BOOLEAN]
Places == {"scan", "pick", "edit", "answer", "flush"} \cup Kinds
Routine == [at : Places, queue : Seq(Ids), id : 0..MaxId, closed : BOOLEAN,
            out : Out \cup {NoResult}]

BridgeTypes ==
    /\ cmd \in [Ids -> {"none", "torn", "whole"}]
    /\ res \in [Ids -> Out \cup {NoResult}]
    /\ asked \in [Ids -> Command]
    /\ sender \in [Callers -> Call]
    /\ lastId \in 0..MaxId
    /\ plugin \in Routine
    /\ editor \in Maps \cup {NoMap}
    /\ ran \in [Ids -> Nat]
    /\ excused \subseteq 0..MaxId /\ mishaps \in Nat

\* A result of command i tells the truth about it.
Honest(r, i) ==
    /\ r \in Out
    /\ r.op = asked[i].op
    /\ r.result = "ok" => ran[i] > 0
    /\ (r.op = "load" /\ r.result = "ok" /\ r.closed) => r.map = asked[i].map

\* The command in the plugin's hands, and how far it is.
InHands ==
    /\ plugin.at \in {"scan", "pick"} => plugin.id = 0
    /\ plugin.at = "scan" => plugin.queue = <<>>
    /\ plugin.at \notin {"scan", "pick"} =>
         /\ plugin.id \in 1..lastId /\ plugin.out \in Out
         /\ plugin.out.op = asked[plugin.id].op
    /\ plugin.at \in Kinds => asked[plugin.id].op = plugin.at
    /\ plugin.at = "edit" =>
         /\ asked[plugin.id].op = "load" /\ ran[plugin.id] > 0
         /\ plugin.closed => editor = NoMap
    /\ plugin.at \in {"answer", "flush"} => Honest(plugin.out, plugin.id)

\* The queue holds commands that were sent, each once, and not the one in hand.
Queued ==
    /\ \A k \in DOMAIN plugin.queue : plugin.queue[k] \in 1..lastId /\ plugin.queue[k] # plugin.id
    /\ \A k, n \in DOMAIN plugin.queue : k # n => plugin.queue[k] # plugin.queue[n]

Results == \A i \in Ids : res[i].state # "none" => i <= lastId /\ Honest(res[i], i)
Tellings ==
    \A c \in Callers :
        /\ sender[c].id <= lastId
        /\ sender[c].read => /\ sender[c].id # 0 /\ sender[c].told.state = "whole"
                             /\ Honest(sender[c].told, sender[c].id)
Unsent == \A i \in Ids : i > lastId => cmd[i] = "none" /\ ran[i] = 0

\* A command is carried out once: it is not yet when it waits, and once it has been,
\* its files or the plugin show it.
Begun(i) == plugin.id = i /\ plugin.at \in {"edit", "answer", "flush"}
Awaits(i) ==
    \/ \E k \in DOMAIN plugin.queue : plugin.queue[k] = i
    \/ plugin.id = i /\ plugin.at \in Kinds
Once ==
    \A i \in Ids \ excused :
        /\ ran[i] <= 1
        /\ Awaits(i) => ran[i] = 0
        /\ ran[i] > 0 => cmd[i] = "none" \/ res[i].state # "none" \/ Begun(i)

BridgeInv == BridgeTypes /\ InHands /\ Queued /\ Results /\ Tellings /\ Unsent /\ Once

Answered(v, r, m, c) ==
    [v EXCEPT !.at = "answer", !.out.result = r, !.out.map = m, !.out.closed = c]
Replaced(v, at) == [v EXCEPT !.at = at]
Quit(v, c) == [v EXCEPT !.at = "edit", !.closed = c]

LEMMA OutUpdates ==
    ASSUME NEW o \in Out, NEW s \in {"torn", "whole"}
    PROVE  /\ [o EXCEPT !.state = s] \in Out /\ [o EXCEPT !.state = s].state = s
           /\ [o EXCEPT !.state = s].op = o.op /\ [o EXCEPT !.state = s].result = o.result
           /\ [o EXCEPT !.state = s].map = o.map /\ [o EXCEPT !.state = s].closed = o.closed
  BY DEF Out

LEMMA RoutineUpdates ==
    ASSUME NEW v \in Routine
    PROVE  /\ \A at \in Places : /\ Replaced(v, at) \in Routine /\ Replaced(v, at).at = at
                                 /\ Replaced(v, at).id = v.id /\ Replaced(v, at).queue = v.queue
                                 /\ Replaced(v, at).out = v.out
           /\ \A c \in BOOLEAN : /\ Quit(v, c) \in Routine /\ Quit(v, c).at = "edit"
                                 /\ Quit(v, c).id = v.id /\ Quit(v, c).queue = v.queue
                                 /\ Quit(v, c).out = v.out /\ Quit(v, c).closed = c
  <1>1. ASSUME NEW at \in Places
        PROVE  /\ Replaced(v, at) \in Routine /\ Replaced(v, at).at = at
               /\ Replaced(v, at).id = v.id /\ Replaced(v, at).queue = v.queue
               /\ Replaced(v, at).out = v.out
    BY DEF Replaced, Routine
  <1>2. ASSUME NEW c \in BOOLEAN
        PROVE  /\ Quit(v, c) \in Routine /\ Quit(v, c).at = "edit"
               /\ Quit(v, c).id = v.id /\ Quit(v, c).queue = v.queue
               /\ Quit(v, c).out = v.out /\ Quit(v, c).closed = c
    BY DEF Quit, Routine, Places
  <1> QED
    BY <1>1, <1>2

\* What was true of a result stays true: commands are not changed, and only more of them
\* are carried out.
LEMMA HonestStays ==
    ASSUME NEW r, NEW i, Honest(r, i), asked'[i] = asked[i],
           ran[i] \in Nat, ran'[i] \in Nat, ran'[i] >= ran[i]
    PROVE  Honest(r, i)'
  BY DEF Honest

\* A step that changes no command and takes nothing back.
Grows ==
    /\ UNCHANGED <<asked, lastId>>
    /\ ran' \in [Ids -> Nat]
    /\ \A i \in Ids : ran'[i] >= ran[i] /\ (i > lastId => ran'[i] = ran[i])

LEMMA Sent ==
    ASSUME BridgeInv, NEW i \in 1..lastId
    PROVE  i \in Ids /\ ran[i] \in Nat /\ asked[i] \in Command
  BY BridgeAssumption DEF BridgeInv, BridgeTypes, Ids

LEMMA ToldStays ==
    ASSUME BridgeInv, Grows, UNCHANGED sender
    PROVE  Tellings'
  <1> SUFFICES ASSUME NEW c \in Callers
               PROVE  /\ sender[c].id <= lastId
                      /\ sender[c].read => /\ sender[c].id # 0 /\ sender[c].told.state = "whole"
                                           /\ Honest(sender[c].told, sender[c].id)'
    BY DEF Tellings, Grows
  <1>1. /\ sender[c].id <= lastId
        /\ sender[c].read => /\ sender[c].id # 0 /\ sender[c].told.state = "whole"
                             /\ Honest(sender[c].told, sender[c].id)
    BY DEF BridgeInv, Tellings
  <1>2. sender[c].read => sender[c].id \in 1..lastId
    BY <1>1 DEF BridgeInv, BridgeTypes, Call
  <1>3. ASSUME sender[c].read
        PROVE  Honest(sender[c].told, sender[c].id)'
    <2>1. PICK r : r = sender[c].told
      OBVIOUS
    <2>2. PICK i : i = sender[c].id
      OBVIOUS
    <2>3. Honest(r, i) /\ i \in 1..lastId
      BY <1>1, <1>2, <1>3, <2>1, <2>2
    <2>4. i \in Ids /\ asked'[i] = asked[i] /\ ran'[i] \in Nat /\ ran[i] \in Nat /\ ran'[i] >= ran[i]
      BY <2>3, Sent DEF Grows
    <2>5. Honest(r, i)'
      BY <2>3, <2>4, HonestStays
    <2> QED
      BY <2>1, <2>2, <2>5
  <1> QED
    BY <1>1, <1>3

\* Result files that are the old ones, or gone, are as true as they were.
LEMMA ResultsStay ==
    ASSUME BridgeInv, Grows, \A i \in Ids : res'[i] = res[i] \/ res'[i] = NoResult
    PROVE  Results'
  <1> SUFFICES ASSUME NEW i \in Ids, res'[i].state # "none"
               PROVE  i <= lastId' /\ Honest(res[i], i)' /\ res'[i] = res[i]
    BY DEF Results
  <1>1. res'[i] = res[i]
    BY DEF NoResult
  <1>2. i <= lastId /\ Honest(res[i], i)
    BY <1>1 DEF BridgeInv, Results
  <1>3. PICK r : r = res[i]
    OBVIOUS
  <1>4. asked'[i] = asked[i] /\ ran'[i] \in Nat /\ ran[i] \in Nat /\ ran'[i] >= ran[i]
    BY DEF Grows, BridgeInv, BridgeTypes
  <1>5. Honest(r, i)'
    BY <1>2, <1>3, <1>4, HonestStays
  <1> QED
    BY <1>1, <1>2, <1>3, <1>5 DEF Grows

-----------------------------------------------------------------------------
(* The callers. *)

\* A caller leaves the plugin alone.
LEMMA PluginAlone ==
    ASSUME BridgeInv, UNCHANGED <<plugin, editor, ran>>,
           lastId' \in 0..MaxId, lastId <= lastId',
           \A i \in 1..lastId : asked'[i] = asked[i]
    PROVE  InHands' /\ Queued'
  <1>1. plugin.at \notin {"scan", "pick"} => plugin.id \in 1..lastId
    BY DEF BridgeInv, InHands
  <1>2. plugin.at \in {"answer", "flush"} => Honest(plugin.out, plugin.id)'
    BY <1>1 DEF BridgeInv, InHands, Honest
  <1>3. lastId \in Nat /\ lastId' \in Nat /\ 1..lastId \subseteq 1..lastId'
    BY BridgeAssumption DEF BridgeInv, BridgeTypes
  <1>4. InHands'
    BY <1>1, <1>2, <1>3 DEF BridgeInv, InHands, Kinds
  <1>5. Queued'
    BY <1>3 DEF BridgeInv, Queued
  <1> QED
    BY <1>4, <1>5

Told(call, r) == [call EXCEPT !.read = TRUE, !.told = r]
Asking(i) == [NoCall EXCEPT !.id = i]

LEMMA CallUpdates ==
    ASSUME NEW call \in Call, NEW r \in Out \cup {NoResult}
    PROVE  /\ Told(call, r) \in Call /\ Told(call, r).read
           /\ Told(call, r).id = call.id /\ Told(call, r).told = r
  BY DEF Call, Told

LEMMA Idle == NoCall \in Call /\ NoCall.id = 0 /\ ~NoCall.read
  BY BridgeAssumption DEF Call, NoCall

LEMMA NewCalls ==
    ASSUME NEW i \in 0..MaxId
    PROVE  Asking(i) \in Call /\ ~Asking(i).read /\ Asking(i).id = i
  <1>1. PICK call : call = NoCall
    OBVIOUS
  <1>2. call \in Call /\ ~call.read /\ Asking(i) = [call EXCEPT !.id = i]
    BY <1>1, Idle DEF Asking
  <1> QED
    BY <1>2 DEF Call

LEMMA OneSender ==
    ASSUME sender \in [Callers -> Call], NEW c \in Callers, NEW call \in Call,
           sender' = [sender EXCEPT ![c] = call]
    PROVE  /\ sender' \in [Callers -> Call] /\ sender'[c] = call
           /\ \A d \in Callers \ {c} : sender'[d] = sender[d]
  OBVIOUS

LEMMA Commands == ASSUME NEW c \in Callers, NEW op \in OpsOf[c] PROVE op \in Command
  BY BridgeAssumption DEF Loads, Edits, Command, Kinds

LEMMA Writing ==
    ASSUME BridgeInv, NEW c \in Callers, NEW op \in OpsOf[c], WriteCommand(c, op)
    PROVE  BridgeInv'
  <1>1. PICK n : n = lastId + 1
    OBVIOUS
  <1>2. PICK call : call = Asking(n)
    OBVIOUS
  <1>3. /\ lastId < MaxId /\ lastId' = n
        /\ cmd' = [cmd EXCEPT ![n] = "torn"] /\ asked' = [asked EXCEPT ![n] = op]
        /\ sender' = [sender EXCEPT ![c] = call]
        /\ UNCHANGED <<res, plugin, editor, ran, excused, mishaps>>
    BY <1>1, <1>2, Zenon DEF WriteCommand, Asking
  <1>4. BridgeTypes
    BY DEF BridgeInv
  <1>5. lastId \in Nat /\ n \in Ids /\ n \in 0..MaxId /\ op \in Command /\ n > lastId
    <2>1. lastId \in 0..MaxId
      BY <1>4 DEF BridgeTypes
    <2>2. op \in Command
      BY Commands
    <2> QED
      BY <1>1, <1>3, <2>1, <2>2, BridgeAssumption DEF Ids
  <1>6. call \in Call /\ ~call.read /\ call.id = n
    BY <1>2, <1>5, NewCalls
  <1>7. /\ sender' \in [Callers -> Call] /\ sender'[c] = call
        /\ \A d \in Callers \ {c} : sender'[d] = sender[d]
    BY <1>3, <1>4, <1>6, OneSender DEF BridgeTypes
  <1>8. /\ cmd' \in [Ids -> {"none", "torn", "whole"}] /\ asked' \in [Ids -> Command]
        /\ \A i \in Ids \ {n} : cmd'[i] = cmd[i] /\ asked'[i] = asked[i]
    BY <1>3, <1>4, <1>5 DEF BridgeTypes
  <1>9. BridgeTypes'
    BY <1>3, <1>4, <1>5, <1>7, <1>8 DEF BridgeTypes
  <1>10. \A i \in 1..lastId : i \in Ids \ {n}
    BY <1>1, <1>3, <1>5, BridgeAssumption DEF Ids
  <1>11. InHands' /\ Queued'
    BY <1>3, <1>5, <1>8, <1>10, PluginAlone
  <1>12. Results'
    <2>1. ASSUME NEW i \in Ids, res[i].state # "none"
          PROVE  i \in 1..lastId /\ asked'[i] = asked[i]
      BY <1>8, <1>10, <2>1, <1>4, <1>5 DEF BridgeInv, Results, Ids
    <2> QED
      BY <1>1, <1>3, <1>5, <2>1 DEF BridgeInv, Results, Honest
  <1>13. Tellings'
    <2>1. ASSUME NEW d \in Callers \ {c}
          PROVE  sender[d].id <= lastId' /\ (sender[d].read => asked'[sender[d].id] = asked[sender[d].id])
      <3>1. sender[d].id \in 0..MaxId /\ sender[d].id <= lastId
        BY <1>4 DEF BridgeInv, BridgeTypes, Call, Tellings
      <3>2. sender[d].read => sender[d].id # 0
        BY DEF BridgeInv, Tellings
      <3>3. sender[d].read => sender[d].id \in 1..lastId
        BY <1>5, <3>1, <3>2, BridgeAssumption
      <3> QED
        BY <1>3, <1>5, <1>8, <1>10, <3>1, <3>3, BridgeAssumption
    <2> QED
      BY <1>3, <1>6, <1>7, <2>1, <1>5 DEF BridgeInv, Tellings, Honest
  <1>14. Unsent'
    BY <1>3, <1>5, <1>8 DEF BridgeInv, Unsent, Ids
  <1>15. Once'
    <2>1. ran[n] = 0 /\ cmd[n] = "none"
      BY <1>5 DEF BridgeInv, Unsent
    <2> QED
      BY <1>3, <1>8, <2>1 DEF BridgeInv, Once, Awaits, Begun
  <1> QED
    BY <1>9, <1>11, <1>12, <1>13, <1>14, <1>15 DEF BridgeInv

\* A caller whose command is under way writes it out, or reads its result.
LEMMA Completing ==
    ASSUME BridgeInv, NEW c \in Callers, CommandWritten(c)
    PROVE  BridgeInv'
  <1>1. PICK n : n = sender[c].id
    OBVIOUS
  <1>2. /\ n # 0 /\ cmd[n] = "torn" /\ cmd' = [cmd EXCEPT ![n] = "whole"]
        /\ UNCHANGED <<res, asked, sender, lastId, plugin, editor, ran, excused, mishaps>>
    BY <1>1 DEF CommandWritten
  <1>3. n \in Ids
    BY <1>1, <1>2, BridgeAssumption DEF BridgeInv, BridgeTypes, Call, Ids
  <1>4. BridgeTypes'
    BY <1>2, <1>3 DEF BridgeInv, BridgeTypes
  <1>5. \A i \in Ids : cmd'[i] = "none" <=> cmd[i] = "none"
    BY <1>2, <1>3 DEF BridgeInv, BridgeTypes
  <1>6. InHands' /\ Queued' /\ Results' /\ Tellings'
    BY <1>2 DEF BridgeInv, InHands, Queued, Results, Tellings, Honest
  <1>7. Unsent' /\ Once'
    BY <1>2, <1>5 DEF BridgeInv, Unsent, Once, Awaits, Begun
  <1> QED
    BY <1>4, <1>6, <1>7 DEF BridgeInv

LEMMA Reading ==
    ASSUME BridgeInv, NEW c \in Callers, ReadResult(c)
    PROVE  BridgeInv'
  <1>1. PICK n : n = sender[c].id
    OBVIOUS
  <1>2. PICK call : call = Told(sender[c], res[n])
    OBVIOUS
  <1>3. /\ n # 0 /\ res[n].state = "whole" /\ sender' = [sender EXCEPT ![c] = call]
        /\ UNCHANGED <<cmd, res, asked, lastId, plugin, editor, ran, excused, mishaps>>
    BY <1>1, <1>2, Zenon DEF ReadResult, Readable, Told
  <1>4. BridgeTypes
    BY DEF BridgeInv
  <1>5. n \in Ids /\ sender[c] \in Call /\ res[n] \in Out \cup {NoResult}
    BY <1>1, <1>3, <1>4, BridgeAssumption DEF BridgeTypes, Call, Ids
  <1>6. call \in Call /\ call.read /\ call.id = n /\ call.told = res[n]
    BY <1>1, <1>2, <1>5, CallUpdates
  <1>7. /\ sender' \in [Callers -> Call] /\ sender'[c] = call
        /\ \A d \in Callers \ {c} : sender'[d] = sender[d]
    BY <1>3, <1>4, <1>6, OneSender DEF BridgeTypes
  <1>8. BridgeTypes'
    BY <1>3, <1>4, <1>7 DEF BridgeTypes
  <1>9. InHands' /\ Queued' /\ Results' /\ Unsent' /\ Once'
    BY <1>3 DEF BridgeInv, InHands, Queued, Results, Honest, Unsent, Once, Awaits, Begun
  <1>10. Honest(call.told, n) /\ n <= lastId
    BY <1>3, <1>5, <1>6 DEF BridgeInv, Results
  <1>11. Tellings'
    BY <1>3, <1>6, <1>7, <1>10 DEF BridgeInv, Tellings, Honest
  <1> QED
    BY <1>8, <1>9, <1>11 DEF BridgeInv

\* A caller leaves with its files removed, or those it could not remove excused.
Leaves(c) ==
    /\ sender' = [sender EXCEPT ![c] = NoCall]
    /\ cmd' = cmd \/ cmd' = [cmd EXCEPT ![sender[c].id] = "none"]
    /\ res' = res \/ (res' = [res EXCEPT ![sender[c].id] = NoResult])
    /\ \/ excused' = excused \cup {sender[c].id}
       \/ excused' = excused /\ cmd' = [cmd EXCEPT ![sender[c].id] = "none"]
    /\ mishaps' \in Nat
    /\ UNCHANGED <<asked, lastId, plugin, editor, ran>>

LEMMA Leaving ==
    ASSUME BridgeInv, NEW c \in Callers, sender[c].id # 0, Leaves(c)
    PROVE  BridgeInv'
  <1>1. PICK n : n = sender[c].id
    OBVIOUS
  <1>2. BridgeTypes
    BY DEF BridgeInv
  <1>3. n \in Ids /\ n \in 0..MaxId
    BY <1>1, <1>2, BridgeAssumption DEF BridgeTypes, Call, Ids
  <1>4. /\ sender' \in [Callers -> Call] /\ sender'[c] = NoCall
        /\ \A d \in Callers \ {c} : sender'[d] = sender[d]
    BY <1>2, Idle, OneSender DEF Leaves, BridgeTypes
  <1>5. /\ cmd' \in [Ids -> {"none", "torn", "whole"}] /\ res' \in [Ids -> Out \cup {NoResult}]
        /\ \A i \in Ids \ {n} : cmd'[i] = cmd[i] /\ res'[i] = res[i]
        /\ cmd'[n] = cmd[n] \/ cmd'[n] = "none"
        /\ res'[n] = res[n] \/ res'[n] = NoResult
        /\ excused \subseteq excused' /\ excused' \subseteq 0..MaxId
        /\ n \in excused' \/ cmd'[n] = "none"
    BY <1>1, <1>2, <1>3 DEF Leaves, BridgeTypes
  <1>6. BridgeTypes'
    BY <1>2, <1>4, <1>5 DEF BridgeTypes, Leaves
  <1>7. InHands' /\ Queued'
    BY <1>2, BridgeAssumption, PluginAlone DEF Leaves, BridgeTypes
  <1>8. Grows
    BY <1>2 DEF Grows, Leaves, BridgeTypes
  <1>9. Results'
    BY <1>5, <1>8, ResultsStay
  <1>10. Tellings'
    <2>1. PICK d : d = NoCall
      OBVIOUS
    <2>2. d.id = 0 /\ ~d.read /\ sender'[c] = d
      BY <1>4, <2>1, Idle
    <2>3. lastId \in 0..MaxId /\ 0 <= lastId
      BY <1>2, BridgeAssumption DEF BridgeTypes
    <2> QED
      BY <1>4, <2>2, <2>3 DEF BridgeInv, Tellings, Leaves, Honest
  <1>11. Unsent'
    BY <1>3, <1>5 DEF BridgeInv, Unsent, Leaves
  <1>12. Once'
    <2>1. ASSUME NEW i \in Ids \ excused'
          PROVE  /\ ran[i] <= 1 /\ (Awaits(i) => ran[i] = 0)
                 /\ ran[i] > 0 => cmd'[i] = "none" \/ res'[i].state # "none" \/ Begun(i)
      <3>1. /\ ran[i] <= 1 /\ (Awaits(i) => ran[i] = 0)
            /\ ran[i] > 0 => cmd[i] = "none" \/ res[i].state # "none" \/ Begun(i)
        BY <1>5 DEF BridgeInv, Once
      <3> QED
        BY <1>5, <3>1
    <2> QED
      BY <2>1 DEF Once, Leaves, Awaits, Begun
  <1> QED
    BY <1>6, <1>7, <1>9, <1>10, <1>11, <1>12 DEF BridgeInv

LEMMA CleaningUp ==
    ASSUME BridgeInv, NEW c \in Callers, CleanUp(c) \/ Deadline(c)
    PROVE  BridgeInv'
  <1>1. sender[c].id # 0 /\ mishaps \in Nat
    BY DEF BridgeInv, BridgeTypes, Tellings, CleanUp, Deadline
  <1>2. CASE CleanUp(c)
    <2>1. PICK kept \in SUBSET {"cmd", "res"} :
            /\ mishaps' = mishaps + Cardinality(kept)
            /\ cmd' = IF "cmd" \in kept THEN cmd ELSE [cmd EXCEPT ![sender[c].id] = "none"]
            /\ res' = IF "res" \in kept THEN res ELSE [res EXCEPT ![sender[c].id] = NoResult]
            /\ excused' = IF kept = {} THEN excused ELSE excused \cup {sender[c].id}
      BY <1>2 DEF CleanUp
    <2>2. Cardinality(kept) \in Nat
      <3>1. IsFiniteSet({"cmd", "res"})
        <4>1. IsFiniteSet({"cmd"})
          BY FS_Singleton
        <4>2. IsFiniteSet({"cmd"} \cup {"res"})
          BY <4>1, FS_AddElement
        <4>3. {"cmd"} \cup {"res"} = {"cmd", "res"}
          OBVIOUS
        <4> QED
          BY <4>2, <4>3
      <3> QED
        BY <3>1, FS_Subset, FS_CardinalityType
    <2>3. Leaves(c)
      BY <1>1, <1>2, <2>1, <2>2 DEF CleanUp, Leaves
    <2> QED
      BY <1>1, <2>3, Leaving
  <1>3. CASE Deadline(c)
    <2>1. Leaves(c)
      BY <1>1, <1>3 DEF Deadline, Leaves
    <2> QED
      BY <1>1, <2>1, Leaving
  <1> QED
    BY <1>2, <1>3

-----------------------------------------------------------------------------
(* The plugin. *)

LEMMA ScanningType ==
    Scanning \in Routine /\ Scanning.at = "scan" /\ Scanning.id = 0 /\ Scanning.queue = <<>>
  BY BridgeAssumption DEF Scanning, Routine, Places

\* The plugin goes from one command to the next, or lets go of it.
LEMMA Scanned ==
    ASSUME BridgeInv, ScanPending
    PROVE  BridgeInv'
  <1> DEFINE S == {i \in Ids : Pending(i)}
  <1>1. PICK order \in SetToSeqs(S) :
          order # <<>> /\ plugin' = [Scanning EXCEPT !.at = "pick", !.queue = order]
    BY DEF ScanPending, Plugin
  <1>2. /\ plugin.at = "scan"
        /\ UNCHANGED <<cmd, res, asked, sender, lastId, editor, ran, excused, mishaps>>
    BY DEF ScanPending
  <1>3. IsFiniteSet(S) /\ S \subseteq Ids
    <2>1. IsFiniteSet(Ids)
      <3>1. IsFiniteSet(1..MaxId)
        BY BridgeAssumption, FS_Interval
      <3> QED
        BY <3>1 DEF Ids
    <2>2. S \in SUBSET Ids
      OBVIOUS
    <2> HIDE DEF S
    <2> QED
      BY <2>1, <2>2, FS_Subset
  <1>4. PICK n \in Nat : n = Cardinality(S)
    BY <1>3, FS_CardinalityType
  <1>5. /\ order \in [1..n -> S] /\ \A i, j \in 1..n : i # j => order[i] # order[j]
    BY <1>1, <1>4 DEF SetToSeqs
  <1>6. order \in Seq(Ids) /\ DOMAIN order = 1..n
    BY <1>3, <1>5
  <1>7. /\ plugin'.at = "pick" /\ plugin'.id = 0 /\ plugin'.queue = order /\ plugin' \in Routine
    <2>1. PICK v : v = Scanning
      OBVIOUS
    <2>2. v \in Routine /\ v.id = 0 /\ plugin' = [v EXCEPT !.at = "pick", !.queue = order]
      BY <1>1, <2>1, ScanningType
    <2> QED
      BY <1>6, <2>2 DEF Routine, Places
  <1>8. \A k \in 1..n : order[k] \in Ids /\ Pending(order[k])
    BY <1>5
  <1>9. \A i \in Ids : Pending(i) => i \in 1..lastId
    BY BridgeAssumption DEF BridgeInv, BridgeTypes, Unsent, Pending, Ids
  <1>10. BridgeTypes'
    BY <1>2, <1>7 DEF BridgeInv, BridgeTypes
  <1>11. InHands'
    BY <1>7 DEF InHands, Kinds
  <1>12. Queued'
    BY <1>2, <1>5, <1>6, <1>7, <1>8, <1>9 DEF Queued
  <1>13. Results' /\ Tellings' /\ Unsent'
    BY <1>2 DEF BridgeInv, Results, Tellings, Unsent, Honest
  <1>14. Once'
    <2>1. ASSUME NEW i \in Ids \ excused
          PROVE  /\ ran[i] <= 1 /\ (Awaits(i)' => ran[i] = 0)
                 /\ ran[i] > 0 => cmd[i] = "none" \/ res[i].state # "none"
      <3>1. /\ ran[i] <= 1 /\ ran[i] \in Nat
            /\ ran[i] > 0 => cmd[i] = "none" \/ res[i].state # "none"
        BY <1>2 DEF BridgeInv, BridgeTypes, Once, Begun
      <3>2. Awaits(i)' => Pending(i)
        BY <1>6, <1>7, <1>8 DEF Awaits, Kinds
      <3> QED
        BY <3>1, <3>2 DEF Pending
    <2> QED
      BY <1>2, <2>1 DEF Once, Begun
  <1> QED
    BY <1>10, <1>11, <1>12, <1>13, <1>14 DEF BridgeInv

Taken(v, at, i, out) == [v EXCEPT !.queue = Tail(@), !.id = i, !.at = at, !.out = out]
LEMMA Taking ==
    ASSUME NEW v \in Routine, v.queue # <<>>, NEW at \in Places, NEW i \in 0..MaxId, NEW out \in Out
    PROVE  /\ Taken(v, at, i, out) \in Routine /\ Taken(v, at, i, out).at = at
           /\ Taken(v, at, i, out).id = i /\ Taken(v, at, i, out).out = out
           /\ Taken(v, at, i, out).queue = Tail(v.queue)
  <1>1. PICK q : q = Tail(v.queue)
    OBVIOUS
  <1>2. q \in Seq(Ids)
    BY <1>1 DEF Routine
  <1>3. Taken(v, at, i, out) = [v EXCEPT !.queue = q, !.id = i, !.at = at, !.out = out]
    BY <1>1 DEF Taken
  <1> QED
    BY <1>1, <1>2, <1>3 DEF Routine

LEMMA Picking ==
    ASSUME BridgeInv, PickCommand
    PROVE  BridgeInv'
  <1>1. /\ plugin.at = "pick"
        /\ UNCHANGED <<cmd, res, asked, sender, lastId, editor, ran, excused, mishaps>>
    BY DEF PickCommand
  <1>2. Results' /\ Tellings' /\ Unsent'
    BY <1>1 DEF BridgeInv, Results, Tellings, Unsent, Honest
  <1>3. BridgeTypes /\ plugin \in Routine /\ plugin.queue \in Seq(Ids) /\ lastId \in 0..MaxId
    BY DEF BridgeInv, BridgeTypes, Routine
  <1>4. CASE plugin.queue = <<>> /\ plugin' = Scanning
    <2>1. plugin'.at = "scan" /\ plugin'.id = 0 /\ plugin'.queue = <<>> /\ plugin' \in Routine
      BY <1>4, ScanningType
    <2>2. BridgeTypes' /\ InHands' /\ Queued'
      BY <1>1, <1>3, <2>1 DEF BridgeTypes, InHands, Queued, Kinds
    <2>3. Once'
      BY <1>1, <2>1 DEF BridgeInv, Once, Awaits, Begun, Kinds
    <2> QED
      BY <1>2, <2>2, <2>3 DEF BridgeInv
  <1>5. CASE plugin.queue # <<>>
    <2>1. PICK i : i = Head(plugin.queue)
      OBVIOUS
    <2>2. PICK at : at = IF cmd[i] = "whole" THEN asked[i].op ELSE "answer"
      OBVIOUS
    <2>3. PICK out : out = [state |-> "none", result |-> "malformed", map |-> editor,
                            closed |-> FALSE, op |-> asked[i].op]
      OBVIOUS
    <2>4. PICK v : v = Taken(plugin, at, i, out)
      OBVIOUS
    <2>5. plugin' = v
      <3>1. plugin' = [plugin EXCEPT !.queue = Tail(@), !.id = i, !.at = at, !.out = out]
        BY <1>5, <2>1, <2>2, <2>3, Zenon DEF PickCommand, Plugin
      <3> QED
        BY <2>4, <3>1 DEF Taken
    <2>6. i = plugin.queue[1] /\ i \in 1..lastId /\ i \in Ids /\ i \in 0..MaxId
      BY <1>3, <1>5, <2>1, BridgeAssumption DEF BridgeInv, Queued, Ids
    <2>7. asked[i] \in Command /\ asked[i].op \in Kinds /\ editor \in Maps \cup {NoMap}
      BY <1>3, <2>6 DEF BridgeTypes, Command
    <2>8. at \in Places /\ at \in Kinds \cup {"answer"} /\ (at \in Kinds => at = asked[i].op)
      BY <2>2, <2>7 DEF Places, Kinds
    <2>9. out \in Out /\ out.op = asked[i].op /\ out.result = "malformed"
      BY <2>3, <2>7 DEF Out
    <2>10. v \in Routine /\ v.at = at /\ v.id = i /\ v.out = out /\ v.queue = Tail(plugin.queue)
      BY <1>3, <1>5, <2>4, <2>6, <2>8, <2>9, Taking
    <2>11. /\ DOMAIN v.queue = 1..(Len(plugin.queue) - 1) /\ Len(plugin.queue) \in Nat
           /\ \A k \in DOMAIN v.queue : v.queue[k] = plugin.queue[k + 1]
           /\ DOMAIN plugin.queue = 1..Len(plugin.queue)
      BY <1>3, <1>5, <2>10
    <2>12. BridgeTypes'
      BY <1>1, <1>3, <2>5, <2>10 DEF BridgeTypes
    <2>13. InHands'
      BY <1>1, <2>5, <2>6, <2>8, <2>9, <2>10 DEF InHands, Kinds, Honest
    <2>14. ASSUME NEW k \in DOMAIN v.queue
           PROVE  k + 1 \in DOMAIN plugin.queue /\ k + 1 # 1 /\ v.queue[k] = plugin.queue[k + 1]
      BY <2>11
    <2>15. 1 \in DOMAIN plugin.queue
      BY <1>3, <1>5
    <2>16. Queued'
      BY <1>1, <2>5, <2>6, <2>10, <2>11, <2>14, <2>15, SMTT(30) DEF BridgeInv, Queued
    <2>17. Once'
      <3>1. ASSUME NEW j \in Ids, Awaits(j)'
            PROVE  Awaits(j)
        BY <2>5, <2>6, <2>10, <2>14, <2>15, <3>1 DEF Awaits
      <3>2. ASSUME NEW j \in Ids
            PROVE  ~Begun(j)
        BY <1>1 DEF Begun
      <3> QED
        BY <1>1, <3>1, <3>2 DEF BridgeInv, Once
    <2> QED
      BY <1>2, <2>12, <2>13, <2>16, <2>17 DEF BridgeInv
  <1> QED
    BY <1>4, <1>5 DEF PickCommand, Plugin

\* A step on the command in hand: the plugin moves on to v.
HandStep(v) ==
    /\ plugin.at \notin {"scan", "pick"}
    /\ plugin' = v /\ v \in Routine /\ v.id = plugin.id /\ v.queue = plugin.queue
    /\ v.out \in Out /\ v.out.op = plugin.out.op
    /\ UNCHANGED <<cmd, asked, sender, lastId, excused, mishaps>>
    /\ editor' \in Maps \cup {NoMap}

\* Moving on keeps most of the invariant.
LEMMA HandKeeps ==
    ASSUME BridgeInv, NEW v, HandStep(v), ran' \in [Ids -> Nat],
           \A i \in Ids : ran'[i] >= ran[i] /\ (i > lastId => ran'[i] = ran[i]),
           res' \in [Ids -> Out \cup {NoResult}]
    PROVE  /\ BridgeTypes' /\ Queued' /\ Tellings' /\ Unsent' /\ Grows
           /\ plugin.id \in 1..lastId /\ plugin.id \in Ids /\ lastId' = lastId
           /\ \A k \in DOMAIN plugin.queue : plugin.queue[k] # plugin.id
  <1>1. Grows
    BY DEF Grows, HandStep
  <1>2. BridgeTypes'
    BY DEF BridgeInv, BridgeTypes, HandStep
  <1>3. Queued'
    BY DEF BridgeInv, Queued, HandStep
  <1>4. Tellings'
    BY <1>1, ToldStays DEF HandStep
  <1>5. Unsent'
    BY DEF BridgeInv, BridgeTypes, Unsent, HandStep
  <1>6. plugin.id \in 1..lastId
    BY DEF BridgeInv, InHands, HandStep
  <1>7. plugin.id \in Ids
    BY <1>6, Sent
  <1> QED
    BY <1>1, <1>2, <1>3, <1>4, <1>5, <1>6, <1>7 DEF BridgeInv, Queued, HandStep

\* Carrying a command out, when it comes to it: no other command is touched.
LEMMA OnceCarried ==
    ASSUME BridgeInv, NEW v, HandStep(v), plugin.at \in Kinds,
           v.at \in {"edit", "answer"}, UNCHANGED res,
           UNCHANGED ran \/ CarriedOut
    PROVE  Once' /\ ran' \in [Ids -> Nat]
           /\ \A i \in Ids : ran'[i] >= ran[i] /\ (i > lastId => ran'[i] = ran[i])
  <1>1. plugin.id \in 1..lastId /\ plugin.id \in Ids /\ ran \in [Ids -> Nat] /\ lastId \in Nat
    BY Sent, BridgeAssumption DEF BridgeInv, BridgeTypes, InHands, HandStep
  <1>2. PICK n : n = plugin.id
    OBVIOUS
  <1>3. ran' = ran \/ ran' = [ran EXCEPT ![n] = @ + 1]
    BY <1>2 DEF CarriedOut
  <1>4. /\ ran' \in [Ids -> Nat] /\ \A i \in Ids \ {n} : ran'[i] = ran[i]
        /\ ran'[n] = ran[n] \/ ran'[n] = ran[n] + 1
    BY <1>1, <1>2, <1>3
  <1>5. \A i \in Ids : ran'[i] >= ran[i] /\ (i > lastId => ran'[i] = ran[i])
    BY <1>1, <1>2, <1>4, BridgeAssumption DEF Ids
  <1>6. ASSUME NEW i \in Ids \ excused
        PROVE  /\ ran'[i] <= 1 /\ (Awaits(i)' => ran'[i] = 0)
               /\ ran'[i] > 0 => cmd[i] = "none" \/ res[i].state # "none" \/ Begun(i)'
    <2>1. /\ ran[i] <= 1 /\ (Awaits(i) => ran[i] = 0)
          /\ ran[i] > 0 => cmd[i] = "none" \/ res[i].state # "none" \/ Begun(i)
      BY DEF BridgeInv, Once
    <2>2. CASE i = n
      <3>1. ran[i] = 0
        BY <1>2, <2>1, <2>2 DEF Awaits
      <3>2. Begun(i)'
        BY <1>2, <2>2 DEF Begun, HandStep
      <3>3. ~Awaits(i)'
        BY <1>2, <2>2 DEF Awaits, HandStep, BridgeInv, Queued, Kinds
      <3> QED
        BY <1>4, <2>2, <3>1, <3>2, <3>3
    <2>3. CASE i # n
      <3>1. Awaits(i)' => Awaits(i)
        BY <1>2, <2>3 DEF Awaits, HandStep
      <3>2. ~Begun(i)
        BY <1>2, <2>3 DEF Begun
      <3> QED
        BY <1>4, <2>1, <2>3, <3>1, <3>2
    <2> QED
      BY <2>2, <2>3
  <1>7. Once'
    BY <1>6 DEF Once, HandStep
  <1> QED
    BY <1>4, <1>5, <1>7

\* The command in hand, as the steps find it.
LEMMA InHand ==
    ASSUME BridgeInv, plugin.at \notin {"scan", "pick"}
    PROVE  /\ plugin \in Routine /\ plugin.out \in Out /\ plugin.id \in Ids
           /\ plugin.id \in 1..lastId /\ editor \in Maps \cup {NoMap}
           /\ plugin.out.op = asked[plugin.id].op
           /\ asked[plugin.id].map \in Maps \cup {NoMap}
           /\ ran[plugin.id] \in Nat
  <1>1. plugin.id \in 1..lastId
    BY DEF BridgeInv, InHands
  <1>2. asked[plugin.id] \in Command
    BY <1>1, Sent
  <1> QED
    BY <1>1, <1>2, Sent DEF BridgeInv, BridgeTypes, InHands, Command

\* The answer to a command: "ok" only for one that was carried out, and for a load
\* that closed the editor only with the map asked for.
LEMMA AnswerKeeps ==
    ASSUME BridgeInv, plugin.at \in Kinds \cup {"edit"},
           NEW r \in {"ok", "refused", "crash"}, NEW m \in Maps \cup {NoMap}, NEW c \in BOOLEAN,
           plugin' = Answered(plugin, r, m, c),
           UNCHANGED <<cmd, res, asked, sender, lastId, excused, mishaps>>,
           editor' \in Maps \cup {NoMap},
           \/ UNCHANGED ran /\ (r = "ok" => plugin.at = "edit")
           \/ plugin.at \in Kinds /\ CarriedOut,
           (plugin.out.op = "load" /\ r = "ok" /\ c) => m = asked[plugin.id].map
    PROVE  BridgeInv'
  <1>1. plugin.at \notin {"scan", "pick"}
    BY DEF Kinds
  <1>2. PICK v : v = Answered(plugin, r, m, c)
    OBVIOUS
  <1>3. /\ v \in Routine /\ v.at = "answer" /\ v.id = plugin.id /\ v.queue = plugin.queue
        /\ v.out \in Out /\ v.out.result = r /\ v.out.map = m /\ v.out.closed = c
        /\ v.out.op = plugin.out.op
    <2>1. PICK pl : pl = plugin
      OBVIOUS
    <2>2. pl \in Routine /\ pl.out \in Out /\ v = Answered(pl, r, m, c)
      BY <1>1, <1>2, <2>1, InHand
    <2>3. /\ v \in Routine /\ v.at = "answer" /\ v.id = pl.id /\ v.queue = pl.queue
          /\ v.out \in Out /\ v.out.result = r /\ v.out.map = m /\ v.out.closed = c
          /\ v.out.op = pl.out.op
      <3>1. PICK o : o = [pl.out EXCEPT !.result = r, !.map = m, !.closed = c]
        OBVIOUS
      <3>2. o \in Out /\ o.result = r /\ o.map = m /\ o.closed = c /\ o.op = pl.out.op
        BY <2>2, <3>1 DEF Out, Kinds
      <3>3. v = [pl EXCEPT !.at = "answer", !.out = o]
        BY <2>2, <3>1 DEF Answered, Routine
      <3> QED
        BY <2>2, <3>2, <3>3 DEF Routine, Places
    <2> QED
      BY <2>1, <2>3
  <1>4. HandStep(v)
    BY <1>1, <1>2, <1>3 DEF HandStep
  <1>5. PICK n : n = plugin.id
    OBVIOUS
  <1>6. n \in Ids /\ n \in 1..lastId /\ ran \in [Ids -> Nat]
    BY <1>1, <1>5, InHand DEF BridgeInv, BridgeTypes
  <1>7. /\ Once' /\ ran' \in [Ids -> Nat]
        /\ \A i \in Ids : ran'[i] >= ran[i] /\ (i > lastId => ran'[i] = ran[i])
    <2>1. CASE plugin.at \in Kinds
      BY <1>3, <1>4, <2>1, OnceCarried
    <2>2. CASE plugin.at = "edit" /\ UNCHANGED ran
      <3>1. ASSUME NEW i \in Ids \ excused
            PROVE  /\ ran[i] <= 1 /\ (Awaits(i)' => ran[i] = 0)
                   /\ ran[i] > 0 => cmd[i] = "none" \/ res[i].state # "none" \/ Begun(i)'
        <4>1. /\ ran[i] <= 1 /\ (Awaits(i) => ran[i] = 0)
              /\ ran[i] > 0 => cmd[i] = "none" \/ res[i].state # "none" \/ Begun(i)
          BY DEF BridgeInv, Once
        <4>2. Awaits(i)' => Awaits(i)
          BY <1>2, <1>3 DEF Awaits, Kinds
        <4>3. Begun(i) => Begun(i)'
          BY <1>2, <1>3 DEF Begun
        <4> QED
          BY <4>1, <4>2, <4>3
      <3>2. Once'
        BY <2>2, <3>1 DEF Once
      <3> QED
        BY <1>6, <2>2, <3>2
    <2> QED
      BY <2>1, <2>2 DEF Kinds
  <1>8. BridgeTypes' /\ Queued' /\ Tellings' /\ Unsent' /\ Grows
    BY <1>4, <1>7, HandKeeps DEF BridgeInv, BridgeTypes
  <1>9. Results'
    BY <1>8, ResultsStay
  <1>10. r = "ok" => ran'[n] > 0
    <2>1. CASE CarriedOut
      BY <1>5, <1>6, <2>1 DEF CarriedOut
    <2>2. CASE plugin.at = "edit" /\ UNCHANGED ran
      BY <1>5, <2>2 DEF BridgeInv, InHands
    <2> QED
      BY <2>1, <2>2
  <1>11. Honest(v.out, n)'
    <2>1. PICK o : o = v.out
      OBVIOUS
    <2>2. /\ o \in Out /\ o.op = asked[n].op /\ (o.result = "ok" => ran'[n] > 0)
          /\ (o.op = "load" /\ o.result = "ok" /\ o.closed) => o.map = asked[n].map
      BY <1>1, <1>3, <1>5, <1>10, <2>1, InHand
    <2>3. Honest(o, n)'
      BY <2>2 DEF Honest
    <2> QED
      BY <2>1, <2>3
  <1>12. InHands'
    <2>1. PICK o : o = v.out
      OBVIOUS
    <2>2. plugin'.at = "answer" /\ plugin'.id = n /\ plugin'.out = o /\ n \in 1..lastId'
      BY <1>2, <1>3, <1>5, <1>6, <2>1
    <2>3. Honest(o, n)'
      BY <1>11, <2>1
    <2>4. o \in Out /\ o.op = asked'[n].op
      BY <2>3 DEF Honest
    <2> QED
      BY <2>2, <2>3, <2>4 DEF InHands, Kinds, Honest
  <1> QED
    BY <1>7, <1>8, <1>9, <1>12 DEF BridgeInv

LEMMA Quitting ==
    ASSUME BridgeInv, QuitEditor
    PROVE  BridgeInv'
  <1>1. PICK still \in {NoMap, editor} :
          /\ editor' = still
          /\ plugin' = [plugin EXCEPT !.at = "edit", !.closed = Closed(still)]
    BY DEF QuitEditor, Plugin
  <1>2. /\ plugin.at = "load" /\ CarriedOut
        /\ UNCHANGED <<cmd, res, asked, sender, lastId, excused, mishaps>>
    BY DEF QuitEditor
  <1>3. PICK v : v = [plugin EXCEPT !.at = "edit", !.closed = Closed(still)]
    OBVIOUS
  <1>4. /\ v \in Routine /\ v.at = "edit" /\ v.id = plugin.id /\ v.queue = plugin.queue
        /\ v.out = plugin.out /\ (v.closed => still = NoMap)
    BY <1>3 DEF BridgeInv, BridgeTypes, Routine, Places, Closed
  <1>5. /\ plugin.out \in Out /\ plugin.id \in Ids /\ plugin.id \in 1..lastId
        /\ plugin.out.op = asked[plugin.id].op /\ editor \in Maps \cup {NoMap}
        /\ ran[plugin.id] \in Nat
    BY <1>2, InHand
  <1>6. HandStep(v)
    BY <1>1, <1>2, <1>3, <1>4, <1>5 DEF HandStep
  <1>7. /\ Once' /\ ran' \in [Ids -> Nat]
        /\ \A i \in Ids : ran'[i] >= ran[i] /\ (i > lastId => ran'[i] = ran[i])
    BY <1>2, <1>4, <1>6, OnceCarried DEF Kinds
  <1>8. BridgeTypes' /\ Queued' /\ Tellings' /\ Unsent' /\ Grows
    BY <1>2, <1>6, <1>7, HandKeeps DEF BridgeInv, BridgeTypes
  <1>9. Results'
    BY <1>2, <1>8, ResultsStay
  <1>10. PICK n : n = plugin.id
    OBVIOUS
  <1>11. ran'[n] > 0 /\ asked[n].op = "load"
    BY <1>2, <1>5, <1>10 DEF CarriedOut, BridgeInv, BridgeTypes, InHands, Kinds
  <1>12. InHands'
    <2>1. /\ plugin'.at = "edit" /\ plugin'.id = n /\ plugin'.out = v.out
          /\ (plugin'.closed => editor' = NoMap)
          /\ n \in 1..lastId' /\ asked' = asked /\ v.out \in Out /\ v.out.op = asked[n].op
      BY <1>1, <1>2, <1>3, <1>4, <1>5, <1>10
    <2> QED
      BY <1>11, <2>1 DEF InHands, Kinds
  <1> QED
    BY <1>7, <1>8, <1>9, <1>12 DEF BridgeInv

LEMMA Editing ==
    ASSUME BridgeInv, EditMap
    PROVE  BridgeInv'
  <1>1. plugin.at = "edit" /\ UNCHANGED <<cmd, res, asked, sender, lastId, ran, excused, mishaps>>
    BY DEF EditMap
  <1>2. PICK opened \in IF editor = NoMap THEN {NoMap, asked[plugin.id].map} ELSE {editor} :
          /\ editor' = opened
          /\ plugin' = Answered(plugin, IF opened = NoMap THEN "refused" ELSE "ok", opened, plugin.closed)
    BY DEF EditMap, Answer, Plugin, Answered
  <1>3. PICK r : r = IF opened = NoMap THEN "refused" ELSE "ok"
    OBVIOUS
  <1>4. r \in {"ok", "refused", "crash"} /\ plugin.closed \in BOOLEAN
    BY <1>3 DEF BridgeInv, BridgeTypes, Routine
  <1>5. opened \in Maps \cup {NoMap}
    BY <1>1, <1>2, InHand
  <1>6. plugin.closed => editor = NoMap
    BY <1>1 DEF BridgeInv, InHands
  <1>7. (r = "ok" /\ plugin.closed) => opened = asked[plugin.id].map
    BY <1>2, <1>3, <1>6
  <1> QED
    BY <1>1, <1>2, <1>3, <1>4, <1>5, <1>7, AnswerKeeps

LEMMA Replying ==
    ASSUME BridgeInv, Mutate \/ ReadState \/ Crash
    PROVE  BridgeInv'
  <1>1. PICK r \in {"ok", "refused", "crash"}, m \in {NoMap, editor} :
          plugin' = Answered(plugin, r, m, FALSE) /\ (r = "ok" => plugin.at # "edit" /\ CarriedOut)
    BY DEF Mutate, ReadState, Crash, Answer, Plugin, Answered
  <1>2. /\ plugin.at \in Kinds \cup {"edit"}
        /\ UNCHANGED <<cmd, res, asked, sender, lastId, editor, excused, mishaps>>
        /\ UNCHANGED ran \/ (plugin.at \in Kinds /\ CarriedOut)
    BY DEF Mutate, ReadState, Crash, Kinds
  <1>3. m \in Maps \cup {NoMap} /\ editor \in Maps \cup {NoMap}
    BY <1>2, InHand DEF Kinds
  <1>4. UNCHANGED ran /\ r = "ok" => plugin.at = "edit"
    <2>1. ASSUME UNCHANGED ran, CarriedOut, plugin.at # "edit"
          PROVE  FALSE
      <3>1. plugin.id \in Ids /\ ran[plugin.id] \in Nat /\ ran \in [Ids -> Nat]
        BY <1>2, <2>1, InHand DEF Kinds, BridgeInv, BridgeTypes
      <3> QED
        BY <2>1, <3>1 DEF CarriedOut
    <2> QED
      BY <1>1, <2>1
  <1> QED
    BY <1>1, <1>2, <1>3, <1>4, AnswerKeeps

\* The result file of the command in hand is written: what it says is true.
LEMMA FileWritten ==
    ASSUME BridgeInv, plugin.at \in {"answer", "flush"}, NEW s \in {"torn", "whole"},
           res' = [res EXCEPT ![plugin.id] = [plugin.out EXCEPT !.state = s]],
           UNCHANGED <<cmd, asked, sender, lastId, editor, ran, excused, mishaps>>
    PROVE  /\ res' \in [Ids -> Out \cup {NoResult}] /\ Results' /\ Tellings' /\ Unsent'
           /\ plugin.id \in Ids /\ res'[plugin.id].state # "none"
           /\ \A i \in Ids : i # plugin.id => res'[i] = res[i]
  <1>1. PICK n : n = plugin.id
    OBVIOUS
  <1>2. PICK o : o = plugin.out
    OBVIOUS
  <1>3. PICK r : r = [o EXCEPT !.state = s]
    OBVIOUS
  <1>4. o \in Out /\ n \in Ids /\ n \in 1..lastId /\ Honest(o, n)
    BY <1>1, <1>2, InHand DEF BridgeInv, InHands
  <1>5. /\ r \in Out /\ r.state = s /\ r.op = o.op /\ r.result = o.result
        /\ r.map = o.map /\ r.closed = o.closed
    BY <1>3, <1>4, OutUpdates
  <1>6. Honest(r, n)
    BY <1>4, <1>5 DEF Honest
  <1>7. /\ res' = [res EXCEPT ![n] = r] /\ res \in [Ids -> Out \cup {NoResult}]
    BY <1>1, <1>2, <1>3 DEF BridgeInv, BridgeTypes
  <1>8. /\ res' \in [Ids -> Out \cup {NoResult}] /\ res'[n] = r
        /\ \A i \in Ids : i # n => res'[i] = res[i]
    BY <1>4, <1>5, <1>7, ZenonT(40)
  <1>9. Results'
    <2>1. ASSUME NEW i \in Ids, res'[i].state # "none"
          PROVE  i <= lastId /\ Honest(res'[i], i)
      <3>1. CASE i = n
        BY <1>4, <1>6, <1>8, <3>1
      <3>2. CASE i # n
        BY <1>8, <2>1, <3>2 DEF BridgeInv, Results
      <3> QED
        BY <3>1, <3>2
    <2> QED
      BY <2>1 DEF Results, Honest
  <1>10. Tellings' /\ Unsent'
    BY DEF BridgeInv, Tellings, Unsent, Honest
  <1> QED
    BY <1>1, <1>4, <1>5, <1>8, <1>9, <1>10

LEMMA WritingResult ==
    ASSUME BridgeInv, WriteResult
    PROVE  BridgeInv'
  <1>1. /\ plugin.at = "answer" /\ plugin' = [plugin EXCEPT !.at = "flush"]
        /\ res' = [res EXCEPT ![plugin.id] = [plugin.out EXCEPT !.state = "torn"]]
        /\ UNCHANGED <<cmd, asked, sender, lastId, editor, ran, excused, mishaps>>
    BY DEF WriteResult, Plugin
  <1>2. /\ res' \in [Ids -> Out \cup {NoResult}] /\ Results' /\ Tellings' /\ Unsent'
        /\ plugin.id \in Ids /\ res'[plugin.id].state # "none"
        /\ \A i \in Ids : i # plugin.id => res'[i] = res[i]
    BY <1>1, FileWritten
  <1>3. PICK v : v = [plugin EXCEPT !.at = "flush"]
    OBVIOUS
  <1>4. /\ v \in Routine /\ v.at = "flush" /\ v.id = plugin.id /\ v.queue = plugin.queue
        /\ v.out = plugin.out
    BY <1>3 DEF BridgeInv, BridgeTypes, Routine, Places
  <1>5. BridgeTypes'
    BY <1>1, <1>2, <1>3, <1>4 DEF BridgeInv, BridgeTypes
  <1>6. InHands' /\ Queued'
    BY <1>1, <1>3, <1>4 DEF BridgeInv, InHands, Queued, Kinds, Honest
  <1>7. Once'
    <2>1. ASSUME NEW i \in Ids
          PROVE  /\ Awaits(i)' => Awaits(i)
                 /\ Begun(i) => Begun(i)'
                 /\ res[i].state # "none" => res'[i].state # "none"
      BY <1>1, <1>2, <1>3, <1>4 DEF Awaits, Begun, Kinds
    <2> QED
      BY <1>1, <2>1 DEF BridgeInv, Once
  <1> QED
    BY <1>2, <1>5, <1>6, <1>7 DEF BridgeInv

LEMMA Finishing ==
    ASSUME BridgeInv, ResultWritten
    PROVE  BridgeInv'
  <1>1. /\ plugin.at = "flush" /\ plugin' = NextCommand
        /\ res' = [res EXCEPT ![plugin.id] = [plugin.out EXCEPT !.state = "whole"]]
        /\ UNCHANGED <<cmd, asked, sender, lastId, editor, ran, excused, mishaps>>
    BY DEF ResultWritten, Plugin
  <1>2. /\ res' \in [Ids -> Out \cup {NoResult}] /\ Results' /\ Tellings' /\ Unsent'
        /\ plugin.id \in Ids /\ res'[plugin.id].state # "none"
        /\ \A i \in Ids : i # plugin.id => res'[i] = res[i]
    BY <1>1, FileWritten
  <1>3. PICK v : v = NextCommand
    OBVIOUS
  <1>4. PICK w : w = Scanning
    OBVIOUS
  <1>5. plugin.queue \in Seq(Ids)
    BY DEF BridgeInv, BridgeTypes, Routine
  <1>6. v \in Routine /\ v.at = "pick" /\ v.id = 0 /\ v.queue = plugin.queue
    <2>1. w \in Routine /\ w.id = 0 /\ v = [w EXCEPT !.at = "pick", !.queue = plugin.queue]
      BY <1>3, <1>4, ScanningType DEF NextCommand
    <2> QED
      BY <1>5, <2>1 DEF Routine, Places
  <1>7. BridgeTypes'
    BY <1>1, <1>2, <1>3, <1>6 DEF BridgeInv, BridgeTypes
  <1>8. InHands'
    BY <1>1, <1>3, <1>6 DEF InHands, Kinds
  <1>9. Queued'
    <2>1. \A k \in DOMAIN plugin.queue : plugin.queue[k] # 0
      BY BridgeAssumption DEF BridgeInv, BridgeTypes, Queued
    <2> QED
      BY <1>1, <1>3, <1>6, <2>1 DEF BridgeInv, Queued
  <1>10. Once'
    <2>1. ASSUME NEW i \in Ids
          PROVE  /\ Awaits(i)' => Awaits(i)
                 /\ Begun(i) => res'[i].state # "none"
                 /\ res[i].state # "none" => res'[i].state # "none"
      BY <1>1, <1>2, <1>3, <1>6 DEF Awaits, Begun, Kinds
    <2> QED
      BY <1>1, <2>1 DEF BridgeInv, Once
  <1> QED
    BY <1>2, <1>7, <1>8, <1>9, <1>10 DEF BridgeInv

\* A reload drops what was in hand and queued, and excuses it.
LEMMA Reloading ==
    ASSUME BridgeInv, Reload
    PROVE  BridgeInv'
  <1>1. /\ plugin.at # "scan" /\ mishaps' = mishaps + 1 /\ plugin' = Scanning
        /\ excused' = excused \cup {plugin.id} \cup ToSet(plugin.queue)
        /\ UNCHANGED <<cmd, res, asked, sender, lastId, editor, ran>>
    BY DEF Reload, Plugin
  <1>2. BridgeTypes /\ plugin \in Routine /\ plugin.queue \in Seq(Ids) /\ plugin.id \in 0..MaxId
    BY DEF BridgeInv, BridgeTypes, Routine
  <1>3. plugin'.at = "scan" /\ plugin'.id = 0 /\ plugin'.queue = <<>> /\ plugin' \in Routine
    BY <1>1, ScanningType
  <1>4. BridgeTypes'
    <2>1. excused' \subseteq 0..MaxId
      <3>1. \A k \in DOMAIN plugin.queue : plugin.queue[k] \in 0..MaxId
        BY <1>2, BridgeAssumption DEF Ids
      <3>2. ToSet(plugin.queue) = {plugin.queue[k] : k \in DOMAIN plugin.queue}
        BY DEF ToSet
      <3> QED
        BY <1>1, <1>2, <3>1, <3>2 DEF BridgeTypes
    <2> QED
      BY <1>1, <1>2, <1>3, <2>1 DEF BridgeTypes
  <1>5. InHands' /\ Queued'
    BY <1>3 DEF InHands, Queued, Kinds
  <1>6. Results' /\ Tellings' /\ Unsent'
    BY <1>1 DEF BridgeInv, Results, Tellings, Unsent, Honest
  <1>7. Once'
    <2>1. ASSUME NEW i \in Ids \ excused'
          PROVE  i \notin excused /\ ~Begun(i) /\ ~Awaits(i)'
      BY <1>1, <1>3, <2>1 DEF Begun, Awaits, Kinds
    <2> QED
      BY <1>1, <2>1 DEF BridgeInv, Once
  <1> QED
    BY <1>4, <1>5, <1>6, <1>7 DEF BridgeInv

LEMMA BridgeStarts == BridgeInit => BridgeInv
  <1> SUFFICES ASSUME BridgeInit PROVE BridgeInv
    OBVIOUS
  <1>1. plugin \in Routine /\ plugin.at = "scan" /\ plugin.id = 0 /\ plugin.queue = <<>>
    BY ScanningType DEF BridgeInit
  <1>2. /\ \A i \in Ids : cmd[i] = "none" /\ ran[i] = 0 /\ res[i] = NoResult
        /\ \A c \in Callers : sender[c] = NoCall
        /\ lastId = 0 /\ excused = {} /\ mishaps = 0 /\ editor = NoMap
    BY DEF BridgeInit
  <1>3. BridgeTypes
    <2>1. sender \in [Callers -> Call]
      BY Idle DEF BridgeInit
    <2>2. asked \in [Ids -> Command]
      BY DEF BridgeInit, Command, Kinds
    <2> QED
      BY <1>1, <2>1, <2>2, BridgeAssumption DEF BridgeInit, BridgeTypes
  <1>4. InHands /\ Queued
    BY <1>1 DEF InHands, Queued, Kinds
  <1>5. Results
    BY <1>2 DEF Results, NoResult
  <1>6. Tellings
    BY <1>2, Idle DEF Tellings
  <1>7. Unsent /\ Once
    BY <1>1, <1>2 DEF Unsent, Once, Awaits, Kinds
  <1> QED
    BY <1>3, <1>4, <1>5, <1>6, <1>7 DEF BridgeInv

LEMMA BridgeSteps == BridgeInv /\ [BridgeNext]_bridgeVars => BridgeInv'
  <1> SUFFICES ASSUME BridgeInv, [BridgeNext]_bridgeVars PROVE BridgeInv'
    OBVIOUS
  <1>1. ASSUME NEW c \in Callers, NEW op \in OpsOf[c], WriteCommand(c, op) PROVE BridgeInv'
    BY <1>1, Writing
  <1>2. ASSUME NEW c \in Callers, CommandWritten(c) PROVE BridgeInv'
    BY <1>2, Completing
  <1>3. ASSUME NEW c \in Callers, ReadResult(c) PROVE BridgeInv'
    BY <1>3, Reading
  <1>4. ASSUME NEW c \in Callers, CleanUp(c) \/ Deadline(c) PROVE BridgeInv'
    BY <1>4, CleaningUp
  <1>5. CASE ScanPending
    BY <1>5, Scanned
  <1>6. CASE PickCommand
    BY <1>6, Picking
  <1>7. CASE QuitEditor
    BY <1>7, Quitting
  <1>8. CASE EditMap
    BY <1>8, Editing
  <1>9. CASE Mutate \/ ReadState \/ Crash
    BY <1>9, Replying
  <1>10. CASE WriteResult
    BY <1>10, WritingResult
  <1>11. CASE ResultWritten
    BY <1>11, Finishing
  <1>12. CASE Reload
    BY <1>12, Reloading
  <1>13. CASE UNCHANGED bridgeVars
    BY <1>13 DEF bridgeVars, BridgeInv, BridgeTypes, InHands, Queued, Results, Tellings,
                 Unsent, Once, Honest, Awaits, Begun
  <1> QED
    BY <1>1, <1>2, <1>3, <1>4, <1>5, <1>6, <1>7, <1>8, <1>9, <1>10, <1>11, <1>12, <1>13
    DEF BridgeNext, PluginStep

\* For any number of callers, commands, maps and mishaps: what a caller is told is so, no
\* command is carried out twice unless a file could not be removed or the plugin was
\* reloaded, and a load that closed the editor reports the map asked for only when that
\* map is open (_call in server.py, Main.as:88 and Main.as:185).
THEOREM CallersAreTold == BridgeInit /\ [][BridgeNext]_bridgeVars => [](BridgeInv /\ BridgeHonest)
  <1>1. BridgeInv => BridgeHonest
    BY DEF BridgeInv, BridgeHonest, Tellings, Once, ToldTheTruth, CarriedOutOnce, LoadedIsAsked, Honest
  <1> QED
    BY <1>1, BridgeStarts, BridgeSteps, PTL

-----------------------------------------------------------------------------
(* The capture rig. *)

\* A frame and a ghost's record, whose frames after the one it appeared at move with the
\* clock.
Frame == [t : Int, x : Int]
Recording == [frames : Seq(Frame), start : Int, finished : BOOLEAN]
Drives(rec) ==
    rec.start >= 0 => \A i \in DOMAIN rec.frames :
        i > rec.start => rec.frames[i].t = i /\ rec.frames[i].x = 10 + i
Loaded == [state : {"doc"}, loaded : {TRUE}, ghosts : [G -> {rec \in Recording : Drives(rec)}]]
Answers == {NoDoc, LoadError, NoGhost} \cup Loaded

\* The record's telemetry once it is anchored, and when it is not.
LEMMA AnchoredClock ==
    ASSUME NEW frames \in Seq(Frame), NEW start \in Int, Anchored(frames, start),
           \A i \in DOMAIN frames : i > start => frames[i].t = i /\ frames[i].x = 10 + i
    PROVE  LET kept == Rebased(frames, start) IN
           /\ kept \in Seq(Frame) /\ Len(kept) > 0
           /\ \A i \in DOMAIN kept : kept[i].t = i - 1 /\ kept[i].x = 10 + start + i
  <1>1. start \in Nat /\ start < Len(frames) /\ Len(frames) \in Nat /\ DOMAIN frames = 1..Len(frames)
    BY DEF Anchored
  <1>2. PICK kept : kept = SubSeq(frames, start + 1, Len(frames))
    OBVIOUS
  <1>3. \A i \in start + 1 .. Len(frames) : frames[i] \in Frame
    BY <1>1
  <1>4. /\ kept \in Seq(Frame) /\ Len(kept) = Len(frames) - start
        /\ \A i \in 1 .. Len(frames) - start : kept[i] = frames[start + i]
    <2>1. PICK m \in Int : m = start + 1
      BY <1>1
    <2>2. PICK n : n = Len(frames)
      OBVIOUS
    <2>3. n \in Int
      BY <1>1, <2>2
    <2>4. \A i \in m .. n : frames[i] \in Frame
      BY <1>1, <2>1, <2>2
    <2>5. kept = SubSeq(frames, m, n) /\ m <= n /\ n - m + 1 = Len(frames) - start
      BY <1>1, <1>2, <2>1, <2>2
    <2>6. SubSeq(frames, m, n) \in Seq(Frame)
      BY <2>4, <2>3, SubSeqProperties, SMTT(30)
    <2>7. Len(SubSeq(frames, m, n)) = IF m <= n THEN n - m + 1 ELSE 0
      BY <2>4, <2>3, SubSeqProperties, SMTT(30)
    <2>8. ASSUME NEW i \in 1 .. n - m + 1
          PROVE  SubSeq(frames, m, n)[i] = frames[m + i - 1]
      BY <2>4, <2>3, SubSeqProperties, SMTT(30)
    <2>9. ASSUME NEW i \in 1 .. Len(frames) - start
          PROVE  kept[i] = frames[start + i]
      <3>1. m + i - 1 = start + i
        BY <1>1, <2>1
      <3> QED
        BY <2>5, <2>8, <3>1
    <2> QED
      BY <2>5, <2>6, <2>7, <2>9, <2>3
  <1>5. \A i \in 1..Len(kept) : kept[i] \in Frame /\ kept[i].t = start + i /\ kept[i].x = 10 + start + i
    <2>1. TAKE i \in 1..Len(kept)
    <2>2. PICK n : n = start + i
      OBVIOUS
    <2>3. n \in DOMAIN frames /\ n > start /\ n \in Int /\ i \in 1 .. Len(frames) - start
      BY <1>1, <1>4, <2>2
    <2>4. kept[i] = frames[n]
      BY <1>4, <2>2, <2>3
    <2>5. frames[n] \in Frame /\ frames[n].t = n /\ frames[n].x = 10 + n
      BY <2>3
    <2> QED
      BY <1>1, <2>2, <2>3, <2>4, <2>5
  <1>6. PICK based : based = [i \in DOMAIN kept |-> [kept[i] EXCEPT !.t = @ - kept[1].t]]
    OBVIOUS
  <1>7. \A i \in 1..Len(kept) :
          based[i] \in Frame /\ based[i].t = i - 1 /\ based[i].x = 10 + start + i
    <2>1. TAKE i \in 1..Len(kept)
    <2>2. PICK f : f = kept[i]
      OBVIOUS
    <2>3. DOMAIN kept = 1..Len(kept) /\ kept[1].t = start + 1 /\ i \in Int
      BY <1>1, <1>4, <1>5
    <2>4. based[i] = [f EXCEPT !.t = @ - kept[1].t]
      BY <1>6, <2>2, <2>3
    <2>5. f \in Frame /\ f.t = start + i /\ f.x = 10 + start + i
      BY <1>5, <2>2
    <2>6. PICK d : d = f.t - kept[1].t
      OBVIOUS
    <2>7. d = i - 1 /\ d \in Int
      BY <1>1, <2>3, <2>5, <2>6
    <2>8. based[i] = [f EXCEPT !.t = d]
      BY <2>4, <2>6
    <2> QED
      BY <2>5, <2>7, <2>8 DEF Frame
  <1>8. PICK out : out = SubSeq(based, 1, Len(kept))
    OBVIOUS
  <1>9. Len(kept) \in Nat /\ Len(kept) > 0
    BY <1>1, <1>4
  <1>10. /\ out \in Seq(Frame) /\ Len(out) = Len(kept)
         /\ \A i \in 1..Len(kept) : out[i] = based[i]
    <2>1. PICK n \in Int : n = Len(kept)
      BY <1>9
    <2>2. /\ SubSeq(based, 1, n) \in Seq(Frame)
          /\ Len(SubSeq(based, 1, n)) = IF 1 <= n THEN n - 1 + 1 ELSE 0
          /\ \A i \in 1 .. n - 1 + 1 : SubSeq(based, 1, n)[i] = based[1 + i - 1]
      BY <1>7, <2>1, SubSeqProperties
    <2>3. 1 <= n /\ n - 1 + 1 = n /\ \A i \in Int : 1 + i - 1 = i
      BY <1>9, <2>1
    <2> QED
      BY <1>8, <2>1, <2>2, <2>3
  <1>11. Rebased(frames, start) = out
    BY <1>2, <1>6, <1>8 DEF Rebased, Trimmed
  <1>12. Len(out) > 0 /\ DOMAIN out = 1..Len(kept)
    BY <1>9, <1>10
  <1>13. \A i \in 1..Len(kept) : out[i].t = i - 1 /\ out[i].x = 10 + start + i
    BY <1>7, <1>10
  <1> QED
    BY <1>10, <1>11, <1>12, <1>13

LEMMA AnchoredVelocities ==
    ASSUME NEW kept \in Seq(Frame), NEW start \in Int,
           \A i \in DOMAIN kept : kept[i].t = i - 1 /\ kept[i].x = 10 + start + i
    PROVE  \A i \in DOMAIN Velocities(kept) : Velocities(kept)[i][1] <= Velocities(kept)[i][2]
  <1> SUFFICES ASSUME NEW i \in DOMAIN kept PROVE Velocity(kept, i)[1] <= Velocity(kept, i)[2]
    BY DEF Velocities
  <1>1. DOMAIN kept = 1..Len(kept) /\ Len(kept) \in Nat
    OBVIOUS
  <1>2. PICK lo : lo = IF i > 1 THEN i - 1 ELSE i
    OBVIOUS
  <1>3. PICK hi : hi = IF i < Len(kept) THEN i + 1 ELSE i
    OBVIOUS
  <1>4. lo \in DOMAIN kept /\ hi \in DOMAIN kept /\ lo \in Int /\ hi \in Int /\ i \in Int
    BY <1>1, <1>2, <1>3
  <1>5. kept[hi].t - kept[lo].t = hi - lo /\ kept[hi].x - kept[lo].x = hi - lo
    BY <1>4, SMTT(30)
  <1>6. Velocity(kept, i) = IF hi - lo <= 0 THEN <<0, 1>> ELSE <<hi - lo, hi - lo>>
    BY <1>2, <1>3, <1>5 DEF Velocity
  <1> QED
    BY <1>4, <1>6

LEMMA Telemetry ==
    ASSUME NEW rec \in Recording, Drives(rec), rec.frames # <<>>
    PROVE  LET tele == TelemetryOf(rec) IN
           /\ Anchored(rec.frames, rec.start) =>
                /\ tele.anchored /\ tele.samples[1].t = 0
                /\ \A i \in DOMAIN tele.velocities : tele.velocities[i][1] <= tele.velocities[i][2]
           /\ ~Anchored(rec.frames, rec.start) => tele.checkpoints = <<>>
  <1>1. PICK frames : frames = rec.frames
    OBVIOUS
  <1>2. PICK start : start = rec.start
    OBVIOUS
  <1>3. PICK kept : kept = Rebased(frames, start)
    OBVIOUS
  <1>4. PICK tele : tele = TelemetryOf(rec)
    OBVIOUS
  <1>5. frames \in Seq(Frame) /\ start \in Int /\ frames # <<>>
    BY <1>1, <1>2 DEF Recording
  <1>6. /\ tele.anchored = Anchored(frames, start) /\ tele.samples = kept
        /\ tele.velocities = Velocities(kept)
        /\ tele.checkpoints = CheckpointIndices(kept, Splits, Anchored(frames, start))
    BY <1>1, <1>2, <1>3, <1>4, <1>5 DEF TelemetryOf, Adapted
  <1>7. CASE ~Anchored(frames, start)
    BY <1>1, <1>2, <1>4, <1>6, <1>7 DEF CheckpointIndices
  <1>8. CASE Anchored(frames, start)
    <2>1. \A i \in DOMAIN frames : i > start => frames[i].t = i /\ frames[i].x = 10 + i
      BY <1>1, <1>2, <1>8 DEF Drives, Anchored
    <2>2. /\ kept \in Seq(Frame) /\ Len(kept) > 0
          /\ \A i \in DOMAIN kept : kept[i].t = i - 1 /\ kept[i].x = 10 + start + i
      BY <1>3, <1>5, <1>8, <2>1, AnchoredClock
    <2>3. \A i \in DOMAIN Velocities(kept) : Velocities(kept)[i][1] <= Velocities(kept)[i][2]
      BY <1>5, <2>2, AnchoredVelocities
    <2>4. kept[1].t = 0
      BY <2>2
    <2> QED
      BY <1>1, <1>2, <1>4, <1>6, <1>8, <2>3, <2>4
  <1> QED
    BY <1>7, <1>8

CaptureTypes ==
    /\ driver \in [at : {"next", "submit", "await", "ended"}, job : 0..Jobs, attempt : Nat,
                   streak : 0..FailureLimit]
    /\ ticket \in Nat /\ answer \in Answers
    /\ rig \in [at : {"scan", "load", "sample", "write"}, ticket : Nat, frames : Nat,
                appeared : [G -> Int], seen : [G -> Int], over : SUBSET G]
    /\ tally \in [1..Jobs -> {"ok", "skipped", "failed", "none"}]

\* The plugin sees every ghost when it appears.
Watched == rig.seen = rig.appeared

\* The jobs settled so far, and the failures at their end, which the streak counts.
Settled == IF driver.at \in {"next", "ended"} THEN driver.job ELSE driver.job - 1
Counted ==
    /\ driver.at \in {"submit", "await"} => driver.job >= 1 /\ driver.streak < FailureLimit
    /\ \A j \in 1..Jobs : j > Settled => tally[j] = "none"
    /\ \A j \in 1..Settled :
         (\A i \in j..Settled : tally[i] = "failed") => Settled - j < driver.streak
    /\ BreakerStops

\* Telemetry that can be trusted.
Sound(tele) ==
    /\ tele.anchored /\ tele.samples[1].t = 0
    /\ \A i \in DOMAIN tele.velocities : tele.velocities[i][1] <= tele.velocities[i][2]
Filed == \A a \in artifacts : a.job \in 1..Jobs /\ (tally[a.job] = "ok" => Sound(a.tele))

CaptureInv == CaptureTypes /\ Watched /\ Counted /\ Filed

\* The plugin at work: it answers only with what it sampled.
Camera == [at : {"scan", "load", "sample", "write"}, ticket : Nat, frames : Nat,
           appeared : [G -> Int], seen : [G -> Int], over : SUBSET G]

LEMMA WaitingType == Waiting \in Camera /\ Waiting.seen = Waiting.appeared
  BY DEF Waiting, Never, Camera

LEMMA RigSteps ==
    ASSUME CaptureInv, UNCHANGED <<driver, ticket, artifacts, tally>>,
           answer' \in Answers, rig' \in Camera, rig'.seen = rig'.appeared
    PROVE  CaptureInv'
  BY DEF CaptureInv, CaptureTypes, Watched, Counted, Settled, BreakerStops, Filed, Sound, Camera

LEMMA WrittenDoc ==
    ASSUME CaptureInv, NEW doc \in Answers, Write(doc), UNCHANGED <<driver, ticket, artifacts, tally>>
    PROVE  CaptureInv'
  <1>1. answer' \in Answers /\ rig' = Waiting
    BY DEF Write, CaptureInv, CaptureTypes
  <1> QED
    BY <1>1, WaitingType, RigSteps

\* The frames of a ghost that is anchored where it appeared drive with the clock.
LEMMA SampledDoc ==
    ASSUME CaptureInv
    PROVE  [state |-> "doc", loaded |-> TRUE,
            ghosts |-> [g \in G |-> [frames |-> FramesOf(rig, g), start |-> rig.seen[g],
                                     finished |-> g \in rig.over]]] \in Answers
  <1>1. ASSUME NEW g \in G
        PROVE  /\ [frames |-> FramesOf(rig, g), start |-> rig.seen[g], finished |-> g \in rig.over] \in Recording
               /\ Drives([frames |-> FramesOf(rig, g), start |-> rig.seen[g], finished |-> g \in rig.over])
    <2>1. PICK s : s = rig.seen[g]
      OBVIOUS
    <2>2. s \in Int /\ rig.appeared[g] = s /\ rig.frames \in Nat
      BY <2>1 DEF CaptureInv, CaptureTypes, Watched
    <2>3. PICK f : f = [i \in 1..rig.frames |-> [t |-> i, x |-> IF s >= 0 /\ i > s THEN 10 + i ELSE Origin]]
      OBVIOUS
    <2>4. f = FramesOf(rig, g)
      BY <2>2, <2>3 DEF FramesOf
    <2>5. f \in Seq(Frame) /\ DOMAIN f = 1..rig.frames
      <3>1. \A i \in 1..rig.frames : f[i] \in Frame
        BY <2>2, <2>3 DEF Frame, Origin
      <3>2. PICK k \in Nat : k = rig.frames
        BY <2>2
      <3>3. f \in [1..k -> Frame]
        BY <2>3, <3>1, <3>2
      <3> QED
        BY <3>2, <3>3
    <2>6. s >= 0 => \A i \in DOMAIN f : i > s => f[i].t = i /\ f[i].x = 10 + i
      BY <2>2, <2>3
    <2>7. PICK done \in BOOLEAN : done = (g \in rig.over)
      BY (g \in rig.over) \in BOOLEAN
    <2>8. PICK rec : rec = [frames |-> f, start |-> s, finished |-> done]
      OBVIOUS
    <2>9. rec \in Recording /\ Drives(rec)
      BY <2>2, <2>5, <2>6, <2>8 DEF Recording, Drives
    <2> QED
      BY <2>1, <2>4, <2>7, <2>8, <2>9
  <1> DEFINE R(g) == [frames |-> FramesOf(rig, g), start |-> rig.seen[g], finished |-> g \in rig.over]
  <1>2. \A g \in G : R(g) \in {rec \in Recording : Drives(rec)}
    BY <1>1
  <1>3. [g \in G |-> R(g)] \in [G -> {rec \in Recording : Drives(rec)}]
    <2> HIDE DEF R
    <2> QED
      BY <1>2
  <1>4. PICK all : all = [g \in G |-> R(g)]
    OBVIOUS
  <1>5. [state |-> "doc", loaded |-> TRUE, ghosts |-> all] \in Loaded
    BY <1>3, <1>4 DEF Loaded
  <1> QED
    BY <1>4, <1>5 DEF Answers

LEMMA Sampling ==
    ASSUME CaptureInv, Sample
    PROVE  CaptureInv'
  <1> DEFINE N == rig.frames + 1
             Shown(new) == [g \in G |-> IF g \in new THEN N - 1 ELSE rig.appeared[g]]
             Noted(new) == Seen(N, rig.seen, Spawned(Shown(new)))
             Turn(new, end) == [rig EXCEPT !.frames = N, !.appeared = Shown(new),
                                           !.seen = Noted(new), !.over = @ \cup end]
  <1>1. PICK new \in SUBSET (G \ Spawned(rig.appeared)) : \E end \in SUBSET (Spawned(Noted(new)) \ rig.over) :
          rig' = IF LoopOver(Turn(new, end)) THEN [Turn(new, end) EXCEPT !.at = "write"] ELSE Turn(new, end)
    BY Zenon DEF Sample
  <1>2. PICK end \in SUBSET (Spawned(Noted(new)) \ rig.over) :
          rig' = IF LoopOver(Turn(new, end)) THEN [Turn(new, end) EXCEPT !.at = "write"] ELSE Turn(new, end)
    BY <1>1
  <1>3. PICK n : n = N
    OBVIOUS
  <1>4. PICK appeared : appeared = [g \in G |-> IF g \in new THEN n - 1 ELSE rig.appeared[g]]
    OBVIOUS
  <1>5. PICK seen : seen = Seen(n, rig.seen, Spawned(appeared))
    OBVIOUS
  <1>6. PICK v : v = rig
    OBVIOUS
  <1>7. PICK over : over = v.over \cup end
    OBVIOUS
  <1>8. PICK r : r = [v EXCEPT !.frames = n, !.appeared = appeared, !.seen = seen, !.over = over]
    OBVIOUS
  <1>9. rig' = [r EXCEPT !.at = "write"] \/ rig' = r
    <2>1. Turn(new, end) = r /\ Noted(new) = seen
      BY <1>3, <1>4, <1>5, <1>6, <1>7, <1>8
    <2> HIDE DEF Turn
    <2> QED
      BY <1>2, <2>1
  <1> HIDE DEF Turn, Noted, Shown, N
  <1>10. /\ v \in Camera /\ v.seen = v.appeared /\ v.frames \in Nat
         /\ v.seen \in [G -> Int] /\ v.over \subseteq G
    BY <1>6 DEF CaptureInv, CaptureTypes, Watched, Camera
  <1>11. n \in Nat /\ n - 1 \in Nat /\ appeared \in [G -> Int]
    BY <1>3, <1>4, <1>6, <1>10 DEF N
  <1>12. seen = appeared
    <2>1. ASSUME NEW g \in G
          PROVE  (IF v.seen[g] < 0 /\ g \in Spawned(appeared) THEN n - 1 ELSE v.seen[g]) = appeared[g]
      <3>1. g \in Spawned(appeared) <=> appeared[g] >= 0
        BY DEF Spawned
      <3>2. g \in new => v.seen[g] < 0
        BY <1>6, <1>10 DEF Spawned
      <3>3. v.seen[g] \in Int /\ appeared[g] = IF g \in new THEN n - 1 ELSE v.seen[g]
        BY <1>4, <1>6, <1>10
      <3> QED
        BY <1>11, <3>1, <3>2, <3>3
    <2>2. seen = [g \in G |-> IF v.seen[g] < 0 /\ g \in Spawned(appeared) THEN n - 1 ELSE v.seen[g]]
      BY <1>5, <1>6 DEF Seen
    <2> QED
      BY <1>11, <2>1, <2>2
  <1>13. over \subseteq G
    BY <1>2, <1>7, <1>10 DEF Spawned
  <1>14. r \in Camera /\ r.seen = r.appeared
    BY <1>8, <1>10, <1>11, <1>12, <1>13 DEF Camera
  <1>15. rig' \in Camera /\ rig'.seen = rig'.appeared
    <2>1. PICK w : w = [r EXCEPT !.at = "write"]
      OBVIOUS
    <2>2. w \in Camera /\ w.seen = w.appeared
      BY <1>14, <2>1 DEF Camera
    <2> QED
      BY <1>9, <1>14, <2>1, <2>2
  <1> QED
    BY <1>15, RigSteps DEF Sample, CaptureInv, CaptureTypes

LEMMA PluginSteps ==
    ASSUME CaptureInv, RigStep
    PROVE  CaptureInv'
  <1>1. CASE TakeJob \/ AddGhosts \/ PlaybackDeadline \/ JobThrows
    <2>1. PICK v : v = rig
      OBVIOUS
    <2>2. PICK w : w = Waiting
      OBVIOUS
    <2>3. v \in Camera /\ v.seen = v.appeared /\ w \in Camera /\ w.seen = w.appeared /\ ticket \in Nat
      BY <2>1, <2>2, WaitingType DEF CaptureInv, CaptureTypes, Watched, Camera
    <2>4. \/ rig' = [w EXCEPT !.at = "load", !.ticket = ticket]
          \/ rig' = [v EXCEPT !.at = "sample"] \/ rig' = [v EXCEPT !.at = "write"] \/ rig' = w
      BY <1>1, <2>1, <2>2 DEF TakeJob, AddGhosts, PlaybackDeadline, JobThrows
    <2>5. rig' \in Camera /\ rig'.seen = rig'.appeared
      <3>1. CASE rig' = [w EXCEPT !.at = "load", !.ticket = ticket]
        BY <2>3, <3>1 DEF Camera
      <3>2. CASE rig' = [v EXCEPT !.at = "sample"]
        BY <2>3, <3>2 DEF Camera
      <3>3. CASE rig' = [v EXCEPT !.at = "write"]
        BY <2>3, <3>3 DEF Camera
      <3> QED
        BY <2>3, <2>4, <3>1, <3>2, <3>3
    <2> QED
      BY <1>1, <2>5, RigSteps
      DEF TakeJob, AddGhosts, PlaybackDeadline, JobThrows, CaptureInv, CaptureTypes
  <1>2. CASE LoadFails
    BY <1>2, WrittenDoc DEF LoadFails, Answers
  <1>3. CASE Sample
    BY <1>3, Sampling
  <1>4. CASE WriteOut
    BY <1>4, SampledDoc, WrittenDoc DEF WriteOut
  <1> QED
    BY <1>1, <1>2, <1>3, <1>4 DEF RigStep

\* The driver.
Driving == [at : {"next", "submit", "await", "ended"}, job : 0..Jobs, attempt : Nat,
            streak : 0..FailureLimit]

\* A step that settles nothing.
LEMMA DriverMoves ==
    ASSUME CaptureInv, driver' \in Driving, Settled' = Settled, driver'.streak = driver.streak,
           driver'.at \in {"submit", "await"} => driver'.job >= 1 /\ driver'.streak < FailureLimit,
           UNCHANGED <<rig, artifacts, tally>>, ticket' \in Nat, answer' \in Answers
    PROVE  CaptureInv'
  <1>1. CaptureTypes' /\ Watched'
    BY DEF CaptureInv, CaptureTypes, Watched, Driving
  <1>2. Counted'
    BY DEF CaptureInv, Counted, BreakerStops
  <1>3. Filed'
    BY DEF CaptureInv, Filed, Sound
  <1> QED
    BY <1>1, <1>2, <1>3 DEF CaptureInv

LEMMA Batch ==
    ASSUME CaptureInv, NextJob \/ BatchEnds \/ Submit
    PROVE  CaptureInv'
  <1>1. PICK d : d = driver
    OBVIOUS
  <1>2. d \in Driving /\ answer \in Answers /\ ticket \in Nat /\ NoDoc \in Answers
    BY <1>1 DEF CaptureInv, CaptureTypes, Driving, Answers
  <1>3. CASE NextJob
    <2>1. d.at = "next" /\ d.job < Jobs /\ d.streak < FailureLimit
      BY <1>1, <1>2, <1>3, CaptureAssumption DEF NextJob, Breaker, Driving
    <2>2. PICK n : n = d.job + 1
      OBVIOUS
    <2>3. driver' = [d EXCEPT !.at = "submit", !.job = n, !.attempt = 1]
      BY <1>1, <1>3, <2>2, Zenon DEF NextJob
    <2>4. n \in 0..Jobs /\ d.job \in Nat /\ n >= 1
      BY <1>2, <2>1, <2>2, CaptureAssumption DEF Driving
    <2>5. /\ driver' \in Driving /\ driver'.at = "submit" /\ driver'.job = d.job + 1
          /\ driver'.streak = d.streak /\ d.job \in Nat
      BY <1>2, <2>2, <2>3, <2>4 DEF Driving
    <2>6. Settled' = Settled
      BY <1>1, <2>1, <2>5 DEF Settled
    <2> QED
      BY <1>1, <1>2, <1>3, <2>1, <2>5, <2>6, DriverMoves DEF NextJob
  <1>4. CASE BatchEnds
    <2>1. d.at = "next" /\ driver' = [d EXCEPT !.at = "ended"]
      BY <1>1, <1>4 DEF BatchEnds
    <2>2. driver' \in Driving /\ driver'.at = "ended" /\ driver'.job = d.job /\ driver'.streak = d.streak
      BY <1>2, <2>1 DEF Driving
    <2>3. Settled' = Settled
      BY <1>1, <2>1, <2>2 DEF Settled
    <2> QED
      BY <1>1, <1>2, <1>4, <2>2, <2>3, DriverMoves DEF BatchEnds
  <1>5. CASE Submit
    <2>1. d.at = "submit" /\ driver' = [d EXCEPT !.at = "await"]
      BY <1>1, <1>5 DEF Submit
    <2>2. driver' \in Driving /\ driver'.at = "await" /\ driver'.job = d.job /\ driver'.streak = d.streak
      BY <1>2, <2>1 DEF Driving
    <2>3. Settled' = Settled
      BY <1>1, <2>1, <2>2 DEF Settled
    <2>4. d.job >= 1 /\ d.streak < FailureLimit
      BY <1>1, <2>1 DEF CaptureInv, Counted
    <2> QED
      BY <1>1, <1>2, <1>5, <2>2, <2>3, <2>4, DriverMoves DEF Submit
  <1> QED
    BY <1>3, <1>4, <1>5

\* A settled job: its failure is counted, and telemetry reported ok is sound.
LEMMA Settling ==
    ASSUME CaptureInv, driver.at = "await", NEW status \in {"ok", "skipped", "failed"}, NEW files,
           Settle(status, files),
           \A a \in files : a.job = driver.job /\ (status = "ok" => Sound(a.tele)),
           UNCHANGED <<ticket, rig>>, answer' \in Answers
    PROVE  CaptureInv'
  <1>1. PICK d : d = driver
    OBVIOUS
  <1>2. PICK n : n = IF status \in {"ok", "skipped"} THEN 0 ELSE d.streak + 1
    OBVIOUS
  <1>3. d \in Driving /\ d.at = "await" /\ d.job >= 1 /\ d.streak < FailureLimit
    BY <1>1 DEF CaptureInv, CaptureTypes, Counted, Driving
  <1>4. n \in 0..FailureLimit /\ d.job \in 1..Jobs /\ d.streak \in Nat
    BY <1>2, <1>3, CaptureAssumption DEF Driving
  <1>5. /\ driver' = [d EXCEPT !.at = "next", !.streak = n]
        /\ artifacts' = files
    BY <1>1, <1>2 DEF Settle
  <1>6. /\ driver' \in Driving /\ driver'.at = "next" /\ driver'.job = d.job /\ driver'.streak = n
    BY <1>3, <1>4, <1>5 DEF Driving
  <1>7. tally' = [tally EXCEPT ![d.job] = status] /\ tally \in [1..Jobs -> {"ok", "skipped", "failed", "none"}]
    BY <1>1 DEF Settle, CaptureInv, CaptureTypes
  <1>8. /\ tally' \in [1..Jobs -> {"ok", "skipped", "failed", "none"}] /\ tally'[d.job] = status
        /\ \A j \in 1..Jobs : j # d.job => tally'[j] = tally[j]
    BY <1>4, <1>7
  <1>9. CaptureTypes' /\ Watched'
    BY <1>6, <1>8 DEF CaptureInv, CaptureTypes, Watched, Driving
  <1>10. Settled = d.job - 1 /\ Settled' = d.job
    BY <1>1, <1>3, <1>6 DEF Settled
  <1>11. Counted'
    <2>1. \A j \in 1..Jobs : j > Settled' => tally'[j] = "none"
      BY <1>4, <1>8, <1>10 DEF CaptureInv, Counted
    <2>2. ASSUME NEW j \in 1..Settled', \A i \in j..Settled' : tally'[i] = "failed"
          PROVE  Settled' - j < driver'.streak
      <3>1. tally'[d.job] = "failed" /\ n = d.streak + 1
        BY <1>2, <1>4, <1>8, <1>10, <2>2
      <3>2. CASE j = d.job
        BY <1>4, <1>6, <1>10, <3>1, <3>2
      <3>3. CASE j # d.job
        <4>1. j \in 1..Settled /\ \A i \in j..Settled : tally[i] = "failed"
          BY <1>4, <1>8, <1>10, <2>2, <3>3, CaptureAssumption
        <4>2. Settled - j < d.streak
          BY <1>1, <4>1 DEF CaptureInv, Counted
        <4> QED
          BY <1>4, <1>6, <1>10, <3>1, <4>2
      <3> QED
        BY <3>2, <3>3
    <2>3. ASSUME NEW j \in 1..Jobs, NEW k \in 1..Jobs, j <= k, \A i \in j..k : tally'[i] = "failed"
          PROVE  k - j < FailureLimit
      <3>1. CASE k < d.job
        <4>1. \A i \in j..k : tally[i] = "failed"
          BY <1>4, <1>8, <2>3, <3>1, CaptureAssumption
        <4> QED
          BY <2>3, <4>1 DEF CaptureInv, Counted, BreakerStops
      <3>2. CASE k = d.job
        <4>1. d.job - j < n
          BY <1>4, <1>6, <1>10, <2>2, <2>3, <3>2
        <4> QED
          BY <1>4, <3>2, <4>1, CaptureAssumption
      <3>3. CASE k > d.job
        BY <1>4, <1>10, <2>1, <2>3, <3>3
      <3> QED
        BY <1>4, <3>1, <3>2, <3>3
    <2>4. BreakerStops'
      BY <2>3 DEF BreakerStops
    <2> QED
      BY <1>6, <2>1, <2>2, <2>4 DEF Counted
  <1>12. Filed'
    BY <1>1, <1>4, <1>5, <1>8 DEF Filed, Sound
  <1> QED
    BY <1>9, <1>11, <1>12 DEF CaptureInv

LEMMA Retrying ==
    ASSUME CaptureInv, driver.at = "await", Retry, UNCHANGED <<ticket, rig>>, answer' \in Answers
    PROVE  CaptureInv'
  <1>1. PICK d : d = driver
    OBVIOUS
  <1>2. d \in Driving /\ d.at = "await" /\ d.job >= 1 /\ d.streak < FailureLimit
    BY <1>1 DEF CaptureInv, CaptureTypes, Counted, Driving
  <1>3. PICK n : n = d.attempt + 1
    OBVIOUS
  <1>4. driver' = [d EXCEPT !.at = "submit", !.attempt = n] /\ UNCHANGED <<artifacts, tally>>
    BY <1>1, <1>3, Zenon DEF Retry
  <1>5. n \in Nat
    BY <1>2, <1>3 DEF Driving
  <1>6. driver' \in Driving /\ driver'.at = "submit" /\ driver'.job = d.job /\ driver'.streak = d.streak
    BY <1>2, <1>4, <1>5 DEF Driving
  <1>7. Settled' = Settled
    BY <1>1, <1>2, <1>6 DEF Settled
  <1> QED
    BY <1>1, <1>2, <1>4, <1>6, <1>7, DriverMoves DEF CaptureInv, CaptureTypes

\* What an answer amounts to: telemetry the driver keeps of a job it reports ok is sound.
LEMMA KeptSound ==
    ASSUME CaptureInv, NEW doc \in Loaded, doc.ghosts[1].frames # <<>>, Result(doc) = "ok",
           NEW g \in Kept(doc)
    PROVE  Sound(TelemetryOf(doc.ghosts[g]))
  <1>1. 1 \in G /\ Kept(doc) \subseteq G
    BY CaptureAssumption DEF G, Kept
  <1>2. PICK rec : rec = doc.ghosts[g]
    OBVIOUS
  <1>3. rec \in Recording /\ Drives(rec)
    BY <1>1, <1>2 DEF Loaded
  <1>4. rec.frames # <<>> /\ Anchored(rec.frames, rec.start)
    <2>1. CASE Ghosts > 1
      <3>1. Anchored(rec.frames, rec.start)
        BY <1>2, <2>1 DEF Kept
      <3> QED
        BY <1>3, <3>1 DEF Anchored, Recording
    <2>2. CASE ~(Ghosts > 1)
      <3>1. g = 1 /\ TelemetryOf(rec).checkpoints # <<>>
        BY <1>2, <2>2 DEF Kept, Result
      <3> QED
        BY <1>2, <1>3, <3>1, Telemetry
    <2> QED
      BY <2>1, <2>2
  <1> QED
    BY <1>2, <1>3, <1>4, Telemetry DEF Sound

LEMMA Concluding ==
    ASSUME CaptureInv, Await \/ WallDeadline
    PROVE  CaptureInv'
  <1>1. driver.at = "await" /\ UNCHANGED <<ticket, rig>> /\ answer \in Answers /\ answer' \in Answers
    BY DEF Await, WallDeadline, CaptureInv, CaptureTypes, Answers
  <1>2. ASSUME NEW status \in {"failed", "skipped"}, Settle(status, {})
        PROVE  CaptureInv'
    BY <1>1, <1>2, Settling
  <1>3. ASSUME Retry PROVE CaptureInv'
    BY <1>1, <1>3, Retrying
  <1>4. ASSUME Await, AttemptStatus(answer) \in {"ok", "unanchored"},
               Settle(Result(answer), {[job |-> driver.job, ghost |-> g, tele |-> TelemetryOf(answer.ghosts[g])]
                                         : g \in Kept(answer)})
        PROVE  CaptureInv'
    <2>1. answer \in Loaded /\ answer.ghosts[1].frames # <<>>
      <3>1. answer \in {LoadError, NoGhost} \cup Loaded
        BY <1>1, <1>4 DEF Await, Answers
      <3>2. ~LoadError.loaded /\ ~NoGhost.loaded
        BY DEF LoadError, NoGhost
      <3>3. AttemptStatus(LoadError) \in {"skipped", "failed"}
        BY <3>2, Zenon DEF AttemptStatus
      <3>4. AttemptStatus(NoGhost) \in {"skipped", "failed"}
        BY <3>2, Zenon DEF AttemptStatus
      <3>5. answer \in Loaded
        BY <1>4, <3>1, <3>3, <3>4
      <3>6. answer.loaded
        BY <3>5 DEF Loaded
      <3> QED
        BY <1>4, <3>5, <3>6 DEF AttemptStatus
    <2>2. Result(answer) \in {"ok", "skipped", "failed"}
      BY DEF Result
    <2>3. PICK files : files = {[job |-> driver.job, ghost |-> g, tele |-> TelemetryOf(answer.ghosts[g])]
                                  : g \in Kept(answer)}
      OBVIOUS
    <2>4. \A a \in files : a.job = driver.job /\ (Result(answer) = "ok" => Sound(a.tele))
      BY <2>1, <2>3, KeptSound
    <2>5. PICK status : status = Result(answer)
      OBVIOUS
    <2>6. Settle(status, files)
      BY <1>4, <2>3, <2>5
    <2> QED
      BY <1>1, <2>2, <2>4, <2>5, <2>6, Settling
  <1>5. CASE WallDeadline
    BY <1>2, <1>3, <1>5 DEF WallDeadline, Conclude
  <1>6. CASE Await
    BY <1>2, <1>3, <1>4, <1>6 DEF Await, Conclude
  <1> QED
    BY <1>5, <1>6

LEMMA CaptureStarts == CaptureInit => CaptureInv
  <1> SUFFICES ASSUME CaptureInit PROVE CaptureInv
    OBVIOUS
  <1>1. CaptureTypes /\ Watched
    BY WaitingType, CaptureAssumption DEF CaptureInit, CaptureTypes, Watched, Camera, Answers
  <1>2. Settled = 0 /\ \A j \in 1..Jobs : tally[j] = "none"
    BY DEF CaptureInit, Settled
  <1>3. Counted
    BY <1>2, CaptureAssumption DEF CaptureInit, Counted, BreakerStops
  <1>4. Filed
    BY DEF CaptureInit, Filed
  <1> QED
    BY <1>1, <1>3, <1>4 DEF CaptureInv

LEMMA CaptureSteps == CaptureInv /\ [CaptureNext]_captureVars => CaptureInv'
  <1> SUFFICES ASSUME CaptureInv, [CaptureNext]_captureVars PROVE CaptureInv'
    OBVIOUS
  <1>1. CASE RigStep
    BY <1>1, PluginSteps
  <1>2. CASE NextJob \/ BatchEnds \/ Submit
    BY <1>2, Batch
  <1>3. CASE Await \/ WallDeadline
    BY <1>3, Concluding
  <1>4. CASE UNCHANGED captureVars
    BY <1>4 DEF captureVars, CaptureInv, CaptureTypes, Watched, Counted, Settled, BreakerStops,
                Filed, Sound
  <1> QED
    BY <1>1, <1>2, <1>3, <1>4 DEF CaptureNext, DriverStep

\* For any number of jobs, ghosts, retries and samples: telemetry of a job reported ok is
\* anchored where its ghost appeared, no ghost's appearance is missed, and failures in a
\* row never exceed the circuit breaker's limit (openplanet_adapter.py:165, Main.as:583,
\* capture_replay_telemetry.py:398).
THEOREM CapturesAreSound == CaptureSpec => [](CaptureInv /\ CapturesSound)
  <1>1. CaptureInv => CapturesSound
    BY DEF CaptureInv, CaptureTypes, CapturesSound, OkIsAnchored, LateGhostAnchored, Filed, Sound,
           Watched, Counted
  <1> QED
    BY <1>1, CaptureStarts, CaptureSteps, PTL DEF CaptureSpec

-----------------------------------------------------------------------------
(* The rules of replay cleaning.  A rule's loop is a recursive function;   *)
(* what it computes is proved of its least counterexample.                 *)

LEMMA GreatestIs ==
    ASSUME NEW V, V \subseteq Int, IsFiniteSet(V), NEW d \in Int
    PROVE  /\ Greatest(V, d) \in V \cup {d} /\ Greatest(V, d) \in Int
           /\ \A w \in V \cup {d} : Greatest(V, d) >= w
  <1>1. IsFiniteSet(V \cup {d}) /\ V \cup {d} \subseteq Int /\ V \cup {d} # {}
    BY FS_AddElement
  <1>2. \E v \in V \cup {d} : \A w \in V \cup {d} : v >= w
    BY <1>1, Extremes
  <1> QED
    BY <1>1, <1>2 DEF Greatest

LEMMA LimitTypes ==
    /\ Limits.minSamples \in Nat /\ Limits.minDuration \in Nat /\ Limits.hardGap \in Nat
    /\ Limits.softGap \in Nat /\ Limits.maxDelta \in Nat /\ Limits.softDelta \in Nat
    /\ Limits.maxSpeed \in Nat /\ Limits.hardCap \in Nat /\ Limits.maxSpikes \in Nat
    /\ Limits.minMotion \in Nat /\ Limits.rejectRestarts \in Nat /\ Limits.warnRestarts \in Nat
    /\ Limits.minDistance \in Nat /\ Limits.minInputs \in Nat /\ Limits.minRate \in Nat
    /\ Limits.hardCrumbGap \in Nat /\ Limits.gapFactor \in Nat
    /\ Limits.rejectIdle \in Nat \ {0} /\ Limits.warnIdle \in Nat \ {0}
  BY CleaningAssumption

\* The worst gap is over a limit when a gap is.
LEMMA WorstOver ==
    ASSUME NEW lo \in Int, NEW hi \in Int, NEW f \in [lo .. hi -> Int], NEW limit \in Nat
    PROVE  Greatest({f[i] : i \in lo .. hi}, 0) > limit <=> \E i \in lo .. hi : f[i] > limit
  <1> DEFINE V == {f[i] : i \in lo .. hi}
  <1>1. V \subseteq Int /\ IsFiniteSet(V)
    <2>1. f \in Surjection(lo .. hi, V)
      BY DEF Surjection
    <2>2. IsFiniteSet(lo .. hi)
      BY FS_Interval
    <2> QED
      BY <2>1, <2>2, FS_Surjection
  <1>2. PICK g : g = Greatest(V, 0)
    OBVIOUS
  <1>3. g \in V \cup {0} /\ g \in Int /\ \A w \in V \cup {0} : g >= w
    <2> HIDE DEF V
    <2>1. 0 \in Int
      OBVIOUS
    <2>2. /\ Greatest(V, 0) \in V \cup {0} /\ Greatest(V, 0) \in Int
          /\ \A w \in V \cup {0} : Greatest(V, 0) >= w
      BY <1>1, <2>1, GreatestIs
    <2> QED
      BY <1>2, <2>2
  <1>4. ASSUME g > limit PROVE \E i \in lo .. hi : f[i] > limit
    <2>1. g \in V
      BY <1>3, <1>4
    <2>2. PICK i \in lo .. hi : g = f[i]
      BY <2>1
    <2> HIDE DEF V
    <2> QED
      BY <1>4, <2>2
  <1>5. ASSUME NEW i \in lo .. hi, f[i] > limit PROVE g > limit
    <2>1. f[i] \in V \cup {0} /\ f[i] \in Int
      OBVIOUS
    <2> HIDE DEF V
    <2>2. g >= f[i] /\ g \in Int
      BY <1>3, <2>1
    <2>3. limit \in Int
      OBVIOUS
    <2> QED
      BY <1>5, <2>1, <2>2, <2>3
  <1> HIDE DEF V
  <1>6. Greatest({f[i] : i \in lo .. hi}, 0) = g
    BY <1>2 DEF V
  <1> QED
    BY <1>4, <1>5, <1>6

\* The idle windows that have ended or run on at sample i, as the loop sees them.
IdleAt(s, w, i) ==
    IF Moved(s, i) >= Limits.minMotion THEN [w EXCEPT !.start = s.time[i]]
    ELSE [w EXCEPT !.worst = Greatest({s.time[i] - w.start}, @)]
IdleUpTo(s, n, g) ==
    g = [i \in 1 .. n |-> IF i = 1 THEN [start |-> s.time[1], worst |-> 0] ELSE IdleAt(s, g[i - 1], i)]

LEMMA IdleExists ==
    ASSUME NEW s, NEW n \in Nat
    PROVE  \E g : IdleUpTo(s, n, g)
  <1> DEFINE T == {k \in Nat : ~ \E g : IdleUpTo(s, k, g)}
  <1> SUFFICES ASSUME T # {} PROVE FALSE
    OBVIOUS
  <1>1. PICK k \in T : \A m \in T : k <= m
    BY LeastNat
  <1>2. k # 0
    <2> DEFINE g == [i \in 1 .. 0 |-> 0]
    <2>1. IdleUpTo(s, 0, g)
      BY DEF IdleUpTo
    <2> QED
      BY <1>1, <2>1
  <1>3. k - 1 \in Nat /\ k - 1 \notin T
    BY <1>1, <1>2
  <1>4. PICK g : IdleUpTo(s, k - 1, g)
    BY <1>3
  <1> DEFINE first == [start |-> s.time[1], worst |-> 0]
             h == [i \in 1 .. k |-> IF i < k THEN g[i] ELSE IF k = 1 THEN first ELSE IdleAt(s, g[k - 1], k)]
  <1>5. \A i \in 1 .. k - 1 : g[i] = IF i = 1 THEN first ELSE IdleAt(s, g[i - 1], i)
    BY <1>4 DEF IdleUpTo
  <1>6. \A i \in 1 .. k - 1 : h[i] = g[i]
    BY <1>3
  <1>7. ASSUME NEW i \in 1 .. k
        PROVE  h[i] = IF i = 1 THEN first ELSE IdleAt(s, h[i - 1], i)
    <2>1. CASE i < k
      <3>1. i \in 1 .. k - 1 /\ (i # 1 => i - 1 \in 1 .. k - 1)
        BY <1>3, <2>1
      <3> HIDE DEF h, first
      <3> QED
        BY <1>5, <1>6, <3>1
    <2>2. CASE i = k
      <3>1. h[k] = (IF k = 1 THEN first ELSE IdleAt(s, g[k - 1], k)) /\ (k # 1 => k - 1 \in 1 .. k - 1)
        BY <1>3
      <3> HIDE DEF h, first
      <3> QED
        BY <1>6, <2>2, <3>1
    <2> QED
      BY <1>3, <2>1, <2>2
  <1>8. h = [i \in 1 .. k |-> IF i = 1 THEN first ELSE IdleAt(s, h[i - 1], i)]
    BY <1>7
  <1> HIDE DEF h
  <1> QED
    BY <1>1, <1>8 DEF IdleUpTo

LEMMA IdleWindowIs ==
    ASSUME NEW s, s.time \in Seq(Int)
    PROVE  \E g : IdleUpTo(s, Len(s.time), g) /\ IdleWindow(s) = g[Len(s.time)].worst
  <1> DEFINE n == Len(s.time)
             w == CHOOSE g : IdleUpTo(s, n, g)
  <1>1. IdleWindow(s) = w[n].worst
    BY DEF IdleWindow, IdleUpTo, IdleAt
  <1>2. n \in Nat
    OBVIOUS
  <1>3. \E g : IdleUpTo(s, n, g)
    BY <1>2, IdleExists
  <1>4. IdleUpTo(s, n, w)
    BY <1>3
  <1> QED
    BY <1>1, <1>4

\* Neighbours in order put all in order.
LEMMA NeighboursOrder ==
    ASSUME NEW f \in Seq(Int), \A i \in 2 .. Len(f) : f[i - 1] <= f[i]
    PROVE  \A a, b \in 1 .. Len(f) : a <= b => f[a] <= f[b]
  <1> SUFFICES ASSUME NEW a \in 1 .. Len(f), NEW b \in 1 .. Len(f), a <= b, ~(f[a] <= f[b])
               PROVE  FALSE
    OBVIOUS
  <1> DEFINE T == {m \in 1 .. Len(f) : a <= m /\ ~(f[a] <= f[m])}
  <1>1. T \subseteq Nat /\ b \in T
    OBVIOUS
  <1>2. PICK m \in T : \A k \in T : m <= k
    BY <1>1, LeastNat
  <1>3. m \in 1 .. Len(f) /\ a <= m /\ ~(f[a] <= f[m])
    OBVIOUS
  <1>4. m # a
    BY <1>3
  <1>5. m - 1 \in 1 .. Len(f) /\ a <= m - 1 /\ m \in 2 .. Len(f) /\ m - 1 < m
    BY <1>3, <1>4
  <1>6. m - 1 \notin T
    BY <1>2, <1>5
  <1>7. f[a] <= f[m - 1]
    BY <1>5, <1>6
  <1>8. f[m - 1] <= f[m] /\ f[a] \in Int /\ f[m - 1] \in Int /\ f[m] \in Int
    BY <1>3, <1>5
  <1> QED
    BY <1>3, <1>7, <1>8

LEMMA MovedType ==
    ASSUME NEW s, TelemetryLoads(s)
    PROVE  /\ Len(s.time) \in Nat \ {0}
           /\ \A i \in 1 .. Len(s.time) : s.time[i] \in Int
           /\ \A i \in Steps(s) : Moved(s, i) \in Nat /\ Gap(s, i) \in Int
  <1>1. s.time \in Seq(Int) /\ s.time # << >> /\ s.pos \in Seq(Int) /\ Len(s.pos) = Len(s.time)
    BY DEF TelemetryLoads
  <1>2. Len(s.time) \in Nat \ {0} /\ \A i \in 1 .. Len(s.time) : s.time[i] \in Int /\ s.pos[i] \in Int
    BY <1>1
  <1>3. ASSUME NEW i \in Steps(s) PROVE Moved(s, i) \in Nat /\ Gap(s, i) \in Int
    <2>1. i \in 1 .. Len(s.time) /\ i - 1 \in 1 .. Len(s.time)
      BY <1>2, <1>3 DEF Steps
    <2>2. s.pos[i] \in Int /\ s.pos[i - 1] \in Int /\ s.time[i] \in Int /\ s.time[i - 1] \in Int
      BY <1>2, <2>1
    <2> QED
      BY <2>2 DEF Moved, Gap
  <1> QED
    BY <1>2, <1>3

\* Where the open window started, the worst window so far, and, on a clock that
\* does not run backwards, that there was none longer.
StartOk(s, w, i) ==
    \E k \in 1 .. i : w.start = s.time[k] /\ Stood(s, k, i) /\ (k = 1 \/ Moved(s, k) >= Limits.minMotion)
WorstMet(s, w, i) ==
    w.worst > 0 => \E a, b \in 1 .. i : a < b /\ Stood(s, a, b) /\ s.time[b] - s.time[a] = w.worst
WorstBounds(s, w, i) ==
    (\A j \in Steps(s) : Gap(s, j) >= 0) =>
        \A a, b \in 1 .. i : a < b /\ Stood(s, a, b) => w.worst >= s.time[b] - s.time[a]
IdleOk(s, w, i) ==
    /\ w \in [start : Int, worst : Nat] /\ StartOk(s, w, i) /\ WorstMet(s, w, i) /\ WorstBounds(s, w, i)

LEMMA IdleStarts ==
    ASSUME NEW s, TelemetryLoads(s), NEW w, w = [start |-> s.time[1], worst |-> 0]
    PROVE  IdleOk(s, w, 1)
  <1>1. w.worst = 0 /\ w.start = s.time[1]
    OBVIOUS
  <1>2. StartOk(s, w, 1)
    BY <1>1 DEF StartOk, Stood
  <1>3. WorstMet(s, w, 1) /\ WorstBounds(s, w, 1)
    BY <1>1 DEF WorstMet, WorstBounds
  <1>4. w \in [start : Int, worst : Nat]
    <2>1. s.time[1] \in Int
      BY MovedType
    <2> QED
      BY <2>1
  <1> QED
    BY <1>2, <1>3, <1>4 DEF IdleOk

LEMMA IdleMoves ==
    ASSUME NEW s, TelemetryLoads(s), NEW i \in Steps(s), NEW w, NEW v, IdleOk(s, w, i - 1),
           Moved(s, i) >= Limits.minMotion, v = [start |-> s.time[i], worst |-> w.worst]
    PROVE  IdleOk(s, v, i)
  <1>0. Moved(s, i) \in Nat /\ Limits.minMotion \in Nat /\ Len(s.time) \in Nat
    BY MovedType, LimitTypes
  <1>1. i \in Nat \ {0, 1} /\ Moved(s, i) \in Nat /\ Limits.minMotion \in Nat
    BY <1>0 DEF Steps
  <1>2. StartOk(s, v, i)
    <2>1. i \in 1 .. i /\ Stood(s, i, i)
      BY <1>1 DEF Stood
    <2> QED
      BY <2>1 DEF StartOk
  <1>3. WorstMet(s, v, i)
    <2> SUFFICES ASSUME v.worst > 0
                 PROVE  \E a, b \in 1 .. i : a < b /\ Stood(s, a, b) /\ s.time[b] - s.time[a] = v.worst
      BY DEF WorstMet
    <2>1. PICK a \in 1 .. i - 1, b \in 1 .. i - 1 :
              a < b /\ Stood(s, a, b) /\ s.time[b] - s.time[a] = w.worst
      BY DEF IdleOk, WorstMet
    <2>2. a \in 1 .. i /\ b \in 1 .. i
      BY <1>1
    <2> QED
      BY <2>1, <2>2
  <1>4. WorstBounds(s, v, i)
    <2> SUFFICES ASSUME \A j \in Steps(s) : Gap(s, j) >= 0,
                        NEW a \in 1 .. i, NEW b \in 1 .. i, a < b, Stood(s, a, b)
                 PROVE  v.worst >= s.time[b] - s.time[a]
      BY DEF WorstBounds
    <2>1. b # i
      <3>1. b = i => i \in a + 1 .. b
        BY <1>1
      <3> QED
        BY <1>1, <3>1 DEF Stood
    <2>2. a \in 1 .. i - 1 /\ b \in 1 .. i - 1
      BY <1>1, <2>1
    <2>3. w.worst >= s.time[b] - s.time[a]
      BY <2>2 DEF IdleOk, WorstBounds
    <2> QED
      BY <2>3
  <1>5. v \in [start : Int, worst : Nat]
    <2>1. s.time[i] \in Int /\ w.worst \in Nat
      BY MovedType DEF IdleOk, Steps
    <2> QED
      BY <2>1
  <1> QED
    BY <1>2, <1>3, <1>4, <1>5 DEF IdleOk

LEMMA IdleStays ==
    ASSUME NEW s, TelemetryLoads(s), NEW i \in Steps(s), NEW w, NEW v, IdleOk(s, w, i - 1),
           ~(Moved(s, i) >= Limits.minMotion),
           v = [start |-> w.start, worst |-> Greatest({s.time[i] - w.start}, w.worst)]
    PROVE  IdleOk(s, v, i)
  <1>0. Moved(s, i) \in Nat /\ Limits.minMotion \in Nat /\ Len(s.time) \in Nat
    BY MovedType, LimitTypes
  <1>1. i \in Nat \ {0, 1} /\ i - 1 \in Nat /\ Moved(s, i) < Limits.minMotion /\ i <= Len(s.time)
        /\ Len(s.time) \in Nat
    BY <1>0 DEF Steps
  <1>2. PICK k \in 1 .. i - 1 : w.start = s.time[k] /\ Stood(s, k, i - 1) /\ (k = 1 \/ Moved(s, k) >= Limits.minMotion)
    BY DEF IdleOk, StartOk
  <1>3. k \in 1 .. i /\ k < i /\ i \in 1 .. i /\ k \in 1 .. Len(s.time) /\ i \in 1 .. Len(s.time)
    BY <1>1
  <1>4. Stood(s, k, i)
    <2> SUFFICES ASSUME NEW j \in k + 1 .. i PROVE Moved(s, j) < Limits.minMotion
      BY DEF Stood
    <2>1. j = i \/ j \in k + 1 .. i - 1
      BY <1>1, <1>3
    <2> QED
      BY <1>1, <1>2, <2>1 DEF Stood
  <1>5. PICK d : d = s.time[i] - s.time[k]
    OBVIOUS
  <1>6. d \in Int /\ w.worst \in Nat /\ w.worst \in Int
    BY <1>3, <1>5, MovedType DEF IdleOk
  <1>7. v.worst \in {d} \cup {w.worst} /\ v.worst \in Int /\ \A u \in {d} \cup {w.worst} : v.worst >= u
    <2>1. {d} \subseteq Int /\ IsFiniteSet({d})
      BY <1>6, FS_Singleton
    <2>2. v.worst = Greatest({d}, w.worst)
      BY <1>2, <1>5
    <2> QED
      BY <1>6, <2>1, <2>2, GreatestIs
  <1>8. v.worst >= d /\ v.worst >= w.worst /\ (v.worst = d \/ v.worst = w.worst) /\ v.worst \in Nat
    BY <1>6, <1>7
  <1>9. StartOk(s, v, i)
    BY <1>2, <1>3, <1>4 DEF StartOk
  <1>10. WorstMet(s, v, i)
    <2> SUFFICES ASSUME v.worst > 0
                 PROVE  \E a, b \in 1 .. i : a < b /\ Stood(s, a, b) /\ s.time[b] - s.time[a] = v.worst
      BY DEF WorstMet
    <2>1. CASE v.worst = d
      BY <1>3, <1>4, <1>5, <2>1
    <2>2. CASE v.worst = w.worst
      <3>1. PICK a \in 1 .. i - 1, b \in 1 .. i - 1 :
                a < b /\ Stood(s, a, b) /\ s.time[b] - s.time[a] = w.worst
        BY <2>2 DEF IdleOk, WorstMet
      <3>2. a \in 1 .. i /\ b \in 1 .. i
        BY <1>1
      <3> QED
        BY <2>2, <3>1, <3>2
    <2> QED
      BY <1>8, <2>1, <2>2
  <1>11. WorstBounds(s, v, i)
    <2> SUFFICES ASSUME \A j \in Steps(s) : Gap(s, j) >= 0,
                        NEW a \in 1 .. i, NEW b \in 1 .. i, a < b, Stood(s, a, b)
                 PROVE  v.worst >= s.time[b] - s.time[a]
      BY DEF WorstBounds
    <2>0. a \in 1 .. Len(s.time) /\ b \in 1 .. Len(s.time)
      BY <1>1
    <2>1. s.time[a] \in Int /\ s.time[b] \in Int /\ s.time[k] \in Int /\ s.time[i] \in Int
      BY <1>3, <2>0, MovedType
    <2>2. CASE b # i
      <3>1. a \in 1 .. i - 1 /\ b \in 1 .. i - 1
        BY <1>1, <2>2
      <3>2. w.worst >= s.time[b] - s.time[a]
        BY <3>1 DEF IdleOk, WorstBounds
      <3> QED
        BY <1>6, <1>8, <2>1, <3>2
    <2>3. CASE b = i
      <3>1. k <= a
        <4>1. SUFFICES ASSUME a < k PROVE FALSE
          BY <1>1
        <4>2. k \in a + 1 .. b /\ k # 1 /\ k \in Steps(s)
          BY <1>1, <1>3, <2>3, <4>1 DEF Steps
        <4>3. Moved(s, k) < Limits.minMotion /\ Moved(s, k) >= Limits.minMotion
          BY <1>2, <4>2 DEF Stood
        <4> QED
          BY <4>2, <4>3, MovedType, LimitTypes
      <3>2. s.time[k] <= s.time[a]
        <4>1. s.time \in Seq(Int)
          BY DEF TelemetryLoads
        <4>2. \A j \in 2 .. Len(s.time) : s.time[j - 1] <= s.time[j]
          <5> SUFFICES ASSUME NEW j \in 2 .. Len(s.time) PROVE s.time[j - 1] <= s.time[j]
            OBVIOUS
          <5>1. j \in Steps(s) /\ j \in 1 .. Len(s.time) /\ j - 1 \in 1 .. Len(s.time)
            BY <1>1 DEF Steps
          <5>2. s.time[j] - s.time[j - 1] >= 0
            BY <5>1 DEF Gap
          <5>3. s.time[j] \in Int /\ s.time[j - 1] \in Int
            BY <5>1, MovedType
          <5> QED
            BY <5>2, <5>3
        <4> QED
          BY <1>3, <2>0, <3>1, <4>1, <4>2, NeighboursOrder
      <3> QED
        BY <1>5, <1>6, <1>8, <2>1, <2>3, <3>2
    <2> QED
      BY <2>2, <2>3
  <1>12. v \in [start : Int, worst : Nat]
    <2>1. w.start \in Int
      BY DEF IdleOk
    <2> QED
      BY <1>8, <2>1
  <1> QED
    BY <1>9, <1>10, <1>11, <1>12 DEF IdleOk

LEMMA IdleWindowOk ==
    ASSUME NEW s, TelemetryLoads(s)
    PROVE  \E w : IdleWindow(s) = w.worst /\ IdleOk(s, w, Len(s.time))
  <1>1. s.time \in Seq(Int) /\ Len(s.time) \in Nat \ {0}
    BY MovedType DEF TelemetryLoads
  <1>2. PICK n \in Nat \ {0} : n = Len(s.time)
    BY <1>1
  <1>3. PICK g : IdleUpTo(s, n, g) /\ IdleWindow(s) = g[n].worst
    BY <1>1, <1>2, IdleWindowIs
  <1>4. \A i \in 1 .. n : g[i] = IF i = 1 THEN [start |-> s.time[1], worst |-> 0] ELSE IdleAt(s, g[i - 1], i)
    BY <1>3 DEF IdleUpTo
  <1> DEFINE T == {i \in 1 .. n : ~IdleOk(s, g[i], i)}
  <1>5. T = {}
    <2> SUFFICES ASSUME T # {} PROVE FALSE
      OBVIOUS
    <2>0. T \subseteq Nat
      OBVIOUS
    <2>1. PICK i \in T : \A m \in T : i <= m
      BY <2>0, LeastNat
    <2>2. i \in 1 .. n /\ ~IdleOk(s, g[i], i)
      OBVIOUS
    <2>3. i # 1
      <3>1. i = 1 => g[i] = [start |-> s.time[1], worst |-> 0]
        BY <1>4
      <3> QED
        BY <2>2, <3>1, IdleStarts
    <2>4. i \in Steps(s) /\ i - 1 \in 1 .. n /\ ~(i <= i - 1)
      BY <1>2, <2>2, <2>3 DEF Steps
    <2>5. IdleOk(s, g[i - 1], i - 1)
      BY <2>1, <2>4
    <2>6. g[i] = IdleAt(s, g[i - 1], i)
      BY <1>4, <2>2, <2>3
    <2>7. PICK w : w = g[i - 1]
      OBVIOUS
    <2>8. PICK v : v = g[i]
      OBVIOUS
    <2>9. v = IF Moved(s, i) >= Limits.minMotion THEN [w EXCEPT !.start = s.time[i]]
              ELSE [w EXCEPT !.worst = Greatest({s.time[i] - w.start}, @)]
      BY <2>6, <2>7, <2>8 DEF IdleAt
    <2>10. w \in [start : Int, worst : Nat] /\ IdleOk(s, w, i - 1)
      BY <2>5, <2>7 DEF IdleOk
    <2>11. CASE Moved(s, i) >= Limits.minMotion
      <3>1. v = [start |-> s.time[i], worst |-> w.worst]
        BY <2>9, <2>10, <2>11
      <3> QED
        BY <2>2, <2>4, <2>8, <2>10, <2>11, <3>1, IdleMoves
    <2>12. CASE ~(Moved(s, i) >= Limits.minMotion)
      <3>1. v = [start |-> w.start, worst |-> Greatest({s.time[i] - w.start}, w.worst)]
        BY <2>9, <2>10, <2>12
      <3> QED
        BY <2>2, <2>4, <2>8, <2>10, <2>12, <3>1, IdleStays
    <2> QED
      BY <2>11, <2>12
  <1>6. IdleOk(s, g[n], n)
    BY <1>5
  <1> HIDE DEF T
  <1> QED
    BY <1>2, <1>3, <1>6

\* A window of at least so long is found exactly when there was one, as long as
\* the clock does not run backwards.
IdleFor(s, l) == \E i, j \in DOMAIN s.time : i < j /\ Stood(s, i, j) /\ s.time[j] - s.time[i] >= l
ClockRuns(s) == \A j \in Steps(s) : Gap(s, j) >= 0

LEMMA IdleDecides ==
    ASSUME NEW s, TelemetryLoads(s), NEW l \in Nat \ {0}
    PROVE  /\ IdleWindow(s) \in Nat
           /\ IdleWindow(s) >= l => IdleFor(s, l)
           /\ ClockRuns(s) /\ IdleFor(s, l) => IdleWindow(s) >= l
  <1>1. PICK w : IdleWindow(s) = w.worst /\ IdleOk(s, w, Len(s.time))
    BY IdleWindowOk
  <1>2. w.worst \in Nat
    BY <1>1 DEF IdleOk
  <1>3. DOMAIN s.time = 1 .. Len(s.time)
    BY DEF TelemetryLoads
  <1>4. ASSUME IdleWindow(s) >= l PROVE IdleFor(s, l)
    <2>1. w.worst > 0
      BY <1>1, <1>2, <1>4
    <2>2. PICK a \in 1 .. Len(s.time), b \in 1 .. Len(s.time) :
              a < b /\ Stood(s, a, b) /\ s.time[b] - s.time[a] = w.worst
      BY <1>1, <2>1 DEF IdleOk, WorstMet
    <2> QED
      BY <1>1, <1>3, <1>4, <2>2 DEF IdleFor
  <1>5. ASSUME ClockRuns(s), IdleFor(s, l) PROVE IdleWindow(s) >= l
    <2>1. PICK a \in 1 .. Len(s.time), b \in 1 .. Len(s.time) :
              a < b /\ Stood(s, a, b) /\ s.time[b] - s.time[a] >= l
      BY <1>3, <1>5 DEF IdleFor
    <2>2. w.worst >= s.time[b] - s.time[a]
      BY <1>1, <1>5, <2>1 DEF IdleOk, WorstBounds, ClockRuns
    <2>3. s.time[a] \in Int /\ s.time[b] \in Int
      BY MovedType
    <2> QED
      BY <1>1, <1>2, <2>1, <2>2, <2>3
  <1> QED
    BY <1>1, <1>2, <1>4, <1>5

\* The positions of a sequence over a limit are more than so many exactly when
\* some set of that many is.
LEMMA ManyOver ==
    ASSUME NEW f \in Seq(Nat), NEW limit \in Nat, NEW most \in Nat
    PROVE  /\ Cardinality({i \in DOMAIN f : f[i] > limit}) > most
                  => \E F \in SUBSET DOMAIN f : Cardinality(F) > most /\ \A i \in F : f[i] > limit
           /\ (\E F \in SUBSET DOMAIN f : Cardinality(F) > most /\ \A i \in F : f[i] > limit)
                  => Cardinality({i \in DOMAIN f : f[i] > limit}) > most
           /\ Cardinality({i \in DOMAIN f : f[i] > limit}) > 0 => \E i \in DOMAIN f : f[i] > limit
           /\ (\E i \in DOMAIN f : f[i] > limit) => Cardinality({i \in DOMAIN f : f[i] > limit}) > 0
  <1>1. PICK O : O = {i \in DOMAIN f : f[i] > limit}
    OBVIOUS
  <1>2. DOMAIN f = 1 .. Len(f) /\ Len(f) \in Nat
    OBVIOUS
  <1>3. IsFiniteSet(DOMAIN f)
    BY <1>2, FS_Interval
  <1>4. O \subseteq DOMAIN f /\ \A i \in O : f[i] > limit
    BY <1>1
  <1>5. IsFiniteSet(O) /\ Cardinality(O) \in Nat
    BY <1>3, <1>4, FS_Subset, FS_CardinalityType
  <1>6. ASSUME NEW F \in SUBSET DOMAIN f, Cardinality(F) > most, \A i \in F : f[i] > limit
        PROVE  Cardinality(O) > most
    <2>1. F \subseteq O
      BY <1>1, <1>6
    <2>2. Cardinality(F) <= Cardinality(O) /\ Cardinality(F) \in Nat
      BY <1>5, <2>1, FS_Subset, FS_CardinalityType
    <2> QED
      BY <1>5, <1>6, <2>2
  <1>7. Cardinality(O) > 0 => O # {}
    BY <1>5, FS_EmptySet
  <1>8. O # {} => Cardinality(O) > 0
    BY <1>5, FS_EmptySet
  <1>9. ASSUME NEW i \in DOMAIN f, f[i] > limit PROVE O # {}
    BY <1>1, <1>9
  <1>10. O # {} => \E i \in DOMAIN f : f[i] > limit
    BY <1>4
  <1> QED
    BY <1>1, <1>4, <1>6, <1>7, <1>8, <1>9, <1>10

\* Which rule rejects, and which warns, stated for every rule by its own limit.
LEMMA GapsOver ==
    ASSUME NEW s, TelemetryLoads(s), NEW limit \in Nat
    PROVE  Greatest({Gap(s, i) : i \in Steps(s)}, 0) > limit <=> \E i \in Steps(s) : Gap(s, i) > limit
  <1>1. PICK n \in Nat : n = Len(s.time)
    BY MovedType
  <1>2. Steps(s) = 2 .. n
    BY <1>1 DEF Steps
  <1>3. PICK f : f = [i \in 2 .. n |-> Gap(s, i)]
    OBVIOUS
  <1>4. \A i \in 2 .. n : Gap(s, i) \in Int
    BY <1>2, MovedType
  <1>5. f \in [2 .. n -> Int]
    BY <1>3, <1>4
  <1>6. {f[i] : i \in 2 .. n} = {Gap(s, i) : i \in Steps(s)}
    BY <1>2, <1>3
  <1>7. 2 \in Int /\ n \in Int
    OBVIOUS
  <1>8. Greatest({f[i] : i \in 2 .. n}, 0) > limit <=> \E i \in 2 .. n : f[i] > limit
    BY <1>5, <1>7, WorstOver
  <1>9. (\E i \in 2 .. n : f[i] > limit) <=> \E i \in Steps(s) : Gap(s, i) > limit
    BY <1>2, <1>3
  <1> QED
    BY <1>6, <1>8, <1>9

HardTiming(s) == \E i \in Steps(s) : Gap(s, i) < 0 \/ Gap(s, i) > Limits.hardGap
LEMMA TimingRejects ==
    ASSUME NEW s, TelemetryLoads(s)
    PROVE  /\ InvalidTimingRule(s) = "reject" <=> HardTiming(s)
           /\ ~HardTiming(s) =>
                  (InvalidTimingRule(s) = "warn" <=> \E i \in Steps(s) : Gap(s, i) > Limits.softGap)
  <1>1. Limits.hardGap \in Nat /\ Limits.softGap \in Nat
    BY LimitTypes
  <1>2. PICK worst : worst = Greatest({Gap(s, i) : i \in Steps(s)}, 0)
    OBVIOUS
  <1>3. /\ worst > Limits.hardGap <=> \E i \in Steps(s) : Gap(s, i) > Limits.hardGap
        /\ worst > Limits.softGap <=> \E i \in Steps(s) : Gap(s, i) > Limits.softGap
    BY <1>1, <1>2, GapsOver
  <1>4. InvalidTimingRule(s) =
            IF (\E i \in Steps(s) : Gap(s, i) < 0) \/ worst > Limits.hardGap THEN "reject"
            ELSE IF worst > Limits.softGap THEN "warn" ELSE "pass"
    BY <1>2 DEF InvalidTimingRule
  <1> QED
    BY <1>3, <1>4 DEF HardTiming

HardSpeed(s) ==
    \/ \E i \in DOMAIN s.speed : s.speed[i] >= Limits.hardCap
    \/ \E F \in SUBSET DOMAIN s.speed :
           Cardinality(F) > Limits.maxSpikes /\ \A i \in F : s.speed[i] > Limits.maxSpeed
LEMMA SpeedRejects ==
    ASSUME NEW s, TelemetryLoads(s)
    PROVE  /\ OutlierSpeedRule(s) = "reject" <=> HardSpeed(s)
           /\ ~HardSpeed(s) =>
                  (OutlierSpeedRule(s) = "warn" <=> \E i \in DOMAIN s.speed : s.speed[i] > Limits.maxSpeed)
  <1>1. Limits.maxSpeed \in Nat /\ Limits.maxSpikes \in Nat
    BY LimitTypes
  <1>2. PICK f \in Seq(Nat) : f = s.speed
    BY DEF TelemetryLoads
  <1>3. PICK spikes : spikes = Cardinality({i \in DOMAIN f : f[i] > Limits.maxSpeed})
    OBVIOUS
  <1>4. /\ spikes > Limits.maxSpikes
               => \E F \in SUBSET DOMAIN f : Cardinality(F) > Limits.maxSpikes /\ \A i \in F : f[i] > Limits.maxSpeed
        /\ (\E F \in SUBSET DOMAIN f : Cardinality(F) > Limits.maxSpikes /\ \A i \in F : f[i] > Limits.maxSpeed)
               => spikes > Limits.maxSpikes
        /\ spikes > 0 => \E i \in DOMAIN f : f[i] > Limits.maxSpeed
        /\ (\E i \in DOMAIN f : f[i] > Limits.maxSpeed) => spikes > 0
    BY <1>1, <1>3, ManyOver
  <1>5. OutlierSpeedRule(s) =
            IF (\E i \in DOMAIN f : f[i] >= Limits.hardCap) \/ spikes > Limits.maxSpikes
            THEN "reject" ELSE IF spikes > 0 THEN "warn" ELSE "pass"
    BY <1>2, <1>3 DEF OutlierSpeedRule
  <1>6. HardSpeed(s) <=>
            \/ \E i \in DOMAIN f : f[i] >= Limits.hardCap
            \/ \E F \in SUBSET DOMAIN f : Cardinality(F) > Limits.maxSpikes /\ \A i \in F : f[i] > Limits.maxSpeed
    BY <1>2 DEF HardSpeed
  <1>7. HardSpeed(s) <=> (\E i \in DOMAIN f : f[i] >= Limits.hardCap) \/ spikes > Limits.maxSpikes
    BY <1>4, <1>6
  <1>8. spikes > 0 <=> \E i \in DOMAIN s.speed : s.speed[i] > Limits.maxSpeed
    BY <1>2, <1>4
  <1> QED
    BY <1>5, <1>7, <1>8

HardEnd(s) == Len(s.time) < Limits.minSamples \/ (~s.finished /\ Duration(s) < Limits.minDuration)
HardJump(s) == \E i \in Steps(s) : Moved(s, i) >= Limits.maxDelta
LEMMA OthersReject ==
    ASSUME NEW s, TelemetryLoads(s)
    PROVE  /\ IncompleteRule(s) = "reject" <=> HardEnd(s)
           /\ ~HardEnd(s) => (IncompleteRule(s) = "warn" <=> ~s.finished)
           /\ TeleportRule(s) = "reject" <=> HardJump(s)
           /\ ~HardJump(s) =>
                  (TeleportRule(s) = "warn" <=> \E i \in Steps(s) : Moved(s, i) >= Limits.softDelta)
           /\ RestartRule(s) = "reject" <=> s.restarts >= Limits.rejectRestarts
           /\ ~(s.restarts >= Limits.rejectRestarts) =>
                  (RestartRule(s) = "warn" <=> s.restarts >= Limits.warnRestarts)
           /\ SpectatorRule(s) = "reject" <=> Travelled(s) < Limits.minDistance
           /\ SpectatorRule(s) # "warn"
           /\ ZeroMotionRule(s) = "reject" <=> IdleWindow(s) >= Limits.rejectIdle
           /\ ~(IdleWindow(s) >= Limits.rejectIdle) =>
                  (ZeroMotionRule(s) = "warn" <=> IdleWindow(s) >= Limits.warnIdle)
  BY DEF IncompleteRule, HardEnd, TeleportRule, HardJump, RestartRule, CountRule, SpectatorRule, ZeroMotionRule

\* A replay is rejected exactly when it breaks a hard limit.  Standing still on a
\* clock that runs backwards is measured short, but such a clock is rejected anyway.
LEMMA RejectsHard ==
    ASSUME NEW s, TelemetryLoads(s)
    PROVE  "reject" \in RunRules(s) <=> HardFault(s)
  <1> DEFINE idle == IdleFor(s, Limits.rejectIdle)
  <1>1. HardFault(s) <=> \/ HardEnd(s) \/ HardTiming(s) \/ HardJump(s) \/ HardSpeed(s) \/ idle
                         \/ s.restarts >= Limits.rejectRestarts \/ Travelled(s) < Limits.minDistance
    BY DEF HardFault, HardEnd, HardTiming, HardJump, HardSpeed, IdleFor
  <1>2. Limits.rejectIdle \in Nat \ {0}
    BY LimitTypes
  <1>3. /\ IdleWindow(s) >= Limits.rejectIdle => idle
        /\ ClockRuns(s) /\ idle => IdleWindow(s) >= Limits.rejectIdle
    BY <1>2, IdleDecides
  <1>4. ~HardTiming(s) => ClockRuns(s)
    <2> SUFFICES ASSUME ~HardTiming(s), NEW j \in Steps(s) PROVE Gap(s, j) >= 0
      BY DEF ClockRuns
    <2>1. Gap(s, j) \in Int /\ ~(Gap(s, j) < 0)
      BY MovedType DEF HardTiming
    <2> QED
      BY <2>1
  <1>5. "reject" \in RunRules(s) <=>
            \/ IncompleteRule(s) = "reject" \/ InvalidTimingRule(s) = "reject" \/ TeleportRule(s) = "reject"
            \/ OutlierSpeedRule(s) = "reject" \/ ZeroMotionRule(s) = "reject" \/ RestartRule(s) = "reject"
            \/ SpectatorRule(s) = "reject"
    BY DEF RunRules
  <1> HIDE DEF idle
  <1>6. /\ IncompleteRule(s) = "reject" <=> HardEnd(s)
        /\ TeleportRule(s) = "reject" <=> HardJump(s)
        /\ RestartRule(s) = "reject" <=> s.restarts >= Limits.rejectRestarts
        /\ SpectatorRule(s) = "reject" <=> Travelled(s) < Limits.minDistance
        /\ ZeroMotionRule(s) = "reject" <=> IdleWindow(s) >= Limits.rejectIdle
    BY OthersReject
  <1>7. OutlierSpeedRule(s) = "reject" <=> HardSpeed(s)
    BY SpeedRejects
  <1>8. InvalidTimingRule(s) = "reject" <=> HardTiming(s)
    BY TimingRejects
  <1> QED
    BY <1>1, <1>3, <1>4, <1>5, <1>6, <1>7, <1>8

LEMMA WarnsSoft ==
    ASSUME NEW s, TelemetryLoads(s), ~HardFault(s)
    PROVE  "warn" \in RunRules(s) <=> SoftFault(s)
  <1> DEFINE idle == IdleFor(s, Limits.warnIdle)
             gaps == \E i \in Steps(s) : Gap(s, i) > Limits.softGap
             jumps == \E i \in Steps(s) : Moved(s, i) >= Limits.softDelta
             spikes == \E i \in DOMAIN s.speed : s.speed[i] > Limits.maxSpeed
  <1>1. SoftFault(s) <=> \/ ~s.finished \/ gaps \/ jumps \/ spikes \/ idle
                         \/ s.restarts >= Limits.warnRestarts
    BY DEF SoftFault, IdleFor
  <1>2. /\ ~HardEnd(s) /\ ~HardTiming(s) /\ ~HardJump(s) /\ ~HardSpeed(s)
        /\ ~(s.restarts >= Limits.rejectRestarts) /\ ~IdleFor(s, Limits.rejectIdle)
    BY DEF HardFault, HardEnd, HardTiming, HardJump, HardSpeed, IdleFor
  <1>3. Limits.rejectIdle \in Nat \ {0} /\ Limits.warnIdle \in Nat \ {0}
    BY LimitTypes
  <1>4. ClockRuns(s)
    <2> SUFFICES ASSUME NEW j \in Steps(s) PROVE Gap(s, j) >= 0
      BY DEF ClockRuns
    <2>1. Gap(s, j) \in Int /\ ~(Gap(s, j) < 0)
      BY <1>2, MovedType DEF HardTiming
    <2> QED
      BY <2>1
  <1>5. ~(IdleWindow(s) >= Limits.rejectIdle) /\ (IdleWindow(s) >= Limits.warnIdle <=> idle)
    BY <1>2, <1>3, <1>4, IdleDecides
  <1>6. "warn" \in RunRules(s) <=>
            \/ IncompleteRule(s) = "warn" \/ InvalidTimingRule(s) = "warn" \/ TeleportRule(s) = "warn"
            \/ OutlierSpeedRule(s) = "warn" \/ ZeroMotionRule(s) = "warn" \/ RestartRule(s) = "warn"
            \/ SpectatorRule(s) = "warn"
    BY DEF RunRules
  <1>7. InvalidTimingRule(s) = "warn" <=> gaps
    BY <1>2, TimingRejects
  <1>8. OutlierSpeedRule(s) = "warn" <=> spikes
    BY <1>2, SpeedRejects
  <1>9. /\ IncompleteRule(s) = "warn" <=> ~s.finished
        /\ TeleportRule(s) = "warn" <=> jumps
        /\ RestartRule(s) = "warn" <=> s.restarts >= Limits.warnRestarts
        /\ SpectatorRule(s) # "warn"
        /\ ZeroMotionRule(s) = "warn" <=> IdleWindow(s) >= Limits.warnIdle
    BY <1>2, <1>5, OthersReject
  <1> HIDE DEF idle, gaps, jumps, spikes
  <1> QED
    BY <1>1, <1>5, <1>6, <1>7, <1>8, <1>9

LEMMA VerdictIs ==
    ASSUME NEW s, TelemetryLoads(s)
    PROVE  Classify(RunRules(s)) =
               CASE HardFault(s) -> "rejected"
                 [] ~HardFault(s) /\ SoftFault(s) -> "usable_with_warnings"
                 [] OTHER -> "clean"
  <1>1. PICK v : v = RunRules(s)
    OBVIOUS
  <1>2. "reject" \in v <=> HardFault(s)
    BY <1>1, RejectsHard
  <1>3. ~HardFault(s) => ("warn" \in v <=> SoftFault(s))
    BY <1>1, WarnsSoft
  <1>4. CASE HardFault(s)
    BY <1>1, <1>2, <1>4 DEF Classify
  <1>5. CASE ~HardFault(s) /\ SoftFault(s)
    BY <1>1, <1>2, <1>3, <1>5 DEF Classify
  <1>6. CASE ~HardFault(s) /\ ~SoftFault(s)
    BY <1>1, <1>2, <1>3, <1>6 DEF Classify
  <1> QED
    BY <1>4, <1>5, <1>6

-----------------------------------------------------------------------------
\* Breadcrumbs: no rule rejecting leaves the checkpoints in order.
LEMMA CrumbsAccepted ==
    ASSUME NEW b, BreadcrumbsLoad(b), "reject" \notin RunBreadcrumbRules(b)
    PROVE  /\ \A i, j \in DOMAIN b.cps : i < j => b.cps[i] <= b.cps[j]
           /\ b.finish > 0 \/ (b.cps # << >> /\ b.cps[Len(b.cps)] >= Limits.minDuration)
           /\ \A i \in 2 .. Len(b.cps) : b.cps[i] - b.cps[i - 1] <= Limits.hardCrumbGap
  <1>1. PICK f \in Seq(Int) : f = b.cps
    BY DEF BreadcrumbsLoad
  <1>2. DOMAIN f = 1 .. Len(f) /\ Len(f) \in Nat /\ \A i \in 1 .. Len(f) : f[i] \in Int
    BY <1>1
  <1>3. Limits.hardCrumbGap \in Nat /\ Limits.minDuration \in Nat /\ b.finish \in Nat
    BY LimitTypes DEF BreadcrumbsLoad
  <1>4. BreadcrumbIncompleteRule(b) # "reject" /\ BreadcrumbInvalidTimingRule(b) # "reject"
    BY DEF RunBreadcrumbRules
  <1>5. \A i \in 2 .. Len(f) : 0 <= f[i] - f[i - 1] /\ f[i] - f[i - 1] <= Limits.hardCrumbGap
    <2> SUFFICES ASSUME NEW i \in 2 .. Len(f)
                 PROVE  0 <= f[i] - f[i - 1] /\ f[i] - f[i - 1] <= Limits.hardCrumbGap
      OBVIOUS
    <2>0. Len(f) - 1 \in Int
      BY <1>2
    <2>1. PICK m \in Int : m = Len(f) - 1
      BY <2>0
    <2>2. PICK g : g = [k \in 1 .. m |-> f[k + 1] - f[k]]
      OBVIOUS
    <2>3. g \in [1 .. m -> Int] /\ DOMAIN g = 1 .. m
      <3>1. ASSUME NEW k \in 1 .. m PROVE f[k + 1] - f[k] \in Int
        <4>1. k \in 1 .. Len(f) /\ k + 1 \in 1 .. Len(f)
          BY <1>2, <2>1
        <4> QED
          BY <1>2, <4>1
      <3> QED
        BY <2>2, <3>1
    <2>4. PICK worst : worst = Greatest({g[k] : k \in DOMAIN g}, 0)
      OBVIOUS
    <2>5. ~(Len(f) < 2) /\ i - 1 \in 1 .. m
      BY <1>2, <2>1
    <2>6. BreadcrumbInvalidTimingRule(b) =
              IF Len(f) < 2 THEN "pass"
              ELSE IF (\E k \in DOMAIN g : g[k] < 0) \/ worst > Limits.hardCrumbGap THEN "reject"
              ELSE IF worst > Limits.gapFactor * MedianGap(g) /\ MedianGap(g) > 0 THEN "warn" ELSE "pass"
      BY <1>1, <2>1, <2>2, <2>4 DEF BreadcrumbInvalidTimingRule
    <2>7. ~(\E k \in DOMAIN g : g[k] < 0) /\ ~(worst > Limits.hardCrumbGap)
      BY <1>4, <2>5, <2>6
    <2>8. 1 \in Int /\ worst = Greatest({g[k] : k \in 1 .. m}, 0)
      BY <2>3, <2>4
    <2>9. worst > Limits.hardCrumbGap <=> \E k \in 1 .. m : g[k] > Limits.hardCrumbGap
      BY <1>3, <2>3, <2>8, WorstOver
    <2>10. ~(g[i - 1] < 0) /\ ~(g[i - 1] > Limits.hardCrumbGap) /\ g[i - 1] \in Int
      BY <2>3, <2>5, <2>7, <2>9
    <2>11. g[i - 1] = f[i] - f[i - 1]
      BY <2>2, <2>5
    <2> QED
      BY <1>3, <2>10, <2>11
  <1>6. \A i, j \in DOMAIN f : i < j => f[i] <= f[j]
    <2>1. \A i \in 2 .. Len(f) : f[i - 1] <= f[i]
      <3> SUFFICES ASSUME NEW i \in 2 .. Len(f) PROVE f[i - 1] <= f[i]
        OBVIOUS
      <3>1. i \in 1 .. Len(f) /\ i - 1 \in 1 .. Len(f)
        BY <1>2
      <3> QED
        BY <1>2, <1>5, <3>1
    <2>2. \A i, j \in 1 .. Len(f) : i <= j => f[i] <= f[j]
      BY <2>1, NeighboursOrder
    <2> QED
      BY <1>2, <2>2
  <1>7. f # << >> => Len(f) \in 1 .. Len(f)
    BY <1>2
  <1>8. b.finish > 0 \/ (f # << >> /\ f[Len(f)] >= Limits.minDuration)
    <2> SUFFICES ASSUME b.finish = 0 PROVE f # << >> /\ f[Len(f)] >= Limits.minDuration
      BY <1>3
    <2>1. ~(CrumbDuration(b) < Limits.minDuration)
      BY <1>4 DEF BreadcrumbIncompleteRule
    <2>2. CASE f = << >>
      BY <1>1, <1>3, <2>1, <2>2 DEF CrumbDuration
    <2>3. CASE f # << >>
      <3>1. CrumbDuration(b) = f[Len(f)]
        BY <1>1, <2>3 DEF CrumbDuration
      <3> QED
        BY <1>2, <1>3, <1>7, <2>1, <2>3, <3>1
    <2> QED
      BY <2>2, <2>3
  <1> QED
    BY <1>1, <1>5, <1>6, <1>8

-----------------------------------------------------------------------------
\* Cohorts: the replays of a map in the order of their finish times.
Faster(E, fin) == {p \in E \X E : fin[p[1]] < fin[p[2]] \/ (fin[p[1]] = fin[p[2]] /\ p[1] < p[2])}

LEMMA PlacesHit ==
    ASSUME NEW E, E \subseteq Replays, finish \in [Replays -> Nat]
    PROVE  /\ IsFiniteSet(E) /\ Cardinality(E) \in Nat
           /\ \A k \in 0 .. Cardinality(E) - 1 : \E r \in E : Place(r, E) = k
  <1>1. IsFiniteSet(E) /\ Cardinality(E) \in Nat /\ E \subseteq Nat
    BY CleaningAssumption, FS_Subset, FS_CardinalityType
  <1>2. PICK fin \in [E -> Nat] : \A r \in E : fin[r] = finish[r]
    <2>1. [r \in E |-> finish[r]] \in [E -> Nat]
      OBVIOUS
    <2> QED
      BY <2>1
  <1>3. PICK R : R = Faster(E, fin)
    OBVIOUS
  <1>4. \A x, y \in E : <<x, y>> \in R <=> fin[x] < fin[y] \/ (fin[x] = fin[y] /\ x < y)
    BY <1>3 DEF Faster
  <1>5. \A x, y : <<x, y>> \in R => x \in E /\ y \in E
    BY <1>3 DEF Faster
  <1>6. IsOrder(R, E)
    <2>1. \A x \in E : <<x, x>> \notin R
      BY <1>1, <1>2, <1>4
    <2>2. \A x, y, z \in E : <<x, y>> \in R /\ <<y, z>> \in R => <<x, z>> \in R
      BY <1>1, <1>2, <1>4
    <2>3. \A x, y \in E : x # y => <<x, y>> \in R \/ <<y, x>> \in R
      BY <1>1, <1>2, <1>4
    <2> QED
      BY <2>1, <2>2, <2>3 DEF IsOrder
  <1>7. ASSUME NEW r \in E PROVE Place(r, E) = Cardinality(Preceding(r, E, R))
    <2>1. Preceding(r, E, R) = {q \in E : finish[q] < finish[r] \/ (finish[q] = finish[r] /\ q < r)}
      BY <1>2, <1>4 DEF Preceding
    <2> QED
      BY <2>1 DEF Place
  <1>8. ASSUME NEW k \in 0 .. Cardinality(E) - 1 PROVE \E r \in E : Place(r, E) = k
    <2>0. IsFiniteSet(E)
      BY <1>1
    <2>1. \A j \in 0 .. Cardinality(E) - 1 : \E r \in E : Cardinality(Preceding(r, E, R)) = j
      BY  <1>6, <2>0, RankHit
    <2>2. PICK r \in E : Cardinality(Preceding(r, E, R)) = k
      BY <2>1
    <2> QED
      BY <1>7, <2>2
  <1> QED
    BY <1>1, <1>8

LEMMA BandsCover ==
    ASSUME NEW n \in Nat, n >= 3, NEW i \in Nat, i = (n - 1) \div 2
    PROVE  /\ 0 \in 0 .. n - 1 /\ i \in 0 .. n - 1
           /\ "performance" \in BandOf(0, n)
           /\ "intent" \in BandOf(i, n) /\ "robustness" \in BandOf(i, n)
  <1>1. 2 * i <= n - 1 /\ n - 1 <= 2 * i + 1
    OBVIOUS
  <1>2. 0 \in 0 .. n - 1 /\ i \in 0 .. n - 1
    BY <1>1
  <1>3. 100 * 0 <= 10 * (n - 1)
    OBVIOUS
  <1>4. 20 * (n - 1) <= 100 * i /\ 100 * i <= 80 * (n - 1)
    BY <1>1
  <1>5. 5 * (n - 1) <= 100 * i /\ 100 * i <= 95 * (n - 1)
    BY <1>1
  <1>6. "performance" \in BandOf(0, n)
    BY <1>3 DEF BandOf, AllCohorts
  <1>7. "intent" \in BandOf(i, n)
    BY <1>4 DEF BandOf, AllCohorts
  <1>8. "robustness" \in BandOf(i, n)
    BY <1>5 DEF BandOf, AllCohorts
  <1> QED
    BY <1>2, <1>6, <1>7, <1>8

LEMMA AssignmentCovers ==
    ASSUME SmallMapN >= 3, NEW E, E \subseteq Replays, E # {}, finish \in [Replays -> Nat], NEW c \in AllCohorts
    PROVE  \E r \in E : c \in AssignCohortsForMap(E)[r]
  <1>1. PICK n \in Nat : n = Cardinality(E)
    BY PlacesHit
  <1>2. SmallMapN \in Nat
    BY CleaningAssumption
  <1>3. CASE n < SmallMapN
    <2>1. PICK r \in E : TRUE
      OBVIOUS
    <2>2. AssignCohortsForMap(E)[r] = AllCohorts
      BY <1>1, <1>3 DEF AssignCohortsForMap
    <2> QED
      BY <2>2
  <1>4. CASE ~(n < SmallMapN)
    <2>1. n >= 3
      BY <1>2, <1>4
    <2>2. PICK i \in Nat : i = (n - 1) \div 2
      BY <2>1
    <2>3. /\ 0 \in 0 .. n - 1 /\ i \in 0 .. n - 1
          /\ "performance" \in BandOf(0, n)
          /\ "intent" \in BandOf(i, n) /\ "robustness" \in BandOf(i, n)
      BY <2>1, <2>2, BandsCover
    <2>4. PICK k \in 0 .. n - 1 : c \in BandOf(k, n)
      BY <2>3 DEF AllCohorts
    <2>5. PICK r \in E : Place(r, E) = k
      BY <1>1, PlacesHit
    <2>6. AssignCohortsForMap(E)[r] = BandOf(k, n)
      BY <1>1, <1>4, <2>5 DEF AssignCohortsForMap
    <2> QED
      BY <2>4, <2>6
  <1> QED
    BY <1>3, <1>4

-----------------------------------------------------------------------------
ProbeOk(p) ==
    \/ p = NoProbe
    \/ p.kind = "telemetry" /\ TelemetryLoads(p.of)
    \/ p.kind = "breadcrumbs" /\ BreadcrumbsLoad(p.of)
CleanInv ==
    /\ ProbeOk(probe)
    /\ finish \in [Replays -> Nat]
    /\ assigned \subseteq Replays
    /\ CohortsCover

LEMMA CleanInvStep ==
    ASSUME SmallMapN >= 3, CleanInv, [CleanNext]_cleanVars
    PROVE  CleanInv'
  <1>1. ProbeOk(probe) /\ finish \in [Replays -> Nat] /\ assigned \subseteq Replays /\ CohortsCover
    BY DEF CleanInv
  <1>2. ASSUME UNCHANGED <<finish, cohortsOf, assigned, probe>> PROVE CleanInv'
    BY <1>1, <1>2 DEF CleanInv, CohortsCover
  <1>3. CASE CleanStep
    BY <1>2, <1>3 DEF CleanStep, StartClean, CleanOne, EndClean
  <1>4. CASE AssignCohorts
    <2>1. /\ Eligible # {} /\ assigned' = Eligible /\ finish' = finish /\ probe' = probe
          /\ cohortsOf' = [r \in Replays |-> IF r \in Eligible THEN AssignCohortsForMap(Eligible)[r] ELSE cohortsOf[r]]
      BY <1>4 DEF AssignCohorts
    <2>2. PICK E : E = Eligible
      OBVIOUS
    <2>3. E \subseteq Replays /\ E # {}
      BY <2>1, <2>2 DEF Eligible
    <2>4. ASSUME NEW c \in AllCohorts PROVE \E r \in E : c \in cohortsOf'[r]
      <3>1. PICK r \in E : c \in AssignCohortsForMap(E)[r]
        BY <1>1, <2>3, AssignmentCovers
      <3>2. cohortsOf'[r] = AssignCohortsForMap(E)[r]
        BY <2>1, <2>2, <2>3
      <3> QED
        BY <3>1, <3>2
    <2>5. CohortsCover'
      BY <2>1, <2>2, <2>4 DEF CohortsCover, AllCohorts
    <2> QED
      BY <1>1, <2>1, <2>2, <2>3, <2>5 DEF CleanInv
  <1>5. CASE probe = NoProbe /\ ReplayArrives
    <2>1. finish' \in [Replays -> Nat] /\ UNCHANGED <<cohortsOf, assigned, probe>>
      BY <1>5, CleaningAssumption DEF ReplayArrives
    <2> QED
      BY <1>1, <2>1 DEF CleanInv, CohortsCover
  <1>6. CASE TryRules
    <2>1. UNCHANGED <<finish, cohortsOf, assigned>>
      BY <1>6 DEF TryRules
    <2>2. ProbeOk(probe')
      BY <1>6, CleaningAssumption DEF TryRules, ProbeOk
    <2> QED
      BY <1>1, <2>1, <2>2 DEF CleanInv, CohortsCover
  <1>7. CASE UNCHANGED cleanVars
    BY <1>2, <1>7 DEF cleanVars
  <1> QED
    BY <1>3, <1>4, <1>5, <1>6, <1>7 DEF CleanNext

LEMMA CleanInvSound ==
    ASSUME CleanInv PROVE CleaningSound
  <1>1. CleanMeansClean
    <2> SUFFICES ASSUME probe # NoProbe, probe.kind = "telemetry" PROVE CleanMeansClean
      BY DEF CleanMeansClean
    <2>1. PICK s : s = probe.of
      OBVIOUS
    <2>2. TelemetryLoads(s)
      BY <2>1 DEF CleanInv, ProbeOk
    <2>3. Classify(RunRules(s)) =
               CASE HardFault(s) -> "rejected"
                 [] ~HardFault(s) /\ SoftFault(s) -> "usable_with_warnings"
                 [] OTHER -> "clean"
      BY <2>2, VerdictIs
    <2> QED
      BY <2>1, <2>3 DEF CleanMeansClean
  <1>2. CrumbsInOrder
    <2> SUFFICES ASSUME probe # NoProbe, probe.kind = "breadcrumbs" PROVE CrumbsInOrder
      BY DEF CrumbsInOrder
    <2>1. PICK b : b = probe.of
      OBVIOUS
    <2>2. BreadcrumbsLoad(b)
      BY <2>1 DEF CleanInv, ProbeOk
    <2>3. Classify(RunBreadcrumbRules(b)) # "rejected" => "reject" \notin RunBreadcrumbRules(b)
      BY DEF Classify
    <2>4. Classify(RunBreadcrumbRules(b)) # "rejected" =>
              /\ \A i, j \in DOMAIN b.cps : i < j => b.cps[i] <= b.cps[j]
              /\ b.finish > 0 \/ (b.cps # << >> /\ b.cps[Len(b.cps)] >= Limits.minDuration)
              /\ \A i \in 2 .. Len(b.cps) : b.cps[i] - b.cps[i - 1] <= Limits.hardCrumbGap
      BY <2>2, <2>3, CrumbsAccepted
    <2> QED
      BY <2>1, <2>4 DEF CrumbsInOrder
  <1> QED
    BY <1>1, <1>2 DEF CleaningSound, CleanInv

(* The verdict of the cleaning rules on any telemetry or breadcrumbs is    *)
(* the verdict of their definitions, and each cohort that is assigned has  *)
(* a member, for any thresholds and replays and a small_map_n of at least  *)
(* 3, the default (replay/rules, replay/cohorts.py).                       *)
THEOREM CleaningIsSound ==
    ASSUME SmallMapN >= 3
    PROVE  CleanInit /\ [][CleanNext]_cleanVars => []CleaningSound
  <1>1. CleanInit => CleanInv
    BY CleaningAssumption DEF CleanInit, CleanInv, ProbeOk, CohortsCover
  <1>2. CleanInv /\ [CleanNext]_cleanVars => CleanInv'
    BY CleanInvStep
  <1>3. CleanInv => CleaningSound
    BY CleanInvSound
  <1> QED
    BY <1>1, <1>2, <1>3, PTL
=============================================================================
