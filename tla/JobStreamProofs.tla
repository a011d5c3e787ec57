----------------------------- MODULE JobStreamProofs -----------------------------
(***************************************************************************)
(* Theorems about JobStream, for any number of events, of polls under way,  *)
(* of moves of the job and of faults. What it guarantees of the list and of *)
(* the wire follows from where the state of a stream is kept: in closures   *)
(* that end with the connection.                                            *)
(***************************************************************************)
EXTENDS JobStream, TLAPS

\* There is a stream as long as the feed has a connection, and its controller is
\* open until it stops.
StreamOfLink ==
  /\ link = "open" <=> serving # "nothing"
  /\ open <=> serving \in {"backfill", "polling"}

\* Before the backfill nothing was sent, and no poll is under way.
BackfillFirst ==
  serving \in {"nothing", "backfill"} =>
    /\ \A p \in Polls : pollAt[p] = "idle"
    /\ \A e \in Events : sends[e] = 0

\* The stream marks what it sends.
SentIsMarked ==
  \A e \in Events : sends[e] <= 1 /\ (sends[e] = 1 => e \in seenEventIds)

\* The feed marks what it shows.
ShownIsSeen ==
  /\ link \in {"rendering", "rendered"} => seenIds = {}
  /\ \A e \in Events : shown[e] = IF e \in seenIds THEN 1 ELSE 0

IsEnd(frame) == frame.type \in {"done", "timeout"}

\* A stream that has not stopped has sent no last frame.
OpenHasNoEnd == open => \A i \in 1..Len(wire) : ~IsEnd(wire[i])

\* A page or stream that found the job in a terminal state did so after it ended,
\* and such a stream is never polled.
FoundEnded ==
  /\ jobState \in TerminalStates \/ initial \in TerminalStates => ended
  /\ link = "rendered" => badge = initial
  /\ initial \in TerminalStates =>
       serving # "polling" /\ \A p \in Polls : pollAt[p] = "idle"

Brings(frame, e) == frame.type = "audit" /\ e \in frame.ids

\* What the job left is shown or on its way, once the backfill of a stream that
\* found it ended was sent, unless the backfill failed.
DueIsOnItsWay ==
  link = "open" /\ serving = "stopped" /\ initial \in TerminalStates
    /\ streamError # "sent" =>
    \/ \E i \in 1..Len(wire) : wire[i].type = "error"
    \/ \A e \in due : e \in seenIds \/ \E i \in 1..Len(wire) : Brings(wire[i], e)

\* The inductive invariant.
IInv ==
  /\ TypeOK
  /\ StreamOfLink
  /\ BackfillFirst
  /\ SentIsMarked
  /\ ShownIsSeen
  /\ EndOfStream
  /\ OpenHasNoEnd
  /\ FoundEnded
  /\ DueIsOnItsWay
  /\ PostMortemIsWhole
--------------------------------------------------------------------------------
\* The steps of Next, one by one: the case split of every proof below.
LEMMA NextCases ==
  ASSUME [Next]_vars
  PROVE  \/ \E e \in Events : AppendEvent(e)
         \/ \E s \in States : MoveState(s)
         \/ RenderJob \/ RenderEvents \/ Connect
         \/ ReceiveState \/ ReceiveAudit \/ ReceiveError \/ ReceiveDone \/ ReceiveTimeout
         \/ Backfill \/ TickTimeout \/ Disconnect \/ ConnectFails \/ BackfillFails
         \/ \E p \in Polls : \/ PollFails(p) \/ Tick(p) \/ SendNew(p) \/ ReadState(p)
                             \/ Compare(p)
         \/ UNCHANGED vars
BY DEF Next, Job, Page, Receive, Failure, Poll

LEMMA FrameTypes ==
  /\ \A s \in States : StateFrame(s) \in Frame /\ DoneFrame(s) \in Frame
  /\ \A ids \in SUBSET Events : AuditFrame(ids) \in Frame
  /\ ErrorFrame \in Frame /\ TimeoutFrame \in Frame
  /\ \A f \in Frame : /\ f.type \in {"state", "done"} => f.state \in States
                      /\ f.type = "audit" => f.ids \subseteq Events
BY DEF Frame, StateFrame, DoneFrame, AuditFrame, ErrorFrame, TimeoutFrame

\* What an open stream sends is queued behind the rest; a closed one sends nothing.
LEMMA EnqueueFacts ==
  ASSUME wire \in Seq(Frame), NEW frames \in Seq(Frame), Enqueue(frames)
  PROVE  /\ wire' \in Seq(Frame)
         /\ ~open => wire' = wire
         /\ open => /\ Len(wire') = Len(wire) + Len(frames)
                    /\ \A i \in 1..Len(wire) : wire'[i] = wire[i]
                    /\ \A i \in 1..Len(frames) : wire'[Len(wire) + i] = frames[i]
BY DEF Enqueue

\* The frames of a batch of events.
LEMMA BatchFacts ==
  ASSUME NEW ids \in SUBSET Events, NEW more \in Seq(Frame),
         EnqueueEvents(ids, more)
  PROVE  \E frames \in Seq(Frame) :
           /\ Enqueue(frames)
           /\ ids = {} => frames = more
           /\ ids # {} => /\ Len(frames) = Len(more) + 1
                          /\ frames[1] = AuditFrame(ids)
                          /\ \A i \in 1..Len(more) : frames[i + 1] = more[i]
<1> DEFINE frames == IF ids = {} THEN more ELSE <<AuditFrame(ids)>> \o more
<1>1. AuditFrame(ids) \in Frame
  BY FrameTypes
<1>2. <<AuditFrame(ids)>> \in Seq(Frame)
  BY <1>1
<1>3. frames \in Seq(Frame)
  BY <1>2
<1>4. ids # {} => /\ Len(frames) = Len(more) + 1
                  /\ frames[1] = AuditFrame(ids)
                  /\ \A i \in 1..Len(more) : frames[i + 1] = more[i]
  BY <1>2
<1>5. Enqueue(frames)
  BY DEF EnqueueEvents
<1> QED
  BY <1>3, <1>4, <1>5

\* The frame that is received leaves the wire, and the others move up.
LEMMA ReceiveFacts ==
  ASSUME wire \in Seq(Frame), wire # <<>>
  PROVE  /\ Head(wire) \in Frame /\ Head(wire) = wire[1]
         /\ Len(wire) >= 1
         /\ Tail(wire) \in Seq(Frame) /\ Len(Tail(wire)) = Len(wire) - 1
         /\ \A i \in 1..Len(Tail(wire)) : Tail(wire)[i] = wire[i + 1]
OBVIOUS

LEMMA CountedFacts ==
  ASSUME NEW count \in [Events -> Nat], NEW ids
  PROVE  /\ Counted(count, ids) \in [Events -> Nat]
         /\ \A e \in Events :
              Counted(count, ids)[e] = IF e \in ids THEN count[e] + 1 ELSE count[e]
BY DEF Counted

\* The last frames of a stream that is to end at once.
LEMMA EndingFacts ==
  ASSUME initial \in States
  PROVE  /\ Ending \in Seq(Frame) /\ Len(Ending) <= 1
         /\ Len(Ending) = 0 \/ (Len(Ending) = 1 /\ Ending[1].type = "done")
         /\ initial \notin TerminalStates => Len(Ending) = 0
<1>1. DoneFrame(initial) \in Frame
  BY FrameTypes
<1>2. DoneFrame(initial).type = "done"
  BY DEF DoneFrame
<1> QED
  BY <1>1, <1>2 DEF Ending

--------------------------------------------------------------------------------
\* A connection that ends leaves the stream's variables well typed.
LEMMA ForgetType ==
  ASSUME Forget
  PROVE  /\ serving' = "nothing" /\ open' = FALSE /\ wire' = <<>>
         /\ wire' \in Seq(Frame)
         /\ sends' \in [Events -> Nat]
         /\ seenEventIds' \subseteq Events
         /\ lastState' \in States
         /\ pollAt' \in [Polls -> {"idle", "events", "read", "state"}]
         /\ gotEvents' \in [Polls -> SUBSET Events]
         /\ gotState' \in [Polls -> States]
BY DEF Forget, States

LEMMA FaultyType ==
  ASSUME faults \in 0..MaxFaults, Faulty
  PROVE  faults' \in 0..MaxFaults
BY BoundsAssumption DEF Faulty

\* Every step keeps the types.
LEMMA TypeStep ==
  ASSUME TypeOK, [Next]_vars
  PROVE  TypeOK'
<1> USE DEF TypeOK
<1>1. ASSUME NEW e \in Events, AppendEvent(e) PROVE TypeOK'
  BY <1>1 DEF AppendEvent, feed, stream, channel, marks, polls
<1>2. ASSUME NEW t \in States, MoveState(t) PROVE TypeOK'
  BY <1>2, BoundsAssumption DEF MoveState, feed, stream, channel, marks, polls
<1>3. CASE RenderJob
  BY <1>3 DEF RenderJob, Links, table, channel, marks, polls
<1>4. CASE RenderEvents
  BY <1>4, CountedFacts DEF RenderEvents, Links, table, stream, channel, marks, polls
<1>5. CASE Connect
  <2>1. StateFrame(jobState) \in Frame
    BY FrameTypes
  <2> QED
    BY <1>5, <2>1 DEF Connect, Links, table, polls
<1>6. CASE ReceiveState
  <2>1. wire # <<>> /\ Head(wire).type = "state"
    BY <1>6 DEF ReceiveState, NextFrame
  <2>2. Tail(wire) \in Seq(Frame) /\ Head(wire).state \in States
    BY <2>1, ReceiveFacts, FrameTypes
  <2> QED
    BY <1>6, <2>2 DEF ReceiveState, table, marks, polls
<1>7. CASE ReceiveAudit
  <2>1. wire # <<>> /\ Head(wire).type = "audit"
    BY <1>7 DEF ReceiveAudit, NextFrame
  <2>2. Tail(wire) \in Seq(Frame) /\ Head(wire).ids \subseteq Events
    BY <2>1, ReceiveFacts, FrameTypes
  <2>3. shown' \in [Events -> Nat]
    <3>1. ASSUME NEW ids PROVE Counted(shown, ids) \in [Events -> Nat]
      BY CountedFacts
    <3>2. \E ids : shown' = Counted(shown, ids)
      BY <1>7 DEF ReceiveAudit
    <3> QED
      BY <3>1, <3>2
  <2>4. seenIds' \subseteq Events
    BY <1>7, <2>2 DEF ReceiveAudit
  <2> QED
    BY <1>7, <2>2, <2>3, <2>4 DEF ReceiveAudit, table, marks, polls
<1>8. CASE ReceiveError
  <2>1. Tail(wire) \in Seq(Frame)
    BY <1>8, ReceiveFacts DEF ReceiveError, NextFrame
  <2> QED
    BY <1>8, <2>1 DEF ReceiveError, table, marks, polls
<1>9. CASE ReceiveDone
  <2>1. Head(wire).state \in States
    BY <1>9, ReceiveFacts, FrameTypes DEF ReceiveDone, NextFrame
  <2> QED
    BY <1>9, <2>1, ForgetType DEF ReceiveDone, Links, table
<1>10. CASE ReceiveTimeout
  BY <1>10, ForgetType DEF ReceiveTimeout, Links, table
<1>11. CASE Backfill
  <2>1. PICK frames \in Seq(Frame) : Enqueue(frames)
    BY <1>11, BatchFacts, EndingFacts DEF Backfill
  <2>2. wire' \in Seq(Frame)
    BY <2>1, EnqueueFacts
  <2>3. sends' \in [Events -> Nat]
    BY <1>11, CountedFacts DEF Backfill, EnqueueEvents
  <2> QED
    BY <1>11, <2>2, <2>3 DEF Backfill, AfterBackfill, Stop, table, feed, polls
<1>12. CASE TickTimeout
  <2>1. <<TimeoutFrame>> \in Seq(Frame)
    BY FrameTypes
  <2>2. wire' \in Seq(Frame)
    BY <1>12, <2>1, EnqueueFacts DEF TickTimeout
  <2> QED
    BY <1>12, <2>2 DEF TickTimeout, Stop, table, feed, marks, polls
<1>13. CASE Disconnect
  BY <1>13, ForgetType, FaultyType DEF Disconnect, Links, table
<1>14. CASE ConnectFails
  BY <1>14, FaultyType DEF ConnectFails, Links, table, stream, channel, marks, polls
<1>15. CASE BackfillFails
  <2>1. <<ErrorFrame>> \o Ending \in Seq(Frame)
    BY FrameTypes, EndingFacts
  <2>2. wire' \in Seq(Frame)
    BY <1>15, <2>1, EnqueueFacts DEF BackfillFails
  <2> QED
    BY <1>15, <2>2, FaultyType DEF BackfillFails, AfterBackfill, Stop, table, feed, marks, polls
<1>16. ASSUME NEW p \in Polls, PollFails(p) PROVE TypeOK'
  <2>1. <<ErrorFrame>> \in Seq(Frame)
    BY FrameTypes
  <2>2. wire' \in Seq(Frame)
    BY <1>16, <2>1, EnqueueFacts DEF PollFails
  <2> QED
    BY <1>16, <2>2, FaultyType DEF PollFails, table, feed, marks
<1>17. ASSUME NEW p \in Polls, Tick(p) PROVE TypeOK'
  BY <1>17 DEF Tick, table, feed, channel, marks
<1>18. ASSUME NEW p \in Polls, SendNew(p) PROVE TypeOK'
  <2>1. New(p) \in SUBSET Events
    BY DEF New
  <2>2. PICK frames \in Seq(Frame) : Enqueue(frames)
    <3>1. <<>> \in Seq(Frame)
      OBVIOUS
    <3> QED
      BY <1>18, <2>1, <3>1, BatchFacts DEF SendNew
  <2>3. wire' \in Seq(Frame)
    BY <2>2, EnqueueFacts
  <2>4. sends' \in [Events -> Nat]
    BY <1>18, CountedFacts DEF SendNew, EnqueueEvents
  <2> QED
    BY <1>18, <2>1, <2>3, <2>4 DEF SendNew, table, feed
<1>19. ASSUME NEW p \in Polls, ReadState(p) PROVE TypeOK'
  BY <1>19 DEF ReadState, table, feed, channel, marks
<1>20. ASSUME NEW p \in Polls, Compare(p) PROVE TypeOK'
  <2> DEFINE t == gotState[p]
  <2>1. /\ t \in States /\ <<StateFrame(t)>> \in Seq(Frame)
        /\ <<StateFrame(t), DoneFrame(t)>> \in Seq(Frame)
    BY FrameTypes
  <2>2. wire' \in Seq(Frame)
    BY <1>20, <2>1, EnqueueFacts DEF Compare
  <2>3. /\ serving' \in {"nothing", "backfill", "polling", "stopped"}
        /\ open' \in BOOLEAN
    BY <1>20 DEF Compare, Stop
  <2>4. UNCHANGED <<table, faults, feed, sends, initial, seenEventIds, gotEvents>>
        /\ lastState' \in States
    BY <1>20, <2>1 DEF Compare
  <2>5. /\ pollAt' \in [Polls -> {"idle", "events", "read", "state"}]
        /\ gotState' \in [Polls -> States]
    BY <1>20 DEF Compare, States
  <2> QED
    BY <2>2, <2>3, <2>4, <2>5 DEF table, feed
<1>21. CASE UNCHANGED vars
  BY <1>21 DEF vars, table, feed, stream, channel, marks, polls
<1> QED
  BY <1>1, <1>2, <1>3, <1>4, <1>5, <1>6, <1>7, <1>8, <1>9, <1>10, <1>11, <1>12, <1>13,
     <1>14, <1>15, <1>16, <1>17, <1>18, <1>19, <1>20, <1>21, NextCases

--------------------------------------------------------------------------------
\* What a connection has begins and ends with it.
LEMMA StreamOfLinkStep ==
  ASSUME TypeOK, StreamOfLink, BackfillFirst, [Next]_vars
  PROVE  StreamOfLink'
<1> USE DEF StreamOfLink
<1>1. CASE RenderJob \/ RenderEvents \/ ConnectFails
  BY <1>1 DEF RenderJob, RenderEvents, ConnectFails, stream, channel
<1>2. CASE Connect
  BY <1>2 DEF Connect
<1>3. CASE ReceiveDone \/ ReceiveTimeout \/ Disconnect
  BY <1>3 DEF ReceiveDone, ReceiveTimeout, Disconnect, Forget
<1>4. CASE Backfill \/ BackfillFails
  BY <1>4 DEF Backfill, BackfillFails, AfterBackfill, Stop, feed
<1>5. CASE TickTimeout
  BY <1>5 DEF TickTimeout, Stop, feed
<1>6. ASSUME NEW p \in Polls, Compare(p) PROVE StreamOfLink'
  <2>1. serving \notin {"nothing", "backfill"}
    BY <1>6 DEF Compare, BackfillFirst
  <2>2. /\ link' = link
        /\ UNCHANGED <<serving, open>> \/ (serving' = "stopped" /\ ~open')
    BY <1>6 DEF Compare, Stop, feed
  <2> QED
    BY <2>1, <2>2
<1>7. CASE UNCHANGED <<link, serving, open>>
  BY <1>7
<1>8. \/ RenderJob \/ RenderEvents \/ ConnectFails \/ Connect
      \/ ReceiveDone \/ ReceiveTimeout \/ Disconnect \/ Backfill \/ BackfillFails
      \/ TickTimeout \/ (\E p \in Polls : Compare(p))
      \/ UNCHANGED <<link, serving, open>>
  BY NextCases
  DEF AppendEvent, MoveState, ReceiveState, ReceiveAudit, ReceiveError, PollFails, Tick,
      SendNew, ReadState, vars, table, feed, stream, channel
<1> QED
  BY <1>1, <1>2, <1>3, <1>4, <1>5, <1>6, <1>7, <1>8

\* A poll is started by a stream that is past its backfill.
LEMMA BackfillFirstStep ==
  ASSUME TypeOK, StreamOfLink, BackfillFirst, [Next]_vars
  PROVE  BackfillFirst'
<1> USE DEF BackfillFirst
<1>1. CASE RenderJob \/ RenderEvents \/ ConnectFails
  BY <1>1 DEF RenderJob, RenderEvents, ConnectFails, stream, channel, polls
<1>2. CASE Connect
  BY <1>2 DEF Connect, StreamOfLink, polls
<1>3. CASE ReceiveDone \/ ReceiveTimeout \/ Disconnect
  BY <1>3 DEF ReceiveDone, ReceiveTimeout, Disconnect, Forget
<1>4. CASE Backfill \/ BackfillFails \/ TickTimeout
  BY <1>4 DEF Backfill, BackfillFails, AfterBackfill, TickTimeout, Stop
<1>5. ASSUME NEW p \in Polls,
             Tick(p) \/ SendNew(p) \/ ReadState(p) \/ Compare(p) \/ PollFails(p)
      PROVE  BackfillFirst'
  <2>1. serving \notin {"nothing", "backfill"}
    BY <1>5 DEF Tick, SendNew, ReadState, Compare, PollFails
  <2>2. serving' \in {serving, "stopped"}
    BY <1>5 DEF Tick, SendNew, ReadState, Compare, PollFails, Stop
  <2> QED
    BY <2>1, <2>2
<1>6. CASE UNCHANGED <<serving, sends, pollAt>>
  BY <1>6
<1>7. \/ RenderJob \/ RenderEvents \/ ConnectFails \/ Connect
      \/ ReceiveDone \/ ReceiveTimeout \/ Disconnect \/ Backfill \/ BackfillFails
      \/ TickTimeout
      \/ (\E p \in Polls : \/ Tick(p) \/ SendNew(p) \/ ReadState(p) \/ Compare(p)
                           \/ PollFails(p))
      \/ UNCHANGED <<serving, sends, pollAt>>
  BY NextCases
  DEF AppendEvent, MoveState, ReceiveState, ReceiveAudit, ReceiveError,
      vars, stream, channel, polls
<1> QED
  BY <1>1, <1>2, <1>3, <1>4, <1>5, <1>6, <1>7

\* The backfill marks all it sends before any poll is under way, and a poll takes the
\* events it sends and marks in one step.
LEMMA SentIsMarkedStep ==
  ASSUME TypeOK, BackfillFirst, SentIsMarked, [Next]_vars
  PROVE  SentIsMarked'
<1> USE DEF SentIsMarked
<1>1. sends \in [Events -> Nat] /\ seenEventIds \subseteq Events
  BY DEF TypeOK
<1>2. CASE Forget
  BY <1>2 DEF Forget
<1>3. CASE Backfill
  <2>1. \A e \in Events : sends[e] = 0
    BY <1>3 DEF Backfill, BackfillFirst
  <2>2. sends' = Counted(sends, rows) \/ sends' = sends
    BY <1>3 DEF Backfill, EnqueueEvents
  <2> QED
    BY <1>1, <1>3, <2>1, <2>2, CountedFacts DEF Backfill
<1>4. ASSUME NEW p \in Polls, SendNew(p) PROVE SentIsMarked'
  <2>1. seenEventIds' = seenEventIds \cup New(p)
    BY <1>4 DEF SendNew
  <2>2. sends' = Counted(sends, New(p)) \/ sends' = sends
    BY <1>4 DEF SendNew, EnqueueEvents
  <2>3. \A e \in New(p) : e \notin seenEventIds
    BY DEF New
  <2>4. \A e \in New(p) : e \in Events => sends[e] = 0
    BY <1>1, <2>3
  <2>5. CASE sends' = sends
    BY <2>1, <2>5
  <2>6. CASE sends' = Counted(sends, New(p))
    <3>1. \A e \in Events : sends'[e] = IF e \in New(p) THEN sends[e] + 1 ELSE sends[e]
      BY <1>1, <2>6, CountedFacts
    <3> QED
      BY <2>1, <2>4, <3>1
  <2> QED
    BY <2>2, <2>5, <2>6
<1>5. CASE UNCHANGED <<sends, seenEventIds>>
  BY <1>5
<1>6. \/ Forget \/ Backfill \/ (\E p \in Polls : SendNew(p))
      \/ UNCHANGED <<sends, seenEventIds>>
  BY NextCases
  DEF AppendEvent, MoveState, RenderJob, RenderEvents, Connect, ConnectFails,
      ReceiveState, ReceiveAudit, ReceiveError, ReceiveDone, ReceiveTimeout, Disconnect,
      BackfillFails, TickTimeout, Tick, ReadState, Compare, PollFails,
      vars, stream, channel, marks
<1> QED
  BY <1>2, <1>3, <1>4, <1>5, <1>6

\* The page is rendered once, with no event shown, and a listener shows what it has
\* not marked.
LEMMA ShownIsSeenStep ==
  ASSUME TypeOK, ShownIsSeen, [Next]_vars
  PROVE  ShownIsSeen'
<1> USE DEF ShownIsSeen
<1>1. shown \in [Events -> Nat]
  BY DEF TypeOK
<1>2. CASE RenderEvents
  <2>1. /\ seenIds = {} /\ seenIds' = rows /\ link' \notin {"rendering", "rendered"}
        /\ shown' = Counted(shown, rows)
    BY <1>2 DEF RenderEvents
  <2> QED
    BY <1>1, <2>1, CountedFacts
<1>3. CASE ReceiveAudit
  <2> DEFINE ids == Head(wire).ids
  <2>1. /\ link = "open" /\ link' = link
        /\ seenIds' = seenIds \cup ids
        /\ shown' = Counted(shown, ids \ seenIds)
    BY <1>3 DEF ReceiveAudit, NextFrame
  <2> HIDE DEF ids
  <2>2. \A e \in Events : shown'[e] = IF e \in ids \ seenIds THEN shown[e] + 1 ELSE shown[e]
    BY <1>1, <2>1, CountedFacts
  <2> QED
    BY <2>1, <2>2
<1>4. CASE /\ UNCHANGED <<shown, seenIds>>
           /\ link' \in {"rendering", "rendered"} => link \in {"rendering", "rendered"}
  BY <1>4
<1>5. \/ RenderEvents \/ ReceiveAudit
      \/ /\ UNCHANGED <<shown, seenIds>>
         /\ link' \in {"rendering", "rendered"} => link \in {"rendering", "rendered"}
  BY NextCases
  DEF AppendEvent, MoveState, RenderJob, Connect, ConnectFails,
      ReceiveState, ReceiveError, ReceiveDone, ReceiveTimeout, Disconnect, Backfill,
      BackfillFails, TickTimeout, Tick, SendNew, ReadState, Compare, PollFails,
      vars, feed
<1> QED
  BY <1>2, <1>3, <1>4, <1>5

--------------------------------------------------------------------------------
\* An end frame is the last of what is sent, and the controller is closed with it.
EndsWith(frames) ==
  /\ Enqueue(frames)
  /\ open' => open
  /\ \A i \in 1..Len(frames) : IsEnd(frames[i]) => i = Len(frames) /\ ~open'

\* The frames of the stream, each a step that ends with them.
LEMMA BackfillEnds ==
  ASSUME TypeOK, Backfill \/ BackfillFails
  PROVE  \E frames \in Seq(Frame) : EndsWith(frames)
<1>1. /\ Ending \in Seq(Frame) /\ Len(Ending) <= 1
      /\ Len(Ending) = 0 \/ (Len(Ending) = 1 /\ Ending[1].type = "done")
      /\ Len(Ending) # 0 => ~open'
      /\ open' => open
  <2>1. initial \in TerminalStates => ~open'
    BY DEF Backfill, BackfillFails, AfterBackfill, Stop
  <2>2. open' => open
    BY DEF Backfill, BackfillFails, AfterBackfill, Stop
  <2> QED
    BY <2>1, <2>2, EndingFacts DEF TypeOK
<1>2. CASE Backfill
  <2>1. rows \in SUBSET Events /\ EnqueueEvents(rows, Ending)
    BY <1>2 DEF Backfill, TypeOK
  <2>2. PICK frames \in Seq(Frame) :
          /\ Enqueue(frames)
          /\ rows = {} => frames = Ending
          /\ rows # {} => /\ Len(frames) = Len(Ending) + 1
                          /\ frames[1] = AuditFrame(rows)
                          /\ \A i \in 1..Len(Ending) : frames[i + 1] = Ending[i]
    BY <1>1, <2>1, BatchFacts
  <2>3. ~IsEnd(AuditFrame(rows))
    BY DEF IsEnd, AuditFrame
  <2>4. CASE rows = {}
    BY <1>1, <2>2, <2>4 DEF EndsWith
  <2>5. CASE rows # {}
    <3>1. ASSUME NEW i \in 1..Len(frames), IsEnd(frames[i])
          PROVE  i = Len(frames) /\ ~open'
      <4>1. i # 1
        BY <2>2, <2>3, <2>5, <3>1
      <4>2. Len(Ending) \in {0, 1} /\ Len(frames) = Len(Ending) + 1
        BY <1>1, <2>2, <2>5
      <4> QED
        BY <1>1, <2>2, <2>5, <4>1, <4>2
    <3> QED
      BY <1>1, <2>2, <3>1 DEF EndsWith
  <2> QED
    BY <2>4, <2>5
<1>3. CASE BackfillFails
  <2> DEFINE frames == <<ErrorFrame>> \o Ending
  <2>1. ErrorFrame \in Frame /\ ~IsEnd(ErrorFrame)
    BY FrameTypes DEF IsEnd, ErrorFrame
  <2>2. /\ frames \in Seq(Frame) /\ Len(frames) = Len(Ending) + 1
        /\ frames[1] = ErrorFrame
    BY <1>1, <2>1
  <2>3. Enqueue(frames)
    BY <1>3 DEF BackfillFails
  <2> HIDE DEF frames
  <2>4. ASSUME NEW i \in 1..Len(frames), IsEnd(frames[i])
        PROVE  i = Len(frames) /\ ~open'
    <3>1. i # 1
      BY <2>1, <2>2, <2>4
    <3>2. Len(frames) \in {1, 2}
      BY <1>1, <2>2
    <3> QED
      BY <1>1, <2>2, <3>1, <3>2
  <2> QED
    BY <1>1, <2>2, <2>3, <2>4 DEF EndsWith
<1> QED
  BY <1>2, <1>3

LEMMA TimeoutEnds ==
  ASSUME TickTimeout
  PROVE  \E frames \in Seq(Frame) : EndsWith(frames)
<1>1. TimeoutFrame \in Frame
  BY FrameTypes
<1>2. <<TimeoutFrame>> \in Seq(Frame) /\ EndsWith(<<TimeoutFrame>>)
  BY <1>1 DEF TickTimeout, Stop, EndsWith
<1> QED
  BY <1>2

LEMMA PollEnds ==
  ASSUME TypeOK, NEW p \in Polls,
         \/ Tick(p) \/ SendNew(p) \/ ReadState(p) \/ Compare(p) \/ PollFails(p)
  PROVE  \/ UNCHANGED <<wire, open>>
         \/ \E frames \in Seq(Frame) : EndsWith(frames)
<1> DEFINE Goal == \/ UNCHANGED <<wire, open>>
                   \/ \E frames \in Seq(Frame) : EndsWith(frames)
<1>2. CASE Tick(p) \/ ReadState(p)
  BY <1>2 DEF Tick, ReadState, channel
<1>3. CASE SendNew(p)
  <2>1. New(p) \in SUBSET Events /\ EnqueueEvents(New(p), <<>>) /\ open' = open
    BY <1>3 DEF SendNew, New, TypeOK
  <2>2. <<>> \in Seq(Frame)
    OBVIOUS
  <2> DEFINE none == <<>>
  <2>3. PICK frames \in Seq(Frame) :
          /\ Enqueue(frames)
          /\ New(p) = {} => frames = none
          /\ New(p) # {} => /\ Len(frames) = Len(none) + 1
                            /\ frames[1] = AuditFrame(New(p))
    <3> HIDE DEF none
    <3> QED
      BY <2>1, <2>2, BatchFacts DEF none
  <2>4. \A i \in 1..Len(frames) : ~IsEnd(frames[i])
    BY <2>3 DEF IsEnd, AuditFrame
  <2> QED
    BY <2>1, <2>3, <2>4 DEF EndsWith
<1>4. CASE Compare(p)
  <2> DEFINE t == gotState[p]
  <2>1. /\ StateFrame(t) \in Frame /\ DoneFrame(t) \in Frame
        /\ ~IsEnd(StateFrame(t))
    BY FrameTypes DEF TypeOK, IsEnd, StateFrame
  <2>2. \/ UNCHANGED <<wire, open>>
        \/ Enqueue(<<StateFrame(t)>>) /\ open' = open
        \/ Enqueue(<<StateFrame(t), DoneFrame(t)>>) /\ open' = FALSE
    BY <1>4 DEF Compare, Stop
  <2> HIDE DEF t
  <2>3. CASE Enqueue(<<StateFrame(t)>>) /\ open' = open
    <3>1. <<StateFrame(t)>> \in Seq(Frame) /\ EndsWith(<<StateFrame(t)>>)
      BY <2>1, <2>3 DEF EndsWith
    <3> QED
      BY <3>1
  <2>4. CASE Enqueue(<<StateFrame(t), DoneFrame(t)>>) /\ open' = FALSE
    <3> DEFINE frames == <<StateFrame(t), DoneFrame(t)>>
    <3>1. frames \in Seq(Frame)
      BY <2>1
    <3>2. \A i \in 1..Len(frames) : IsEnd(frames[i]) => i = Len(frames)
      BY <2>1
    <3> QED
      BY <2>4, <3>1, <3>2 DEF EndsWith
  <2> QED
    BY <2>2, <2>3, <2>4
<1>5. CASE PollFails(p)
  <2>1. ErrorFrame \in Frame /\ ~IsEnd(ErrorFrame)
    BY FrameTypes DEF IsEnd, ErrorFrame
  <2>2. <<ErrorFrame>> \in Seq(Frame) /\ EndsWith(<<ErrorFrame>>)
    BY <1>5, <2>1 DEF PollFails, EndsWith
  <2> QED
    BY <2>2
<1> QED
  BY <1>2, <1>3, <1>4, <1>5

\* Behind an end frame there is nothing: the controller was closed with it.
LEMMA EndOfStreamStep ==
  ASSUME TypeOK, StreamOfLink, EndOfStream, OpenHasNoEnd, [Next]_vars
  PROVE  EndOfStream' /\ OpenHasNoEnd'
<1>1. wire \in Seq(Frame)
  BY DEF TypeOK
<1>2. CASE Forget
  BY <1>2 DEF Forget, EndOfStream, OpenHasNoEnd
<1>3. CASE Connect
  <2>1. wire' = <<StateFrame(jobState)>> /\ StateFrame(jobState).type = "state"
    BY <1>3 DEF Connect, StateFrame
  <2> QED
    BY <2>1 DEF EndOfStream, OpenHasNoEnd, IsEnd
<1>4. CASE wire # <<>> /\ wire' = Tail(wire) /\ open' = open
  <2>1. /\ Len(wire) \in Nat /\ Len(wire) >= 1 /\ Len(wire') = Len(wire) - 1
        /\ \A i \in 1..Len(wire') : wire'[i] = wire[i + 1]
    BY <1>1, <1>4, ReceiveFacts
  <2>2. \A i \in 1..Len(wire') : i + 1 \in 1..Len(wire)
    BY <2>1
  <2>3. EndOfStream'
    BY <2>1, <2>2 DEF EndOfStream
  <2>4. OpenHasNoEnd'
    BY <1>4, <2>1, <2>2 DEF OpenHasNoEnd
  <2> QED
    BY <2>3, <2>4
<1>5. ASSUME NEW frames \in Seq(Frame), EndsWith(frames)
      PROVE  EndOfStream' /\ OpenHasNoEnd'
  <2>1. CASE ~open
    <3>1. wire' = wire /\ ~open'
      BY <1>1, <1>5, <2>1, EnqueueFacts DEF EndsWith
    <3> QED
      BY <3>1 DEF EndOfStream, OpenHasNoEnd
  <2>2. CASE open
    <3>1. /\ Len(wire') = Len(wire) + Len(frames)
          /\ \A i \in 1..Len(wire) : wire'[i] = wire[i]
          /\ \A i \in 1..Len(frames) : wire'[Len(wire) + i] = frames[i]
      BY <1>1, <1>5, <2>2, EnqueueFacts DEF EndsWith
    <3>2. Len(wire) \in Nat /\ Len(frames) \in Nat
      BY <1>1
    <3>3. ASSUME NEW i \in 1..Len(wire'), IsEnd(wire'[i])
          PROVE  i = Len(wire') /\ ~open'
      <4>1. i \notin 1..Len(wire)
        BY <2>2, <3>1, <3>3 DEF OpenHasNoEnd
      <4>2. PICK j \in 1..Len(frames) : i = Len(wire) + j
        <5>1. i - Len(wire) \in 1..Len(frames) /\ i = Len(wire) + (i - Len(wire))
          BY <3>1, <3>2, <4>1
        <5> QED
          BY <5>1
      <4>3. IsEnd(frames[j])
        BY <3>1, <3>3, <4>2
      <4> QED
        BY <1>5, <3>1, <4>2, <4>3 DEF EndsWith
    <3> QED
      BY <3>3 DEF EndOfStream, OpenHasNoEnd, IsEnd
  <2> QED
    BY <2>1, <2>2
<1>6. CASE UNCHANGED <<wire, open>>
  BY <1>6 DEF EndOfStream, OpenHasNoEnd
<1>7. CASE Backfill \/ BackfillFails \/ TickTimeout
  BY <1>5, <1>7, BackfillEnds, TimeoutEnds
<1>8. ASSUME NEW p \in Polls,
             Tick(p) \/ SendNew(p) \/ ReadState(p) \/ Compare(p) \/ PollFails(p)
      PROVE  EndOfStream' /\ OpenHasNoEnd'
  BY <1>5, <1>6, <1>8, PollEnds
<1>9. CASE ReceiveState \/ ReceiveAudit \/ ReceiveError
  BY <1>4, <1>9 DEF ReceiveState, ReceiveAudit, ReceiveError, NextFrame
<1>10. CASE ReceiveDone \/ ReceiveTimeout \/ Disconnect
  BY <1>2, <1>10 DEF ReceiveDone, ReceiveTimeout, Disconnect
<1>11. CASE RenderJob \/ RenderEvents \/ ConnectFails
  BY <1>6, <1>11 DEF RenderJob, RenderEvents, ConnectFails, stream, channel
<1>12. CASE (\E e \in Events : AppendEvent(e)) \/ (\E t \in States : MoveState(t))
            \/ UNCHANGED vars
  BY <1>6, <1>12 DEF AppendEvent, MoveState, vars, stream, channel
<1> QED
  BY <1>3, <1>7, <1>8, <1>9, <1>10, <1>11, <1>12, NextCases

--------------------------------------------------------------------------------
\* A page and a stream read the state once, and a stream that read a terminal one
\* stops after its backfill.
LEMMA FoundEndedStep ==
  ASSUME TypeOK, StreamOfLink, BackfillFirst, FoundEnded, [Next]_vars
  PROVE  FoundEnded'
<1> USE DEF FoundEnded
<1>1. ASSUME NEW t \in States, MoveState(t) PROVE FoundEnded'
  BY <1>1 DEF MoveState, feed, stream, polls
<1>2. CASE RenderJob \/ Connect
  <2>1. serving = "nothing"
    BY <1>2 DEF RenderJob, Connect, StreamOfLink, TypeOK
  <2>2. \A p \in Polls : pollAt[p] = "idle"
    BY <2>1 DEF BackfillFirst
  <2>3. CASE RenderJob
    BY <2>1, <2>2, <2>3 DEF RenderJob, table, polls
  <2>4. CASE Connect
    BY <2>2, <2>4 DEF Connect, table, polls
  <2> QED
    BY <1>2, <2>3, <2>4
<1>3. CASE RenderEvents \/ ConnectFails
  BY <1>3 DEF RenderEvents, ConnectFails, table, stream, polls
<1>4. CASE ReceiveState \/ ReceiveAudit \/ ReceiveError
  <2>1. link = "open" /\ UNCHANGED <<jobState, ended, initial, link, serving, pollAt>>
    BY <1>4
    DEF ReceiveState, ReceiveAudit, ReceiveError, NextFrame, table, polls
  <2> QED
    BY <2>1
<1>5. CASE ReceiveDone \/ ReceiveTimeout \/ Disconnect
  BY <1>5 DEF ReceiveDone, ReceiveTimeout, Disconnect, Forget, table
<1>6. CASE Backfill \/ BackfillFails
  <2>1. initial \in TerminalStates => serving' = "stopped"
    BY <1>6 DEF Backfill, BackfillFails, AfterBackfill, Stop
  <2> QED
    BY <1>6, <2>1 DEF Backfill, BackfillFails, table, feed, polls
<1>7. CASE TickTimeout
  BY <1>7 DEF TickTimeout, Stop, table, feed, polls
<1>8. ASSUME NEW p \in Polls,
             Tick(p) \/ SendNew(p) \/ ReadState(p) \/ Compare(p) \/ PollFails(p)
      PROVE  FoundEnded'
  <2>1. initial \notin TerminalStates
    BY <1>8 DEF Tick, SendNew, ReadState, Compare, PollFails
  <2>2. UNCHANGED <<jobState, ended, link, badge, initial>>
    BY <1>8 DEF Tick, SendNew, ReadState, Compare, PollFails, table, feed
  <2> QED
    BY <2>1, <2>2
<1>9. CASE (\E e \in Events : AppendEvent(e)) \/ UNCHANGED vars
  BY <1>9 DEF AppendEvent, vars, table, feed, stream, polls
<1> QED
  BY <1>1, <1>2, <1>3, <1>4, <1>5, <1>6, <1>7, <1>8, <1>9, NextCases

\* The rows a job that was found ended had left stay the same.
LEMMA DueIsFixed ==
  ASSUME TypeOK, FoundEnded, [Next]_vars, initial \in TerminalStates
  PROVE  due' = due
<1>1. ended
  BY DEF FoundEnded
<1>2. ASSUME NEW t \in States, MoveState(t) PROVE due' = due
  BY <1>1, <1>2 DEF MoveState
<1>3. ASSUME NEW p \in Polls,
             Tick(p) \/ SendNew(p) \/ ReadState(p) \/ Compare(p) \/ PollFails(p)
      PROVE  due' = due
  BY <1>3 DEF Tick, SendNew, ReadState, Compare, PollFails, table
<1> QED
  BY <1>2, <1>3, NextCases
  DEF AppendEvent, RenderJob, RenderEvents, Connect, ConnectFails, ReceiveState,
      ReceiveAudit, ReceiveError, ReceiveDone, ReceiveTimeout, Disconnect, Backfill,
      BackfillFails, TickTimeout, vars, table

\* What was on its way is shown, or still is; nothing overtakes it.
LEMMA DueStep ==
  ASSUME TypeOK, StreamOfLink, FoundEnded, DueIsOnItsWay, [Next]_vars
  PROVE  DueIsOnItsWay'
<1> DEFINE Found == link = "open" /\ initial \in TerminalStates
<1>1. wire \in Seq(Frame) /\ Len(wire) \in Nat
  BY DEF TypeOK
<1>2. CASE link' # "open" \/ initial' \notin TerminalStates \/ serving' # "stopped"
           \/ streamError' = "sent"
  BY <1>2 DEF DueIsOnItsWay
<1>3. CASE Backfill
  <2>1. CASE initial \notin TerminalStates
    BY <1>2, <1>3, <2>1 DEF Backfill
  <2>2. CASE initial \in TerminalStates /\ rows = {}
    <3>1. due' = {}
      BY <2>2, DueIsFixed DEF TypeOK
    <3> QED
      BY <3>1 DEF DueIsOnItsWay
  <2>3. CASE initial \in TerminalStates /\ rows # {}
    <3>1. /\ rows \in SUBSET Events /\ Ending \in Seq(Frame) /\ Len(Ending) \in Nat
          /\ EnqueueEvents(rows, Ending) /\ open
      BY <1>3, EndingFacts DEF Backfill, TypeOK, StreamOfLink
    <3>2. PICK frames \in Seq(Frame) :
            /\ Enqueue(frames)
            /\ Len(frames) = Len(Ending) + 1
            /\ frames[1] = AuditFrame(rows)
      BY <2>3, <3>1, BatchFacts
    <3>3. 1 \in 1..Len(frames) /\ Len(frames) \in Nat
      BY <3>1, <3>2
    <3>4. Len(wire) + 1 \in 1..Len(wire') /\ wire'[Len(wire) + 1] = AuditFrame(rows)
      BY <1>1, <3>1, <3>2, <3>3, EnqueueFacts
    <3>5. \A e \in due' : e \in rows
      BY <2>3, DueIsFixed DEF TypeOK
    <3>6. \A e \in rows : Brings(AuditFrame(rows), e)
      BY DEF Brings, AuditFrame
    <3> QED
      BY <3>4, <3>5, <3>6 DEF DueIsOnItsWay
  <2> QED
    BY <2>1, <2>2, <2>3
<1>4. CASE BackfillFails
  <2> DEFINE frames == <<ErrorFrame>> \o Ending
  <2>1. /\ frames \in Seq(Frame) /\ 1 \in 1..Len(frames) /\ frames[1] = ErrorFrame
    BY FrameTypes, EndingFacts DEF TypeOK
  <2>2. Enqueue(frames) /\ open
    BY <1>4 DEF BackfillFails, StreamOfLink
  <2> HIDE DEF frames
  <2>3. Len(frames) \in Nat
    BY <2>1
  <2>4. Len(wire) + 1 \in 1..Len(wire') /\ wire'[Len(wire) + 1] = ErrorFrame
    BY <1>1, <2>1, <2>2, <2>3, EnqueueFacts
  <2>5. ErrorFrame.type = "error"
    BY DEF ErrorFrame
  <2> QED
    BY <2>4, <2>5 DEF DueIsOnItsWay
<1>5. ASSUME NEW p \in Polls,
             Tick(p) \/ SendNew(p) \/ ReadState(p) \/ Compare(p) \/ PollFails(p)
      PROVE  DueIsOnItsWay'
  <2>1. initial' \notin TerminalStates
    BY <1>5 DEF Tick, SendNew, ReadState, Compare, PollFails, FoundEnded
  <2> QED
    BY <1>2, <2>1
<1>6. CASE TickTimeout
  <2>1. initial' \notin TerminalStates
    BY <1>6 DEF TickTimeout, FoundEnded
  <2> QED
    BY <1>2, <2>1
<1>7. CASE RenderJob \/ RenderEvents \/ Connect \/ ConnectFails \/ ReceiveDone
           \/ ReceiveTimeout \/ ReceiveError \/ Disconnect
  <2>1. link' # "open" \/ serving' # "stopped" \/ streamError' = "sent"
    BY <1>7
    DEF RenderJob, RenderEvents, Connect, ConnectFails, ReceiveDone, ReceiveTimeout,
        ReceiveError, Disconnect
  <2> QED
    BY <1>2, <2>1
<1>8. CASE ReceiveState \/ ReceiveAudit
  <2>1. /\ UNCHANGED <<link, initial, serving, streamError>>
        /\ wire # <<>> /\ wire' = Tail(wire)
        /\ Head(wire).type \in {"state", "audit"}
    BY <1>8 DEF ReceiveState, ReceiveAudit, NextFrame
  <2>2. /\ Head(wire) = wire[1] /\ Len(wire) >= 1 /\ Len(wire') = Len(wire) - 1
        /\ \A i \in 1..Len(wire') : wire'[i] = wire[i + 1]
    BY <1>1, <2>1, ReceiveFacts
  <2>3. SUFFICES ASSUME Found, serving = "stopped", streamError # "sent"
                 PROVE  DueIsOnItsWay'
    BY <1>2, <2>1
  <2>4. due' = due
    BY <2>3, DueIsFixed
  <2>5. \A i \in 1..Len(wire) : i # 1 => i - 1 \in 1..Len(wire') /\ wire'[i - 1] = wire[i]
    BY <1>1, <2>2
  <2>6. CASE \E i \in 1..Len(wire) : wire[i].type = "error"
    <3>1. PICK i \in 1..Len(wire) : wire[i].type = "error"
      BY <2>6
    <3>2. i # 1
      BY <2>1, <2>2, <3>1
    <3>3. i - 1 \in 1..Len(wire') /\ wire'[i - 1].type = "error"
      BY <2>5, <3>1, <3>2
    <3> QED
      BY <3>3 DEF DueIsOnItsWay
  <2>7. CASE \A e \in due : e \in seenIds \/ \E i \in 1..Len(wire) : Brings(wire[i], e)
    <3>1. ASSUME NEW e \in due
          PROVE  e \in seenIds' \/ \E i \in 1..Len(wire') : Brings(wire'[i], e)
      <4>1. seenIds \subseteq seenIds'
        BY <1>8 DEF ReceiveState, ReceiveAudit
      <4>2. Brings(wire[1], e) => e \in seenIds'
        BY <1>8, <2>2 DEF ReceiveState, ReceiveAudit, NextFrame, Brings
      <4>3. ASSUME NEW i \in 1..Len(wire), i # 1, Brings(wire[i], e)
            PROVE  \E j \in 1..Len(wire') : Brings(wire'[j], e)
        BY <2>5, <4>3
      <4> QED
        BY <2>7, <4>1, <4>2, <4>3
    <3> QED
      BY <2>4, <3>1 DEF DueIsOnItsWay
  <2> QED
    BY <2>3, <2>6, <2>7 DEF DueIsOnItsWay
<1>9. CASE UNCHANGED <<link, initial, serving, streamError, wire, seenIds>>
  <2>1. initial \in TerminalStates => due' = due
    BY DueIsFixed
  <2> QED
    BY <1>9, <2>1 DEF DueIsOnItsWay
<1>10. ASSUME NEW e \in Events, AppendEvent(e)
       PROVE  UNCHANGED <<link, initial, serving, streamError, wire, seenIds>>
  BY <1>10 DEF AppendEvent, feed, stream, channel
<1>11. ASSUME NEW t \in States, MoveState(t)
       PROVE  UNCHANGED <<link, initial, serving, streamError, wire, seenIds>>
  BY <1>11 DEF MoveState, feed, stream, channel
<1>12. UNCHANGED vars => UNCHANGED <<link, initial, serving, streamError, wire, seenIds>>
  BY DEF vars, feed, stream, channel
<1> QED
  BY <1>3, <1>4, <1>5, <1>6, <1>7, <1>8, <1>9, <1>10, <1>11, <1>12, NextCases

\* The last frame is received when all before it were.
LEMMA PostMortemStep ==
  ASSUME IInv, [Next]_vars
  PROVE  PostMortemIsWhole'
<1> USE DEF IInv
<1>1. /\ shown \in [Events -> Nat] /\ due \subseteq rows /\ rows \subseteq Events
      /\ wire \in Seq(Frame)
  BY DEF TypeOK
<1>2. CASE link' # "done" \/ initial' \notin TerminalStates
  BY <1>2 DEF PostMortemIsWhole
<1>3. CASE RenderEvents
  <2>1. initial' = initial /\ due' = due /\ shown' = Counted(shown, rows)
    BY <1>3 DEF RenderEvents, table, stream
  <2>2. \A e \in due' : shown'[e] > 0
    BY <1>1, <2>1, CountedFacts
  <2> QED
    BY <2>2 DEF PostMortemIsWhole
<1>4. CASE ReceiveDone
  <2>1. /\ link = "open" /\ wire # <<>> /\ Head(wire).type = "done"
        /\ UNCHANGED <<due, streamError, shown, seenIds, initial>>
    BY <1>4 DEF ReceiveDone, NextFrame, table
  <2>2. Head(wire) = wire[1] /\ Len(wire) \in Nat /\ Len(wire) >= 1
    BY <1>1, <2>1, ReceiveFacts
  <2>3. Len(wire) = 1 /\ wire[1].type = "done"
    <3>1. wire[1].type = "done" /\ 1 \in 1..Len(wire)
      BY <2>1, <2>2
    <3>2. EndOfStream
      OBVIOUS
    <3> QED
      BY <3>1, <3>2, <2>2 DEF EndOfStream
  <2>4. serving = "stopped"
    BY <2>1, <2>3 DEF OpenHasNoEnd, IsEnd, StreamOfLink, TypeOK
  <2>5. SUFFICES ASSUME initial \in TerminalStates, streamError # "sent"
                 PROVE  \A e \in due : shown[e] > 0
    BY <2>1 DEF PostMortemIsWhole
  <2>6. \A i \in 1..Len(wire) : wire[i].type # "error" /\ wire[i].type # "audit"
    BY <2>3
  <2>7. \A e \in due : e \in seenIds
    BY <2>1, <2>4, <2>5, <2>6 DEF DueIsOnItsWay, Brings
  <2> QED
    BY <1>1, <2>7 DEF ShownIsSeen
<1>5. CASE link = "done" /\ initial \in TerminalStates
           /\ UNCHANGED <<link, initial, streamError, shown>>
  <2>1. due' = due
    BY <1>5, DueIsFixed
  <2> QED
    BY <1>5, <2>1 DEF PostMortemIsWhole
<1>6. CASE RenderJob \/ Connect \/ ConnectFails \/ ReceiveTimeout \/ Disconnect
           \/ ReceiveState \/ ReceiveAudit \/ ReceiveError
  <2>1. link' # "done"
    BY <1>6
    DEF RenderJob, Connect, ConnectFails, ReceiveTimeout, Disconnect, ReceiveState,
        ReceiveAudit, ReceiveError, NextFrame
  <2> QED
    BY <1>2, <2>1
<1>7. CASE Backfill \/ BackfillFails \/ TickTimeout
  <2>1. UNCHANGED <<link, initial, shown>> /\ serving # "nothing"
    BY <1>7 DEF Backfill, BackfillFails, TickTimeout, feed
  <2>2. link' # "done"
    BY <2>1 DEF StreamOfLink
  <2> QED
    BY <1>2, <2>2
<1>8. ASSUME NEW p \in Polls,
             Tick(p) \/ SendNew(p) \/ ReadState(p) \/ Compare(p) \/ PollFails(p)
      PROVE  PostMortemIsWhole'
  <2>1. initial' \notin TerminalStates
    BY <1>8 DEF Tick, SendNew, ReadState, Compare, PollFails, FoundEnded
  <2> QED
    BY <1>2, <2>1
<1>9. ASSUME UNCHANGED <<link, initial, streamError, shown>>
      PROVE  PostMortemIsWhole'
  BY <1>2, <1>5, <1>9
<1>10. (\E e \in Events : AppendEvent(e)) \/ (\E t \in States : MoveState(t))
       \/ UNCHANGED vars
       => UNCHANGED <<link, initial, streamError, shown>>
  BY DEF AppendEvent, MoveState, vars, feed, stream
<1> QED
  BY <1>3, <1>4, <1>6, <1>7, <1>8, <1>9, <1>10, NextCases

--------------------------------------------------------------------------------
LEMMA InitInv == Init => IInv
<1> SUFFICES ASSUME Init PROVE IInv
  OBVIOUS
<1>1. TypeOK
  <2>1. wire \in Seq(Frame)
    BY DEF Init
  <2>2. /\ moves \in 0..MaxMoves /\ faults \in 0..MaxFaults
        /\ link \in Links
        /\ jobState \in States /\ badge \in States
    BY BoundsAssumption DEF Init, States, Links
  <2> QED
    BY <2>1, <2>2 DEF Init, TypeOK, States
<1>2. StreamOfLink /\ BackfillFirst /\ SentIsMarked /\ ShownIsSeen
  BY DEF Init, StreamOfLink, BackfillFirst, SentIsMarked, ShownIsSeen
<1>3. EndOfStream /\ OpenHasNoEnd
  BY DEF Init, EndOfStream, OpenHasNoEnd
<1>4. FoundEnded /\ DueIsOnItsWay /\ PostMortemIsWhole
  BY DEF Init, FoundEnded, DueIsOnItsWay, PostMortemIsWhole, TerminalStates
<1> QED
  BY <1>1, <1>2, <1>3, <1>4 DEF IInv

LEMMA InductiveStep == IInv /\ [Next]_vars => IInv'
<1> SUFFICES ASSUME IInv, [Next]_vars PROVE IInv'
  OBVIOUS
<1>1. TypeOK'
  BY TypeStep DEF IInv
<1>2. StreamOfLink' /\ BackfillFirst'
  BY StreamOfLinkStep, BackfillFirstStep DEF IInv
<1>3. SentIsMarked' /\ ShownIsSeen'
  BY SentIsMarkedStep, ShownIsSeenStep DEF IInv
<1>4. EndOfStream' /\ OpenHasNoEnd'
  BY EndOfStreamStep DEF IInv
<1>5. FoundEnded' /\ DueIsOnItsWay'
  BY FoundEndedStep, DueStep DEF IInv
<1>6. PostMortemIsWhole'
  BY PostMortemStep
<1> QED
  BY <1>1, <1>2, <1>3, <1>4, <1>5, <1>6 DEF IInv

\* The invariant holds at every step.
THEOREM Invariance == Spec => []IInv
BY InitInv, InductiveStep, PTL DEF Spec

\* Every variable of page and stream keeps its type.
THEOREM TypeCorrectness == Spec => []TypeOK
<1>1. IInv => TypeOK
  BY DEF IInv
<1> QED
  BY <1>1, Invariance, PTL

\* The claim of route.ts, 113: for any number of overlapping polls, no event is sent
\* twice by a stream.
THEOREM NeverSentTwice == Spec => []NoDoubleSend
<1>1. IInv => NoDoubleSend
  BY DEF IInv, SentIsMarked, NoDoubleSend
<1> QED
  BY <1>1, Invariance, PTL

\* However often the connection drops, the list has no event twice.
THEOREM NeverShownTwice == Spec => []ShownOnce
<1>1. IInv => ShownOnce
  BY DEF IInv, ShownIsSeen, ShownOnce
<1> QED
  BY <1>1, Invariance, PTL

\* However many polls are under way when a stream stops, its last frame is its last.
THEOREM LastFrameIsLast == Spec => []EndOfStream
<1>1. IInv => EndOfStream
  BY DEF IInv
<1> QED
  BY <1>1, Invariance, PTL

\* A page opened after the job's end, or reconnected after it, shows the whole log the
\* job left, whatever the job has done since.
THEOREM PostMortem == Spec => []PostMortemIsWhole
<1>1. IInv => PostMortemIsWhole
  BY DEF IInv
<1> QED
  BY <1>1, Invariance, PTL

================================================================================
