------------------------------- MODULE JobStream -------------------------------
(***************************************************************************)
(* The live progress of one job: the SSE route /api/jobs/[jobId]/stream,    *)
(* which polls the database, and the page's JobLiveFeed, which opens an     *)
(* EventSource on it, shows what arrives, and reconnects when it drops.     *)
(*                                                                          *)
(* The poll is an async callback of setInterval: nothing waits for it, so a *)
(* poll may start while others are at one of their two reads. The model     *)
(* splits a poll at its awaits: read the events, send the new ones, read    *)
(* the job, compare.  A batch of audit frames enqueued back to back is one  *)
(* frame here, and what arrives of it arrives whole.                        *)
(*                                                                          *)
(* The job itself is the environment. Its runners append rows to            *)
(* audit_events and move jobs.state to and fro (JobPipeline): an event is   *)
(* named by its timestamp, and rows need not commit in that order.          *)
(***************************************************************************)
EXTENDS Integers, Sequences

CONSTANTS
  MaxPolls,      \* bound: polls of a stream under way at once
  MaxEvents,     \* bound: audit_events rows of the job
  MaxMoves,      \* bound: changes of jobs.state
  MaxFaults      \* bound: failed reads and dropped connections

ASSUME BoundsAssumption ==
  /\ MaxPolls \in Nat \ {0}
  /\ MaxEvents \in Nat
  /\ MaxMoves \in Nat
  /\ MaxFaults \in Nat

Events == 1..MaxEvents

Polls == 1..MaxPolls

\* Two states of a job at work, and one of TERMINAL_STATES.
TerminalStates == {"done"}
States == {"patching", "audited"} \cup TerminalStates

VARIABLES
  jobState,      \* jobs.state
  rows,          \* audit_events of the job
  ended,         \* history: the job has ended, at least once
  due,           \* history: the rows there were when it first did
  moves,         \* changes of jobs.state so far
  faults,        \* failed reads and dropped connections so far
  link,          \* the feed: rendering, its EventSource, or how it ended
  badge,         \* the state the feed shows
  streamError,   \* the error it shows: none, one it was sent, or its own
  shown,         \* how many times the feed's list has each event
  seenIds,       \* the feed's seenIds
  serving,       \* what the stream on the server does
  open,          \* its controller is not closed
  wire,          \* the frames on their way to the client
  sends,         \* history: how many times this stream sent each event
  initial,       \* the state in which the page, then its stream, found the job
  seenEventIds,  \* the stream's seenEventIds
  lastState,     \* the stream's lastState
  pollAt,        \* the await each poll is at
  gotEvents,     \* what its first read returned, until it is used
  gotState       \* what its second read returned, until it is used

table == <<jobState, rows, ended, due, moves>>
feed == <<link, badge, streamError, shown, seenIds>>
channel == <<open, wire, sends>>
marks == <<seenEventIds, lastState>>
polls == <<pollAt, gotEvents, gotState>>
stream == <<serving, channel, initial, marks, polls>>

vars == <<table, faults, feed, stream>>

--------------------------------------------------------------------------------
StateFrame(s) == [type |-> "state", state |-> s]
DoneFrame(s) == [type |-> "done", state |-> s]
AuditFrame(ids) == [type |-> "audit", ids |-> ids]

\* Mutant of ErrorFrame: a type the client does not listen for.
ErrorFrame_Renamed == [type |-> "failure"]

ErrorFrame == [type |-> "error"]
TimeoutFrame == [type |-> "timeout"]

Frame == [type : {"state", "done"}, state : States]
           \cup [type : {"audit"}, ids : SUBSET Events]
           \cup [type : {"error", "timeout"}]

Links == {"rendering", "rendered", "connecting", "open", "done", "timeout",
          "failed"}

Init ==
  /\ jobState \in States \ TerminalStates
  /\ rows = {}
  /\ ended = FALSE
  /\ due = {}
  /\ moves = 0
  /\ faults = 0
  /\ link = "rendering"
  /\ badge = "patching"
  /\ streamError = "none"
  /\ shown = [e \in Events |-> 0]
  /\ seenIds = {}
  /\ serving = "nothing"
  /\ open = FALSE
  /\ wire = <<>>
  /\ sends = [e \in Events |-> 0]
  /\ initial = "patching"
  /\ seenEventIds = {}
  /\ lastState = "patching"
  /\ pollAt = [p \in Polls |-> "idle"]
  /\ gotEvents = [p \in Polls |-> {}]
  /\ gotState = [p \in Polls |-> "patching"]

Faulty == faults < MaxFaults /\ faults' = faults + 1

--------------------------------------------------------------------------------
(* The job.                                                                 *)

AppendEvent(e) ==
  /\ e \notin rows
  /\ rows' = rows \cup {e}
  /\ UNCHANGED <<jobState, ended, due, moves, faults, feed, stream>>

MoveState(s) ==
  /\ s # jobState
  /\ moves < MaxMoves
  /\ moves' = moves + 1
  /\ jobState' = s
  /\ ended' = (ended \/ s \in TerminalStates)
  /\ due' = IF ended' /\ ~ended THEN rows ELSE due
  /\ UNCHANGED <<rows, faults, feed, stream>>

--------------------------------------------------------------------------------
(* The page and its feed.                                                   *)

\* A count for every event, with those of ids counted once more.
Counted(count, ids) == [e \in Events |-> IF e \in ids THEN count[e] + 1 ELSE count[e]]

\* JobPage reads the job ...
RenderJob ==
  /\ link = "rendering"
  /\ badge' = jobState
  /\ initial' = jobState
  /\ link' = "rendered"
  /\ UNCHANGED <<table, faults, streamError, shown, seenIds, serving, channel, marks,
                 polls>>

\* ... and then its events. A feed whose job had ended opens no stream.
RenderEvents ==
  /\ link = "rendered"
  /\ shown' = Counted(shown, rows)
  /\ seenIds' = rows
  /\ link' = IF badge \in TerminalStates THEN "done" ELSE "connecting"
  /\ UNCHANGED <<table, faults, badge, streamError, stream>>

\* The connection is gone, and with it what the stream's closures had: what its
\* polls still do ends in a controller nobody reads.
Forget ==
  /\ serving' = "nothing"
  /\ open' = FALSE
  /\ wire' = <<>>
  /\ sends' = [e \in Events |-> 0]
  /\ seenEventIds' = {}
  /\ lastState' = "patching"
  /\ pollAt' = [p \in Polls |-> "idle"]
  /\ gotEvents' = [p \in Polls |-> {}]
  /\ gotState' = [p \in Polls |-> "patching"]

NextFrame(type) == link = "open" /\ wire # <<>> /\ Head(wire).type = type

\* The listeners of JobLiveFeed.
ReceiveState ==
  /\ NextFrame("state")
  /\ badge' = Head(wire).state
  /\ wire' = Tail(wire)
  /\ UNCHANGED <<table, faults, link, streamError, shown, seenIds, serving, open, sends,
                 initial, marks, polls>>

\* Mutant of ReceiveAudit: the feed relies on the stream not to repeat an event.
ReceiveAudit_Unchecked ==
  /\ NextFrame("audit")
  /\ shown' = Counted(shown, Head(wire).ids)
  /\ seenIds' = seenIds \cup Head(wire).ids
  /\ wire' = Tail(wire)
  /\ UNCHANGED <<table, faults, link, badge, streamError, serving, open, sends, initial,
                 marks, polls>>

ReceiveAudit ==
  /\ NextFrame("audit")
  /\ shown' = Counted(shown, Head(wire).ids \ seenIds)
  /\ seenIds' = seenIds \cup Head(wire).ids
  /\ wire' = Tail(wire)
  /\ UNCHANGED <<table, faults, link, badge, streamError, serving, open, sends, initial,
                 marks, polls>>

ReceiveError ==
  /\ NextFrame("error")
  /\ streamError' = "sent"
  /\ wire' = Tail(wire)
  /\ UNCHANGED <<table, faults, link, badge, shown, seenIds, serving, open, sends,
                 initial, marks, polls>>

\* done and timeout close the EventSource.
ReceiveDone ==
  /\ NextFrame("done")
  /\ badge' = Head(wire).state
  /\ link' = "done"
  /\ Forget
  /\ UNCHANGED <<table, faults, streamError, shown, seenIds, initial>>

ReceiveTimeout ==
  /\ NextFrame("timeout")
  /\ link' = "timeout"
  /\ Forget
  /\ UNCHANGED <<table, faults, badge, streamError, shown, seenIds, initial>>

\* The connection drops with what was on its way. The abort signal stops the
\* stream, and the EventSource will open another.
Disconnect ==
  /\ link = "open"
  /\ Faulty
  /\ link' = "connecting"
  /\ streamError' = "interrupted"
  /\ Forget
  /\ UNCHANGED <<table, badge, shown, seenIds, initial>>

--------------------------------------------------------------------------------
(* The stream: GET.                                                         *)

\* An exception in enqueue means that the controller is closed.
Enqueue(frames) == wire' = IF open THEN wire \o frames ELSE wire

\* Enqueue an audit frame for every event of ids, if there are any, and then more.
EnqueueEvents(ids, more) ==
  /\ Enqueue(IF ids = {} THEN more ELSE <<AuditFrame(ids)>> \o more)
  /\ sends' = IF open THEN Counted(sends, ids) ELSE sends

\* Mutant of Stop: the intervals are cleared and the controller left open.
Stop_LeavesOpen ==
  /\ serving' = "stopped"
  /\ UNCHANGED open

\* stop(): clear the intervals and close the controller.
Stop ==
  /\ serving' = "stopped"
  /\ open' = FALSE

\* GET finds the job, and the stream starts with a snapshot of its state.
Connect ==
  /\ link = "connecting"
  /\ link' = "open"
  /\ serving' = "backfill"
  /\ open' = TRUE
  /\ wire' = <<StateFrame(jobState)>>
  /\ initial' = jobState
  /\ lastState' = jobState
  /\ UNCHANGED <<table, faults, badge, streamError, shown, seenIds, sends, seenEventIds,
                 polls>>

\* The read of the job throws: the response is a 500, after which an EventSource
\* does not try again.
ConnectFails ==
  /\ link = "connecting"
  /\ Faulty
  /\ link' = "failed"
  /\ streamError' = "interrupted"
  /\ UNCHANGED <<table, badge, shown, seenIds, stream>>

\* What follows the backfill: a job that had ended when GET read it ends the
\* stream, any other is polled.
Ending == IF initial \in TerminalStates THEN <<DoneFrame(initial)>> ELSE <<>>

AfterBackfill ==
  \/ initial \in TerminalStates /\ Stop
  \/ initial \notin TerminalStates /\ serving' = "polling" /\ UNCHANGED open

\* Mutant of Backfill: what the backfill sends is not marked.
Backfill_Unmarked ==
  /\ serving = "backfill"
  /\ EnqueueEvents(rows, Ending)
  /\ AfterBackfill
  /\ UNCHANGED <<table, faults, feed, initial, marks, polls>>

\* Mutant of Backfill: it also takes the job's state as the last one sent.
Backfill_RefreshesState ==
  /\ serving = "backfill"
  /\ seenEventIds' = rows
  /\ lastState' = jobState
  /\ EnqueueEvents(rows, Ending)
  /\ AfterBackfill
  /\ UNCHANGED <<table, faults, feed, initial, polls>>

\* Mutant of Backfill: a stream that is to end at once sends no events.
Backfill_EndFirst ==
  /\ serving = "backfill"
  /\ seenEventIds' = IF initial \in TerminalStates THEN {} ELSE rows
  /\ EnqueueEvents(seenEventIds', Ending)
  /\ AfterBackfill
  /\ UNCHANGED <<table, faults, feed, initial, lastState, polls>>

\* Everything the log has now.
Backfill ==
  /\ serving = "backfill"
  /\ seenEventIds' = rows
  /\ EnqueueEvents(rows, Ending)
  /\ AfterBackfill
  /\ UNCHANGED <<table, faults, feed, initial, lastState, polls>>

BackfillFails ==
  /\ serving = "backfill"
  /\ Faulty
  /\ Enqueue(<<ErrorFrame>> \o Ending)
  /\ AfterBackfill
  /\ UNCHANGED <<table, feed, sends, initial, marks, polls>>

--------------------------------------------------------------------------------
(* The stream: its polls.                                                   *)

\* The interval fires within the five minutes: a poll reads the events.
Tick(p) ==
  /\ serving = "polling"
  /\ pollAt[p] = "idle"
  /\ gotEvents' = [gotEvents EXCEPT ![p] = rows]
  /\ pollAt' = [pollAt EXCEPT ![p] = "events"]
  /\ UNCHANGED <<table, faults, feed, serving, channel, initial, marks, gotState>>

\* The interval fires after five minutes.
TickTimeout ==
  /\ serving = "polling"
  /\ Enqueue(<<TimeoutFrame>>)
  /\ Stop
  /\ UNCHANGED <<table, faults, feed, sends, initial, marks, polls>>

\* Mutant of New: events older than the latest one sent are taken as sent.
New_Watermark(p) == {e \in gotEvents[p] : \A s \in seenEventIds : e > s}

\* Of the events a poll has read, those that no other has sent.
New(p) == gotEvents[p] \ seenEventIds

\* The events were read: send the new ones, and mark them. If the controller is
\* closed the first enqueue throws, and the poll ends.
SendNew(p) ==
  /\ pollAt[p] = "events"
  /\ EnqueueEvents(New(p), <<>>)
  /\ seenEventIds' = seenEventIds \cup New(p)
  /\ gotEvents' = [gotEvents EXCEPT ![p] = {}]
  /\ pollAt' = [pollAt EXCEPT ![p] = IF open \/ New(p) = {} THEN "read" ELSE "idle"]
  /\ UNCHANGED <<table, faults, feed, serving, open, initial, lastState, gotState>>

ReadState(p) ==
  /\ pollAt[p] = "read"
  /\ gotState' = [gotState EXCEPT ![p] = jobState]
  /\ pollAt' = [pollAt EXCEPT ![p] = "state"]
  /\ UNCHANGED <<table, faults, feed, serving, channel, initial, marks, gotEvents>>

\* The job was read: send its state if that is not the last one sent, and end the
\* stream if it is terminal.
Compare(p) ==
  LET s == gotState[p]
  IN  /\ pollAt[p] = "state"
      /\ pollAt' = [pollAt EXCEPT ![p] = "idle"]
      /\ gotState' = [gotState EXCEPT ![p] = "patching"]
      /\ lastState' = s
      /\ \/ /\ s = lastState
            /\ UNCHANGED <<serving, open, wire>>
         \/ /\ s # lastState /\ s \notin TerminalStates
            /\ Enqueue(<<StateFrame(s)>>)
            /\ UNCHANGED <<serving, open>>
         \/ /\ s # lastState /\ s \in TerminalStates
            /\ Enqueue(<<StateFrame(s), DoneFrame(s)>>)
            /\ Stop
      /\ UNCHANGED <<table, faults, feed, sends, initial, seenEventIds, gotEvents>>

\* One of a poll's reads throws: an error frame, and the next poll tries again.
PollFails(p) ==
  /\ pollAt[p] \in {"events", "read"}
  /\ Faulty
  /\ Enqueue(<<ErrorFrame>>)
  /\ gotEvents' = [gotEvents EXCEPT ![p] = {}]
  /\ pollAt' = [pollAt EXCEPT ![p] = "idle"]
  /\ UNCHANGED <<table, feed, serving, open, sends, initial, marks, gotState>>

--------------------------------------------------------------------------------
Job == (\E e \in Events : AppendEvent(e)) \/ (\E s \in States : MoveState(s))

Receive ==
  \/ ReceiveState \/ ReceiveAudit \/ ReceiveError
  \/ ReceiveDone \/ ReceiveTimeout

Page == RenderJob \/ RenderEvents \/ Connect \/ Receive

Poll(p) == Tick(p) \/ SendNew(p) \/ ReadState(p) \/ Compare(p)

Failure == Disconnect \/ ConnectFails \/ BackfillFails \/ \E p \in Polls : PollFails(p)

Next ==
  \/ Job \/ Page \/ Backfill \/ TickTimeout \/ Failure
  \/ \E p \in Polls : Poll(p)

Spec == Init /\ [][Next]_vars

\* A read that was sent is answered, the interval keeps firing, and the browser
\* handles what arrives. Neither the job nor the five minutes need end.
Fairness ==
  /\ WF_vars(Page)
  /\ WF_vars(Backfill)
  /\ \A p \in Polls : WF_vars(Poll(p))

FairSpec == Spec /\ Fairness

--------------------------------------------------------------------------------
\* Every variable keeps its type, and every frame is one the client listens for.
TypeOK ==
  /\ jobState \in States
  /\ rows \subseteq Events
  /\ ended \in BOOLEAN
  /\ due \subseteq rows
  /\ moves \in 0..MaxMoves
  /\ faults \in 0..MaxFaults
  /\ link \in Links
  /\ badge \in States
  /\ streamError \in {"none", "sent", "interrupted"}
  /\ shown \in [Events -> Nat]
  /\ seenIds \subseteq Events
  /\ serving \in {"nothing", "backfill", "polling", "stopped"}
  /\ open \in BOOLEAN
  /\ wire \in Seq(Frame)
  /\ sends \in [Events -> Nat]
  /\ initial \in States
  /\ seenEventIds \subseteq Events
  /\ lastState \in States
  /\ pollAt \in [Polls -> {"idle", "events", "read", "state"}]
  /\ gotEvents \in [Polls -> SUBSET Events]
  /\ gotState \in [Polls -> States]

\* "so we never double-send" (route.ts, 113): a stream sends no event twice, although
\* its backfill and its overlapping polls read the same rows.
NoDoubleSend == \A e \in Events : sends[e] <= 1

\* The list has an event at most once, whatever the page, the backfills of its
\* connections and their polls each brought (job-live-feed.tsx, 67-72).
ShownOnce == \A e \in Events : shown[e] <= 1

\* Nothing follows done or timeout on a stream, though polls may be under way when
\* it stops: the feed closes at the last frame there is.
EndOfStream ==
  \A i \in 1..Len(wire) :
    wire[i].type \in {"done", "timeout"} => i = Len(wire)

\* A page opened on a job that had ended, or whose last stream was, shows the whole
\* log the job left, if no read failed: both read the job first, then its events
\* (page.tsx, 44-49; route.ts, 101-137).
PostMortemIsWhole ==
  link = "done" /\ initial \in TerminalStates /\ streamError # "sent" =>
    \A e \in due : shown[e] > 0

Ended == {"done", "timeout", "failed"}

\* When the job has come to rest (its rows and moves are bounded here), the page has
\* every row, or the feed ended: in whatever order rows commit, however polls overlap
\* or fail, and although a reconnected stream starts over.
EventsArrive == <>[](link \in Ended \/ \A e \in rows : shown[e] > 0)

\* When the job has come to rest the badge rests on its state, or the feed ended, and
\* it did end if that state is terminal: although overlapping polls may deliver states
\* out of order, and the job may end before the first poll.
BadgeFollows ==
  <>[](link \in Ended \/ (badge = jobState /\ jobState \notin TerminalStates))

--------------------------------------------------------------------------------
(* What the route's documentation says, and the code does not do.           *)

\* "emits one SSE event per audit_event row written since the last poll", and a
\* terminal state ends the stream: a feed that was told of the end has every row
\* the job had written by then. A poll reads the events before the state.
DoneFeedIsWhole == link = "done" => \A e \in due : shown[e] > 0
================================================================================
