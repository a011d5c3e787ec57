------------------------- MODULE JobPipelineAloneProofs -------------------------
(***************************************************************************)
(* Theorems about JobPipeline for runs that do not disturb each other: one  *)
(* whose machine is its own, beside others that only share its tables, and  *)
(* one that is the only run of its job.                                     *)
(***************************************************************************)
EXTENDS JobPipelineProofs

\* A runner has one machine, and no two have the same.
OwnHosts ==
  \A r, s \in Runners : \A g \in HostsOf[r], h \in HostsOf[s] : g = h <=> r = s

\* How far a run has come.
Cloned(r) == phase[r] # "clone" \/ at[r] \in {"snapshot", "end", "returned"}

Indexed(r) ==
  \/ phase[r] \notin {"clone", "index"}
  \/ phase[r] = "index" /\ at[r] \in {"parse", "end", "returned"}

Retrieved(r) ==
  \/ phase[r] \in {"mark", "patch"}
  \/ phase[r] = "retrieve" /\ at[r] = "returned"

Patched(r) == phase[r] \in {"finalize", "examine", "audit"}

\* The tree of a run is what it has copied, all of it once it is cloned; no file that
\* it could read is missing from its index, from its batches, or from those that have
\* returned.
Whole(r) ==
  /\ host[r] \in HostsOf[r]
  /\ phase[r] = "clone" /\ at[r] = "copy" => disk[host[r]] = Files \ todo[r]
  /\ Cloned(r) => disk[host[r]] = Files
  /\ Indexed(r) => \A f \in Files \ unread[r] : <<snapshot[r], f>> \in fileRows
  /\ Retrieved(r) => \A f \in Files \ unread[r] : batchAt[r][f] # "none"
  /\ Patched(r) => \A f \in Files \ unread[r] : batchAt[r][f] = "done"

WholeInv == \A r \in Runners : Whole(r)

\* What a step of r leaves to the others.
Beside(r) ==
  /\ \A q \in Runners \ {r} : /\ phase'[q] = phase[q] /\ at'[q] = at[q]
                              /\ host'[q] = host[q] /\ todo'[q] = todo[q]
                              /\ unread'[q] = unread[q]
                              /\ snapshot'[q] = snapshot[q] /\ batchAt'[q] = batchAt[q]
  /\ \A h \in Hosts \ {host[r]} : disk'[h] = disk[h]
  /\ fileRows \subseteq fileRows'

\* The order of the phases, as far as it matters here.
LEMMA PhaseOrder ==
  ASSUME NEW p \in Phases \ {"audit"}
  PROVE  LET n == NextPhase[p]
         IN  /\ n # "clone" /\ (n = "index" <=> p = "clone")
             /\ First(n) \notin {"copy", "snapshot", "parse", "returned"}
             /\ n \in {"index", "retrieve"} => First(n) # "end"
             /\ n \in {"mark", "patch"} <=> p \in {"retrieve", "mark"}
             /\ n \in {"finalize", "examine", "audit"} <=> p \in {"patch", "finalize", "examine"}
             /\ n = "finalize" <=> p = "patch"
BY PhaseFacts DEF NextPhase, Phases, First

LEMMA WholeStep ==
  ASSUME OwnHosts, TypeOK, Placed, WholeInv, [Next]_vars
  PROVE  WholeInv'
<1> USE DEF job, rows, control, memory, batching
<1>1. /\ phase \in [Runners -> Phases] /\ at \in [Runners -> Statements]
      /\ host \in [Runners -> Hosts] /\ todo \in [Runners -> SUBSET Files]
      /\ unread \in [Runners -> SUBSET Files]
      /\ disk \in [Hosts -> SUBSET Files]
      /\ snapshot \in [Runners -> SnapshotId \cup {NoSnapshot}]
      /\ batchAt \in [Runners -> [Files -> BatchStatements]]
  BY DEF TypeOK
<1>2. \A q, s \in Runners : q # s => host[q] # host[s]
  BY DEF WholeInv, Whole, OwnHosts
<1>3. ASSUME NEW r \in Runners, Beside(r), Whole(r)' PROVE WholeInv'
  <2> SUFFICES ASSUME NEW q \in Runners, q # r PROVE Whole(q)'
    BY <1>3 DEF WholeInv
  <2>1. host[q] \in Hosts \ {host[r]}
    BY <1>1, <1>2
  <2>2. disk'[host'[q]] = disk[host[q]]
    BY <1>3, <2>1 DEF Beside
  <2>3. Whole(q)
    BY DEF WholeInv
  <2>4. (Cloned(q)' <=> Cloned(q)) /\ (Indexed(q)' <=> Indexed(q))
        /\ (Retrieved(q)' <=> Retrieved(q)) /\ (Patched(q)' <=> Patched(q))
    BY <1>3 DEF Beside, Cloned, Indexed, Retrieved, Patched
  <2> QED
    BY <1>3, <2>2, <2>3, <2>4 DEF Beside, Whole
\* A process that is started again is on the same machine.
<1>4. ASSUME NEW r \in Runners, Fail(r)
      PROVE  /\ host' = host /\ phase' = phase
             /\ at' = [at EXCEPT ![r] = at'[r]]
             /\ at'[r] \in {"failed", "begin", "body", "batches", "end"}
             /\ at'[r] \in {"end", "begin"} => at'[r] = First(phase[r])
  <2>1. \A h \in HostsOf[r] : h = host[r]
    BY DEF WholeInv, Whole, OwnHosts
  <2>2. [host EXCEPT ![r] = host[r]] = host
    BY <1>1
  <2>3. host' = host
    BY <1>4, <2>1, <2>2 DEF Fail
  <2>4. PICK s \in {"failed", First(phase[r])} : at' = [at EXCEPT ![r] = s]
    BY <1>4, FailFacts
  <2>5. First(phase[r]) \in {"begin", "body", "batches", "end"}
    BY <1>1, PhaseFacts
  <2> QED
    BY <1>1, <1>4, <2>3, <2>4, <2>5, FailFacts
\* A runner that moves within its phase, and nothing else.
<1>5. ASSUME NEW r \in Runners, NEW s, at' = [at EXCEPT ![r] = s],
             UNCHANGED <<phase, host, disk, todo, unread, snapshot, fileRows, batchAt>>,
             phase[r] = "clone" =>
               /\ s \notin {"copy", "snapshot"}
               /\ s \in {"end", "returned"} => at[r] \in {"snapshot", "end", "returned"},
             phase[r] = "index" /\ s \in {"parse", "end", "returned"} =>
               at[r] \in {"parse", "end", "returned"},
             phase[r] = "retrieve" /\ s = "returned" => at[r] = "returned"
      PROVE  WholeInv'
  <2>1. Beside(r) /\ at'[r] = s
    BY <1>1, <1>5 DEF Beside
  <2>2. (Cloned(r)' => Cloned(r)) /\ (Indexed(r)' => Indexed(r))
        /\ (Retrieved(r)' => Retrieved(r)) /\ (Patched(r)' => Patched(r))
    BY <1>5, <2>1 DEF Cloned, Indexed, Retrieved, Patched
  <2>3. Whole(r)'
    BY <1>5, <2>1, <2>2 DEF WholeInv, Whole
  <2> QED
    BY <1>3, <2>1, <2>3
<1>6. ASSUME NEW r \in Runners, Begin(r) PROVE WholeInv'
  <2>1. /\ phase[r] \in DOMAIN Pre
        /\ AfterPre[phase[r]] \in Statements
        /\ phase[r] = "clone" => AfterPre[phase[r]] = "wipe"
        /\ phase[r] = "index" => AfterPre[phase[r]] = "body"
        /\ phase[r] # "retrieve"
    BY <1>6, PhaseFacts DEF Begin, Placed, AfterPre
  <2> QED
    BY <1>5, <1>6, <2>1 DEF Begin, Goto
<1>7. ASSUME NEW r \in Runners, End(r) PROVE WholeInv'
  <2>1. phase[r] # "retrieve" /\ at[r] = "end"
    BY <1>7, PhaseFacts DEF End, Placed
  <2>2. PICK s \in {"emit", "complete", "returned"} : Goto(r, s)
    BY <1>7 DEF End
  <2> QED
    BY <1>5, <1>7, <2>1, <2>2 DEF End, Goto
<1>8. ASSUME NEW r \in Runners, Proceed(r) PROVE WholeInv'
  <2>1. CASE phase[r] = "audit"
    BY <1>5, <1>8, <2>1 DEF Proceed, Goto
  <2>2. CASE phase[r] # "audit"
    <3> DEFINE n == NextPhase[phase[r]]
    <3>1. at[r] = "returned" /\ phase[r] \in Phases \ {"audit", "patch"}
      BY <1>1, <1>8, <2>2 DEF Proceed, Placed
    <3>2. \A h \in HostsOf[r] : h = host[r]
      BY DEF WholeInv, Whole, OwnHosts
    <3>3. host' = host
      <4>1. [host EXCEPT ![r] = host[r]] = host
        BY <1>1
      <4> QED
        BY <1>8, <2>2, <3>2, <4>1 DEF Proceed
    <3>4. /\ phase' = [phase EXCEPT ![r] = n] /\ at' = [at EXCEPT ![r] = First(n)]
          /\ UNCHANGED <<disk, todo, unread, snapshot, fileRows, batchAt>>
      BY <1>8, <2>2 DEF Proceed
    <3>5. /\ n # "clone" /\ (n = "index" <=> phase[r] = "clone")
          /\ First(n) \notin {"copy", "snapshot", "parse", "returned"}
          /\ n \in {"index", "retrieve"} => First(n) # "end"
          /\ n \in {"mark", "patch"} <=> phase[r] \in {"retrieve", "mark"}
          /\ n \in {"finalize", "examine", "audit"} <=>
               phase[r] \in {"patch", "finalize", "examine"}
      BY <3>1, PhaseOrder
    <3> HIDE DEF n
    <3>6. phase'[r] = n /\ at'[r] = First(n) /\ Beside(r)
      BY <1>1, <3>3, <3>4 DEF Beside
    <3>7. (Cloned(r)' => Cloned(r)) /\ (Indexed(r)' => Indexed(r))
          /\ (Retrieved(r)' => Retrieved(r)) /\ (Patched(r)' => Patched(r))
      BY <3>1, <3>5, <3>6 DEF Cloned, Indexed, Retrieved, Patched
    <3>8. Whole(r)'
      BY <3>3, <3>4, <3>5, <3>6, <3>7 DEF WholeInv, Whole
    <3> QED
      BY <1>3, <3>6, <3>8
  <2> QED
    BY <2>1, <2>2
\* The clone.
<1>9. ASSUME NEW r \in Runners, Wipe(r) PROVE WholeInv'
  <2>1. /\ phase[r] = "clone" /\ phase' = phase /\ host' = host
        /\ at' = [at EXCEPT ![r] = "copy"]
        /\ disk' = [disk EXCEPT ![host[r]] = {}] /\ todo' = [todo EXCEPT ![r] = Files]
        /\ UNCHANGED <<unread, snapshot, fileRows, batchAt>>
    BY <1>9 DEF Wipe, At, Goto, Absent
  <2>2. Beside(r) /\ disk'[host'[r]] = {} /\ todo'[r] = Files /\ at'[r] = "copy"
    BY <1>1, <2>1 DEF Beside
  <2>3. Whole(r)'
    BY <2>1, <2>2 DEF WholeInv, Whole, Cloned, Indexed, Retrieved, Patched
  <2> QED
    BY <1>3, <2>2, <2>3
<1>10. ASSUME NEW r \in Runners, CloneThrows(r), phase[r] = "clone" PROVE WholeInv'
  <2>1. /\ phase' = phase /\ host' = host
        /\ at' = [at EXCEPT ![r] = at'[r]] /\ at'[r] \in {"failed", "begin"}
        /\ disk' = [disk EXCEPT ![host[r]] = {}]
        /\ UNCHANGED <<todo, unread, snapshot, fileRows, batchAt>>
    <3>1. Fail(r)
      BY <1>10 DEF CloneThrows
    <3>2. at'[r] \in {"failed", "begin"}
      <4>1. First("clone") = "begin"
        BY PhaseFacts DEF Phases
      <4>2. \E s \in {"failed", First(phase[r])} : at' = [at EXCEPT ![r] = s]
        BY <3>1, FailFacts
      <4> QED
        BY <1>1, <1>10, <4>1, <4>2
    <3> QED
      BY <1>4, <1>10, <3>1, <3>2 DEF CloneThrows, Absent
  <2>2. Beside(r)
    BY <1>1, <2>1 DEF Beside
  <2>3. Whole(r)'
    BY <1>10, <2>1 DEF WholeInv, Whole, Cloned, Indexed, Retrieved, Patched
  <2> QED
    BY <1>3, <2>2, <2>3
<1>11. ASSUME NEW r \in Runners, CopyFile(r) PROVE WholeInv'
  <2>1. phase[r] = "clone" /\ at[r] = "copy"
    BY <1>11 DEF CopyFile, At
  <2>2. CASE CloneThrows(r)
    BY <1>10, <2>1, <2>2
  <2>3. CASE ~CloneThrows(r)
    <3>1. PICK f \in todo[r] :
            /\ disk' = [disk EXCEPT ![host[r]] = disk[host[r]] \cup {f}]
            /\ todo' = [todo EXCEPT ![r] = @ \ {f}]
            /\ Goto(r, IF todo[r] = {f} THEN "snapshot" ELSE "copy")
      BY <1>11, <2>3 DEF CopyFile
    <3>2. UNCHANGED <<phase, host, unread, snapshot, fileRows, batchAt>>
      BY <1>11, <2>3, <3>1 DEF CopyFile, Goto
    <3>3. /\ at' = [at EXCEPT ![r] = at'[r]]
          /\ at'[r] = IF todo[r] = {f} THEN "snapshot" ELSE "copy"
      BY <1>1, <3>1 DEF Goto
    <3>4. disk'[host'[r]] = disk[host[r]] \cup {f} /\ todo'[r] = todo[r] \ {f}
      BY <1>1, <3>1, <3>2
    <3>5. disk[host[r]] = Files \ todo[r] /\ todo[r] \subseteq Files
      BY <1>1, <2>1 DEF WholeInv, Whole
    <3>6. disk'[host'[r]] = Files \ todo'[r]
      BY <3>4, <3>5
    <3>7. todo[r] = {f} => disk'[host'[r]] = Files
      BY <3>4, <3>5
    <3>8. Beside(r)
      BY <1>1, <3>1, <3>2, <3>3 DEF Beside
    <3>9. Whole(r)'
      BY <2>1, <3>2, <3>3, <3>6, <3>7 DEF WholeInv, Whole, Cloned, Indexed, Retrieved, Patched
    <3> QED
      BY <1>3, <3>8, <3>9
  <2> QED
    BY <2>2, <2>3
<1>12. ASSUME NEW r \in Runners, CloneError(r) PROVE WholeInv'
  BY <1>10, <1>12 DEF CloneError, At
\* Starting again, without a change to the tree.
<1>13. ASSUME NEW r \in Runners, Fail(r), UNCHANGED <<disk, todo, unread, snapshot, fileRows, batchAt>>
       PROVE  WholeInv'
  <2>1. /\ phase[r] = "clone" => First(phase[r]) # "end"
        /\ phase[r] = "index" => First(phase[r]) # "end"
    BY <1>1, PhaseFacts
  <2> QED
    BY <1>4, <1>5, <1>13, <2>1
<1>14. ASSUME NEW r \in Runners, TakeSnapshot(r) PROVE WholeInv'
  <2>1. CASE Fail(r) /\ UNCHANGED <<snapshots, snapshot>>
    BY <1>13, <1>14, <2>1 DEF TakeSnapshot
  <2>2. CASE /\ snapshot' = [snapshot EXCEPT ![r] = <<r, attempt[r]>>]
             /\ Goto(r, "end") /\ UNCHANGED host
    <3>1. /\ phase[r] = "clone" /\ at[r] = "snapshot" /\ at'[r] = "end"
          /\ UNCHANGED <<phase, host, disk, todo, unread, fileRows, batchAt>>
      BY <1>1, <1>14, <2>2 DEF TakeSnapshot, At, Goto
    <3>2. Beside(r)
      BY <1>1, <2>2, <3>1 DEF Beside, Goto
    <3>3. Whole(r)'
      BY <3>1 DEF WholeInv, Whole, Cloned, Indexed, Retrieved, Patched
    <3> QED
      BY <1>3, <3>2, <3>3
  <2> QED
    BY <1>14, <2>1, <2>2 DEF TakeSnapshot
<1>15. ASSUME NEW r \in Runners, Fault(r) PROVE WholeInv'
  BY <1>13, <1>15 DEF Fault
\* The index has what the tree has, and retrieval what both have.
<1>16. ASSUME NEW r \in Runners, IndexFiles(r) PROVE WholeInv'
  <2>1. CASE Fail(r) /\ UNCHANGED <<fileRows, unread, todo, faults>>
    BY <1>13, <1>16, <2>1 DEF IndexFiles
  <2>2. ASSUME NEW skipped \in SUBSET disk[host[r]],
               fileRows' = fileRows \cup ({snapshot[r]} \X (disk[host[r]] \ skipped)),
               unread' = [unread EXCEPT ![r] = skipped],
               todo' = [todo EXCEPT ![r] = disk[host[r]] \ skipped],
               Goto(r, "parse"), UNCHANGED host
        PROVE  WholeInv'
    <3>1. /\ phase[r] = "index" /\ at'[r] = "parse"
          /\ UNCHANGED <<phase, host, disk, snapshot, batchAt>>
      BY <1>1, <1>16, <2>2 DEF IndexFiles, At, Goto
    <3>2. disk[host[r]] = Files /\ unread'[r] = skipped
      BY <1>1, <2>2, <3>1 DEF WholeInv, Whole, Cloned
    <3>3. \A f \in Files \ unread'[r] : <<snapshot'[r], f>> \in fileRows'
      BY <2>2, <3>1, <3>2
    <3>4. Beside(r)
      BY <1>1, <2>2, <3>1 DEF Beside, Goto
    <3>5. Whole(r)'
      BY <3>1, <3>2, <3>3 DEF WholeInv, Whole, Cloned, Indexed, Retrieved, Patched
    <3> QED
      BY <1>3, <3>4, <3>5
  <2> QED
    BY <1>16, <2>1, <2>2 DEF IndexFiles
<1>25. ASSUME NEW r \in Runners, ParseFiles(r) PROVE WholeInv'
  <2>1. CASE Fail(r)
    BY <1>13, <1>25, <2>1 DEF ParseFiles
  <2>2. CASE Goto(r, "end") /\ UNCHANGED host
    <3>1. phase[r] = "index" /\ at[r] = "parse"
      BY <1>25 DEF ParseFiles, At
    <3> QED
      BY <1>5, <1>25, <2>2, <3>1 DEF ParseFiles, Goto
  <2> QED
    BY <1>25, <2>1, <2>2 DEF ParseFiles
<1>17. ASSUME NEW r \in Runners, Retrieve(r) PROVE WholeInv'
  <2>1. /\ phase[r] = "retrieve" /\ at[r] = "body" /\ at'[r] = "returned"
        /\ at' = [at EXCEPT ![r] = "returned"]
        /\ UNCHANGED <<phase, host, disk, todo, snapshot, fileRows>>
    BY <1>1, <1>17 DEF Retrieve, At, Goto
  <2>2. /\ disk[host[r]] = Files
        /\ \A f \in Files \ unread[r] : <<snapshot[r], f>> \in fileRows
    BY <2>1 DEF WholeInv, Whole, Cloned, Indexed
  <2> DEFINE found == {f \in disk[host[r]] : <<snapshot[r], f>> \in fileRows}
  <2>3. PICK missed \in SUBSET found :
          /\ unread' = [unread EXCEPT ![r] = @ \cup missed]
          /\ batchAt' = [batchAt EXCEPT ![r] =
               [f \in Files |-> IF f \in found \ missed THEN "start" ELSE "none"]]
    BY <1>17 DEF Retrieve
  <2>4. \A f \in Files \ unread[r] : f \in found
    BY <2>2
  <2> HIDE DEF found
  <2>5. /\ unread'[r] = unread[r] \cup missed
        /\ \A f \in Files : batchAt'[r][f] = IF f \in found \ missed THEN "start" ELSE "none"
        /\ \A q \in Runners \ {r} : batchAt'[q] = batchAt[q] /\ unread'[q] = unread[q]
    BY <1>1, <2>3
  <2>6. \A f \in Files \ unread'[r] : batchAt'[r][f] = "start"
    BY <2>4, <2>5
  <2>7. Beside(r)
    BY <1>1, <2>1, <2>5 DEF Beside
  <2>8. Whole(r)'
    BY <2>1, <2>2, <2>5, <2>6 DEF WholeInv, Whole, Cloned, Indexed, Retrieved, Patched
  <2> QED
    BY <1>3, <2>7, <2>8
\* The batches.
<1>18. ASSUME NEW r \in Runners, phase[r] = "patch",
              at' = at \/ at' = [at EXCEPT ![r] = "failed"],
              UNCHANGED <<phase, host, disk, todo, unread, snapshot, fileRows>>,
              \A q \in Runners \ {r} : batchAt'[q] = batchAt[q],
              \A g \in Files : batchAt[r][g] # "none" => batchAt'[r][g] # "none"
       PROVE  WholeInv'
  <2>1. Beside(r)
    BY <1>1, <1>18 DEF Beside
  <2>2. Whole(r)'
    BY <1>18 DEF WholeInv, Whole, Cloned, Indexed, Retrieved, Patched
  <2> QED
    BY <1>3, <2>1, <2>2
<1>19. ASSUME NEW r \in Runners, NEW f \in Files, NEW s \in BatchStatements \ {"none"},
              batchAt' = [batchAt EXCEPT ![r][f] = s]
       PROVE  /\ \A q \in Runners \ {r} : batchAt'[q] = batchAt[q]
              /\ \A g \in Files : batchAt[r][g] # "none" => batchAt'[r][g] # "none"
  BY <1>1, <1>19
<1>20. ASSUME NEW r \in Runners, NEW f \in Files,
              Surgeon(r, f) \/ PersistPatch(r, f) \/ BatchReturns(r, f) \/ BatchFault(r, f)
       PROVE  WholeInv'
  <2>1. /\ phase[r] = "patch"
        /\ UNCHANGED <<host, disk, todo, unread, snapshot, fileRows>>
    BY <1>20 DEF Surgeon, PersistPatch, BatchReturns, BatchFault, InPatchPhase
  <2>2. CASE BatchFail(r, f)
    <3>1. PICK s \in {"start", "failed"} : batchAt' = [batchAt EXCEPT ![r][f] = s]
      BY <2>2, BatchFailFacts
    <3>2. phase' = phase /\ (at' = at \/ at' = [at EXCEPT ![r] = "failed"])
      BY <2>2, BatchFailFacts
    <3>3. s \in BatchStatements \ {"none"}
      BY DEF BatchStatements
    <3> QED
      BY <1>18, <1>19, <2>1, <3>1, <3>2, <3>3
  <2>3. CASE ~BatchFail(r, f)
    <3>1. phase' = phase /\ at' = at
      BY <1>20, <2>3 DEF Surgeon, PersistPatch, BatchReturns, BatchFault
    <3>2. \E s \in {"reply", "persisted", "done"} : batchAt' = [batchAt EXCEPT ![r][f] = s]
      BY <1>20, <2>3 DEF Surgeon, PersistPatch, BatchReturns, BatchFault, BatchGoto
    <3>3. \E s \in BatchStatements \ {"none"} : batchAt' = [batchAt EXCEPT ![r][f] = s]
      BY <3>2 DEF BatchStatements
    <3> QED
      BY <1>18, <1>19, <2>1, <3>1, <3>3
  <2> QED
    BY <2>2, <2>3
<1>21. ASSUME NEW r \in Runners, DirectCrash(r) PROVE WholeInv'
  <2>1. /\ phase[r] = "patch" /\ at' = [at EXCEPT ![r] = "failed"]
        /\ UNCHANGED <<phase, host, disk, todo, unread, snapshot, fileRows>>
    BY <1>21 DEF DirectCrash, Goto
  <2>2. /\ \A q \in Runners \ {r} : batchAt'[q] = batchAt[q]
        /\ \A g \in Files : batchAt[r][g] # "none" => batchAt'[r][g] # "none"
    BY <1>1, <1>21 DEF DirectCrash
  <2> QED
    BY <1>18, <2>1, <2>2
<1>22. ASSUME NEW r \in Runners, Join(r) PROVE WholeInv'
  <2>1. /\ phase[r] = "patch" /\ phase' = [phase EXCEPT ![r] = "finalize"]
        /\ at' = [at EXCEPT ![r] = First("finalize")]
        /\ UNCHANGED <<host, disk, todo, unread, snapshot, fileRows, batchAt>>
        /\ \A f \in Files : batchAt[r][f] \in {"none", "done"}
    BY <1>22 DEF Join, At
  <2>2. phase'[r] = "finalize" /\ Beside(r)
    BY <1>1, <2>1 DEF Beside
  <2>3. Whole(r)'
    BY <2>1, <2>2 DEF WholeInv, Whole, Cloned, Indexed, Retrieved, Patched
  <2> QED
    BY <1>3, <2>2, <2>3
\* The phases after it.
<1>23. ASSUME NEW r \in Runners,
              EmitCompleted(r) \/ ReadPatches(r) \/ PersistTests(r) \/ Sign(r) \/ Complete(r)
       PROVE  WholeInv'
  <2>1. phase[r] \in {"finalize", "examine", "audit"}
    BY <1>23 DEF EmitCompleted, ReadPatches, PersistTests, Sign, Complete, At
  <2>2. \E s : Goto(r, s)
    BY <1>23 DEF EmitCompleted, ReadPatches, PersistTests, Sign, Complete
  <2>3. UNCHANGED <<host, disk, todo, unread, snapshot, fileRows, batchAt>>
    BY <1>23 DEF EmitCompleted, ReadPatches, PersistTests, Sign, Complete
  <2> QED
    BY <1>5, <2>1, <2>2, <2>3 DEF Goto
<1>24. CASE UNCHANGED vars
  BY <1>24 DEF vars, WholeInv, Whole, Cloned, Indexed, Retrieved, Patched
<1> QED
  BY <1>6, <1>7, <1>8, <1>9, <1>11, <1>12, <1>14, <1>15, <1>16, <1>17, <1>20, <1>21, <1>22,
     <1>23, <1>24, <1>25, NextCases

\* A run that has its machine to itself and finishes was whole but for the files it
\* failed to read: however often its clone or any later step was cut off and run
\* again, with any other runs of the job writing to the same tables.
THEOREM WholeRuns ==
  ASSUME OwnHosts
  PROVE  Spec => []FinishedRunIsWhole
<1>1. Init => WholeInv
  BY DEF Init, WholeInv, Whole, Cloned, Indexed, Retrieved, Patched
<1>2. IInv /\ WholeInv /\ [Next]_vars => WholeInv'
  BY WholeStep DEF IInv
<1>3. IInv /\ WholeInv => FinishedRunIsWhole
  BY DEF IInv, Placed, WholeInv, Whole, Indexed, Patched, FinishedRunIsWhole
<1> QED
  BY <1>1, <1>2, <1>3, InitInv, InductiveStep, PTL DEF Spec

--------------------------------------------------------------------------------
(* The state of the job.                                                    *)

OneRunner == \A r, s \in Runners : r = s

\* The furthest a phase takes the job.
Level == [clone |-> 2, index |-> 4, plan |-> 6, retrieve |-> 6, mark |-> 7, patch |-> 7,
          finalize |-> 8, examine |-> 10, audit |-> 13]

\* The job is not further than its run: an attempt that is not a retry has yet to
\* take it to where its phase begins, and any attempt to where it ends.
NotAhead ==
  \A r \in Runners :
    /\ jobState \in DOMAIN Rank
    /\ Rank[jobState] <= Level[phase[r]]
    /\ at[r] = "begin" /\ attempt[r] = 1 => Rank[jobState] <= Rank[Pre[phase[r]]]
    /\ phase[r] = "audit" /\ at[r] \in {"body", "end"} => Rank[jobState] <= Rank[Post["audit"]]

LEMMA Levels ==
  /\ DOMAIN Rank = JobStates
  /\ \A s \in JobStates : Rank[s] \in 0..13
  /\ \A p \in Phases : Level[p] \in 0..13
  /\ \A p \in DOMAIN Pre : Rank[Pre[p]] <= Level[p] /\ (p = "audit" => Rank[Pre[p]] <= Rank[Post[p]])
  /\ \A p \in DOMAIN Post : /\ Rank[Post[p]] <= Level[p]
                            /\ p # "audit" => Rank[Post[p]] = Level[p]
  /\ \A p \in Phases \ {"audit"} :
       /\ Level[p] <= Level[NextPhase[p]]
       /\ NextPhase[p] \in DOMAIN Pre => Level[p] <= Rank[Pre[NextPhase[p]]]
  /\ Rank["done"] = 13 /\ Level["audit"] = 13
<1>1. DOMAIN Rank = JobStates
  BY PhaseFacts DEF Rank, JobStates, Pre, Post
<1>2. \A s \in JobStates : Rank[s] \in 0..13
  BY <1>1 DEF Rank
<1>3. \A p \in Phases : Level[p] \in 0..13
  BY DEF Level, Phases
<1>4. \A p \in DOMAIN Pre : Rank[Pre[p]] <= Level[p] /\ (p = "audit" => Rank[Pre[p]] <= Rank[Post[p]])
  BY PhaseFacts DEF Rank, Level, Pre, Post
<1>5. \A p \in DOMAIN Post : /\ Rank[Post[p]] <= Level[p]
                             /\ p # "audit" => Rank[Post[p]] = Level[p]
  BY PhaseFacts DEF Rank, Level, Post
<1>6. \A p \in Phases \ {"audit"} :
        /\ Level[p] <= Level[NextPhase[p]]
        /\ NextPhase[p] \in DOMAIN Pre => Level[p] <= Rank[Pre[NextPhase[p]]]
  BY PhaseFacts DEF Rank, Level, NextPhase, Phases, Pre
<1>7. Rank["done"] = 13 /\ Level["audit"] = 13
  BY DEF Rank, Level
<1> QED
  BY <1>1, <1>2, <1>3, <1>4, <1>5, <1>6, <1>7

\* Begin, End and Complete write the state; every step of the only runner keeps to
\* its phase or goes on to the next.
LEMMA NotAheadStep ==
  ASSUME OneRunner, TypeOK, Placed, NotAhead, [Next]_vars
  PROVE  /\ NotAhead'
         /\ Rank[jobState'] < Rank[jobState] =>
              \E r \in Runners : /\ attempt[r] > 1 /\ phase[r] \in DOMAIN Pre
                                 /\ jobState' = Pre[phase[r]]
<1> USE DEF job, rows, control, memory, batching
<1> DEFINE Back == Rank[jobState'] < Rank[jobState] =>
                     \E r \in Runners : /\ attempt[r] > 1 /\ phase[r] \in DOMAIN Pre
                                        /\ jobState' = Pre[phase[r]]
<1>1. /\ phase \in [Runners -> Phases] /\ at \in [Runners -> Statements]
      /\ attempt \in [Runners -> Attempt] /\ jobState \in JobStates
  BY DEF TypeOK
<1>2. \A p \in Phases : Level[p] \in Int
  BY Levels
<1>3. \A s \in JobStates : Rank[s] \in Int
  BY Levels
<1>4. jobState' = jobState => Back
  BY <1>1, <1>3
<1>5. ASSUME NEW r \in Runners, jobState' \in JobStates, Rank[jobState'] <= Level[phase'[r]],
             at'[r] = "begin" /\ attempt'[r] = 1 => Rank[jobState'] <= Rank[Pre[phase'[r]]],
             phase'[r] = "audit" /\ at'[r] \in {"body", "end"} =>
               Rank[jobState'] <= Rank[Post["audit"]]
      PROVE  NotAhead'
  BY <1>5, Levels DEF OneRunner, NotAhead
\* The only runner moves within its phase.
<1>6. ASSUME NEW r \in Runners, NEW s, at' = [at EXCEPT ![r] = s] \/ at' = at,
             UNCHANGED <<jobState, phase, attempt>>, s # "begin",
             phase[r] = "audit" /\ s \in {"body", "end"} => at[r] \in {"body", "end"}
      PROVE  NotAhead' /\ Back
  BY <1>1, <1>4, <1>5, <1>6 DEF NotAhead
\* Or starts it again.
<1>7. ASSUME NEW r \in Runners, Fail(r), UNCHANGED jobState PROVE NotAhead' /\ Back
  <2>1. phase' = phase /\ \E s \in {"failed", First(phase[r])} : at' = [at EXCEPT ![r] = s]
    BY <1>7, FailFacts
  <2>2. at'[r] = "begin" => attempt'[r] # 1
    <3>1. CASE attempt' = [attempt EXCEPT ![r] = @ + 1]
      <4>1. attempt[r] + 1 # 1
        BY <1>1, BoundsAssumption DEF Attempt
      <4> QED
        BY <1>1, <3>1, <4>1
    <3>2. CASE at' = [at EXCEPT ![r] = "failed"]
      BY <1>1, <3>2
    <3> QED
      BY <1>7, <3>1, <3>2 DEF Fail
  <2>3. phase[r] = "audit" => at'[r] \in {"failed", "begin"}
    BY <1>1, <2>1 DEF First, Pre
  <2> QED
    BY <1>1, <1>4, <1>5, <1>7, <2>1, <2>2, <2>3 DEF NotAhead
<1>8. ASSUME NEW r \in Runners, Begin(r) PROVE NotAhead' /\ Back
  <2>1. phase[r] \in DOMAIN Pre
    BY <1>8 DEF Begin, Placed
  <2>2. /\ Pre[phase[r]] \in JobStates /\ AfterPre[phase[r]] # "begin"
        /\ Rank[Pre[phase[r]]] <= Level[phase[r]]
        /\ phase[r] = "audit" => Rank[Pre[phase[r]]] <= Rank[Post["audit"]]
    BY <2>1, PhaseFacts, Levels
  <2>3. /\ jobState' = Pre[phase[r]] /\ at'[r] = AfterPre[phase[r]] /\ phase' = phase
        /\ at[r] = "begin"
    BY <1>1, <1>8 DEF Begin, Goto
  <2>4. NotAhead'
    BY <1>5, <2>2, <2>3
  <2>5. CASE attempt[r] = 1
    <3>1. Rank[jobState] <= Rank[jobState']
      BY <2>3, <2>5 DEF NotAhead
    <3> QED
      BY <1>1, <1>3, <2>2, <2>3, <2>4, <3>1
  <2>6. CASE attempt[r] # 1
    <3>1. attempt[r] > 1
      BY <1>1, <2>6, BoundsAssumption DEF Attempt
    <3> QED
      BY <2>1, <2>3, <2>4, <3>1
  <2> QED
    BY <2>5, <2>6
<1>9. ASSUME NEW r \in Runners, End(r) PROVE NotAhead' /\ Back
  <2>1. phase[r] \in DOMAIN Post
    BY <1>9 DEF End, Placed
  <2>2. /\ Post[phase[r]] \in JobStates /\ Rank[Post[phase[r]]] <= Level[phase[r]]
        /\ phase[r] # "audit" => Rank[Post[phase[r]]] = Level[phase[r]]
    BY <2>1, PhaseFacts, Levels
  <2>3. /\ jobState' = Post[phase[r]] /\ phase' = phase /\ at[r] = "end"
        /\ at'[r] \in {"emit", "complete", "returned"}
    BY <1>1, <1>9 DEF End, Goto
  <2>4. NotAhead'
    BY <1>5, <2>2, <2>3
  <2>5. Rank[jobState] <= Rank[jobState']
    BY <1>1, <2>2, <2>3 DEF NotAhead
  <2> QED
    BY <1>1, <1>3, <2>2, <2>3, <2>4, <2>5
<1>10. ASSUME NEW r \in Runners, Complete(r) PROVE NotAhead' /\ Back
  <2>1. jobState' = "done" /\ phase[r] = "audit" /\ phase' = phase /\ at'[r] = "returned"
    BY <1>1, <1>10 DEF Complete, At, Goto
  <2>2. "done" \in JobStates
    BY DEF JobStates
  <2>3. NotAhead'
    BY <1>5, <2>1, <2>2, Levels
  <2>4. Rank[jobState] <= Rank[jobState']
    BY <1>1, <2>1, Levels
  <2> QED
    BY <1>1, <1>3, <2>1, <2>2, <2>3, <2>4
<1>11. ASSUME NEW r \in Runners, Proceed(r) PROVE NotAhead' /\ Back
  <2>1. CASE phase[r] = "audit"
    BY <1>6, <1>11, <2>1 DEF Proceed, Goto
  <2>2. CASE phase[r] # "audit"
    <3> DEFINE n == NextPhase[phase[r]]
    <3>1. /\ n \in Phases /\ Level[phase[r]] <= Level[n]
          /\ n \in DOMAIN Pre => Level[phase[r]] <= Rank[Pre[n]]
          /\ First(n) = "begin" => n \in DOMAIN Pre
          /\ n \in DOMAIN Pre => Pre[n] \in JobStates
      BY <1>1, <2>2, PhaseFacts, Levels
    <3>2. n = "audit" => First(n) = "begin"
      BY DEF First, Pre
    <3>3. jobState' = jobState /\ phase'[r] = n /\ at'[r] = First(n)
      BY <1>1, <1>11, <2>2 DEF Proceed
    <3> HIDE DEF n
    <3>4. Rank[jobState] <= Level[n]
      BY <1>1, <1>2, <1>3, <3>1 DEF NotAhead
    <3>5. First(n) = "begin" => Rank[jobState] <= Rank[Pre[n]]
      BY <1>1, <1>2, <1>3, <3>1 DEF NotAhead
    <3>6. NotAhead'
      BY <1>1, <1>5, <3>2, <3>3, <3>4, <3>5
    <3> QED
      BY <1>4, <3>3, <3>6
  <2> QED
    BY <2>1, <2>2
<1>12. ASSUME NEW r \in Runners, Join(r) PROVE NotAhead' /\ Back
  <2>1. /\ phase[r] = "patch" /\ phase'[r] = "finalize" /\ at'[r] = First("finalize")
        /\ UNCHANGED jobState
    BY <1>1, <1>12 DEF Join, At
  <2>2. First("finalize") = "end"
    BY PhaseFacts DEF First, Pre
  <2>3. Rank[jobState] <= Level["finalize"]
    BY <1>1, <1>3, <2>1 DEF NotAhead, Level
  <2> QED
    BY <1>1, <1>4, <1>5, <2>1, <2>2, <2>3
<1>13. ASSUME NEW r \in Runners, CloneThrows(r) PROVE NotAhead' /\ Back
  BY <1>7, <1>13 DEF CloneThrows
<1>14. ASSUME NEW r \in Runners,
              \/ Wipe(r) \/ CopyFile(r) \/ TakeSnapshot(r) \/ IndexFiles(r) \/ ParseFiles(r)
              \/ Retrieve(r) \/ EmitCompleted(r) \/ ReadPatches(r) \/ PersistTests(r) \/ Sign(r)
       PROVE  NotAhead' /\ Back
  <2>1. CASE Fail(r)
    <3>1. UNCHANGED jobState
      BY <1>14 DEF Wipe, CopyFile, CloneThrows, TakeSnapshot, IndexFiles, ParseFiles, Retrieve,
                   EmitCompleted, ReadPatches, PersistTests, Sign
    <3> QED
      BY <1>7, <2>1, <3>1
  <2>2. CASE ~Fail(r)
    <3>1. /\ UNCHANGED jobState
          /\ \E s \in {"copy", "snapshot", "parse", "end", "returned", "persist"} : Goto(r, s)
      BY <1>14, <2>2 DEF Wipe, CopyFile, CloneThrows, TakeSnapshot, IndexFiles, ParseFiles, Retrieve,
                   EmitCompleted, ReadPatches, PersistTests, Sign
    <3>2. phase[r] = "audit" => at[r] = "body"
      BY <1>14 DEF Wipe, CopyFile, TakeSnapshot, IndexFiles, ParseFiles, Retrieve,
                   EmitCompleted, ReadPatches, PersistTests, Sign, At
    <3> QED
      BY <1>6, <3>1, <3>2 DEF Goto
  <2> QED
    BY <2>1, <2>2
<1>15. ASSUME NEW r \in Runners, Fault(r) \/ CloneError(r) PROVE NotAhead' /\ Back
  BY <1>7, <1>13, <1>15 DEF Fault, CloneError
<1>16. ASSUME NEW r \in Runners, DirectCrash(r) PROVE NotAhead' /\ Back
  BY <1>6, <1>16 DEF DirectCrash, Goto
<1>17. ASSUME NEW r \in Runners, NEW f \in Files,
              Surgeon(r, f) \/ PersistPatch(r, f) \/ BatchReturns(r, f) \/ BatchFault(r, f)
       PROVE  NotAhead' /\ Back
  <2>1. UNCHANGED jobState
    BY <1>17 DEF Surgeon, PersistPatch, BatchReturns, BatchFault
  <2>2. /\ UNCHANGED <<phase, attempt>>
        /\ at' = [at EXCEPT ![r] = "failed"] \/ at' = at
    BY <1>17, BatchFailFacts DEF Surgeon, PersistPatch, BatchReturns, BatchFault
  <2> QED
    BY <1>6, <2>1, <2>2
<1>18. ASSUME UNCHANGED vars PROVE NotAhead' /\ Back
  BY <1>1, <1>4, <1>18 DEF vars, NotAhead
<1> HIDE DEF Back
<1>19. NotAhead' /\ Back
  BY <1>8, <1>9, <1>10, <1>11, <1>12, <1>14, <1>15, <1>16, <1>17, <1>18, NextCases
<1> QED
  BY <1>19 DEF Back

\* The only run of a job moves it forward, except that a retry takes it back to the
\* state its phase begins with: whatever fails, and however often.
THEOREM LoneRunMovesForward ==
  ASSUME OneRunner
  PROVE  Spec => MovesBackOnlyToRetry
<1>1. Init => NotAhead
  <2> SUFFICES ASSUME Init PROVE NotAhead
    OBVIOUS
  <2>1. "clone" \in DOMAIN Pre /\ "draft" \in DOMAIN Rank /\ Rank["draft"] = 0
    BY PhaseFacts DEF Rank
  <2>2. Level["clone"] = 2 /\ Rank[Pre["clone"]] = 1
    BY DEF Level, Rank, Pre
  <2> QED
    BY <2>1, <2>2 DEF Init, NotAhead
<1>2. IInv /\ NotAhead /\ [Next]_vars => NotAhead'
  BY NotAheadStep DEF IInv
<1>3. IInv /\ NotAhead /\ [Next]_vars
        => [Rank[jobState'] < Rank[jobState] =>
              \E r \in Runners : /\ attempt[r] > 1
                                 /\ phase[r] \in DOMAIN Pre
                                 /\ jobState' = Pre[phase[r]]]_vars
  BY NotAheadStep DEF IInv
<1> QED
  BY <1>1, <1>2, <1>3, InitInv, InductiveStep, PTL DEF Spec, MovesBackOnlyToRetry

================================================================================
