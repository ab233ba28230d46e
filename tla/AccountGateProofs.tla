------------------------- MODULE AccountGateProofs -------------------------
(***************************************************************************)
(* Proofs about AccountGate for any number of controllers, session handles *)
(* and processes, and any number of transitions.  GateInv is inductive;    *)
(* both safety properties follow from it.                                  *)
(***************************************************************************)
EXTENDS AccountGate, TLAPS

WriterSteps ==
  {"out", "mine", "blocked", "leased", "scanning", "body", "left", "rescanning",
   "publishing", "restoring"}
WithinBody == {"body", "left", "rescanning", "publishing", "restoring"}

Handle == [pc : {"none", "known", "asked", "read", "open"}, copies : 0 .. 2, late : BOOLEAN]

GateTypes ==
  /\ writer \in [Writers -> WriterSteps]
  /\ DOMAIN scanned = Writers
  /\ process \in [Pids -> {"none", "seen", "stray"}]
  /\ session \in [Sessions -> Handle]
  /\ failed \in {"no", "closed", "worked"} /\ unresolved \in BOOLEAN

\* .writer is held by one controller.
OneWriter == \A v, w \in Writers : v # w => writer[v] = "out" \/ writer[w] = "out"

\* A handle is open as long as it has copies.
OpenHandles == \A s \in Sessions : session[s].pc = "open" <=> session[s].copies > 0

\* The two leases exclude each other.
LeaseExcludes ==
  \A w \in Writers : writer[w] \in HoldsLease => \A s \in Sessions : ~Shared(s)

\* What a scan has passed holds no process but strays; after a whole scan no
\* process is anything else, and it stays so because new ones are strays.
Swept ==
  \A w \in Writers :
    /\ writer[w] \in {"scanning", "rescanning"} =>
         \A p \in Pids : p \in scanned[w] => process[p] # "seen"
    /\ writer[w] \in WithinBody => \A p \in Pids : process[p] # "seen"

\* What readers find is what a restart may find.
RecordOnDisk == record \in disk

\* From its first write to its publication a transition keeps the gate closed,
\* on the disk too.
Closed ==
  \A w \in Writers :
    writer[w] \in WriterSteps \ {"out", "mine", "restoring"} => disk = {"blocked"}

\* After a failure no active record is left, unless its restoration goes on or
\* failed as well.
Denied ==
  failed # "no" /\ ~unresolved /\ (\A w \in Writers : writer[w] # "restoring") => "active" \notin disk

\* While a session has read the record, no transition fails under its lease.
ReadInTime ==
  \A s \in Sessions : session[s].pc = "read" /\ failed = "worked" => session[s].late

\* Sessions that read after a failure hold the shared lease, and read in doubt.
LateSessions ==
  \A s \in Sessions : session[s].late => session[s].pc \in {"read", "open"} /\ unresolved

GateInv ==
  /\ GateTypes /\ OneWriter /\ OpenHandles /\ LeaseExcludes /\ Swept
  /\ RecordOnDisk /\ Closed /\ Denied /\ ReadInTime /\ LateSessions

-----------------------------------------------------------------------------

\* A closed handle.
LEMMA NoSessionIsAHandle == NoSession \in Handle
  BY DEF NoSession, Handle

\* A step gives a session another handle.
LEMMA SetHandle ==
  ASSUME GateTypes, NEW s \in Sessions, NEW h \in Handle, Set(s, h)
  PROVE  /\ session' \in [Sessions -> Handle]
         /\ session'[s] = h
         /\ \A u \in Sessions : u # s => session'[u] = session[u]
  BY DEF GateTypes, Set

\* How the handle of a session turns into the next one.
Turns(old, new) ==
  \/ new = NoSession
  \/ new.pc = "known" /\ new.copies = 0 /\ new.late = FALSE
  \/ /\ old.pc = "known" /\ ~Leased
     /\ new.pc = "asked" /\ new.copies = old.copies /\ new.late = old.late
  \/ /\ old.pc = "asked" /\ record = "active"
     /\ new.pc = "read" /\ new.copies = old.copies /\ new.late = (failed # "no")
  \/ /\ old.pc = "read"
     /\ new.pc = "open" /\ new.copies = 1 /\ new.late = (old.late \/ failed = "worked")
  \/ /\ old.copies > 0 /\ new.copies > 0
     /\ new.pc = old.pc /\ new.late = old.late

\* What the steps of a session make of its handle; the others keep theirs.
LEMMA SessionStep ==
  ASSUME GateTypes, NEW s \in Sessions, PamSession(s)
  PROVE  /\ session' \in [Sessions -> Handle]
         /\ \A u \in Sessions : u # s => session'[u] = session[u]
         /\ Turns(session[s], session'[s])
<1> DEFINE old == session[s]
<1>1. old \in Handle /\ NoSession \in Handle
  BY NoSessionIsAHandle DEF GateTypes
<1>2. old.copies \in 0 .. 2 /\ old.late \in BOOLEAN
  BY <1>1 DEF Handle
<1>3. NoSession.copies = 0 /\ NoSession.late = FALSE
  BY DEF NoSession
<1>4. CASE KnowAccount(s)
  <2> DEFINE new == [NoSession EXCEPT !.pc = "known"]
  <2>1. new \in Handle /\ new.pc = "known" /\ new.copies = 0 /\ new.late = FALSE
    BY <1>1, <1>3 DEF Handle
  <2>2. Set(s, new)
    BY <1>4 DEF KnowAccount
  <2> QED BY <2>1, <2>2, SetHandle DEF Turns
<1>5. CASE TakeShared(s)
  <2> DEFINE new == [old EXCEPT !.pc = "asked"]
  <2>1. new \in Handle /\ new.pc = "asked" /\ new.copies = old.copies /\ new.late = old.late
    BY <1>1 DEF Handle
  <2>2. Set(s, new) /\ old.pc = "known" /\ ~Leased
    BY <1>5 DEF TakeShared
  <2> QED BY <2>1, <2>2, SetHandle DEF Turns
<1>6. CASE ReadRecord(s)
  <2> DEFINE new == [old EXCEPT !.pc = "read", !.late = failed # "no"]
  <2>1. (failed # "no") \in BOOLEAN
    OBVIOUS
  <2>2. new \in Handle /\ new.pc = "read" /\ new.copies = old.copies /\ new.late = (failed # "no")
    BY <1>1, <2>1 DEF Handle
  <2>3. Set(s, new) /\ old.pc = "asked" /\ record = "active"
    BY <1>6 DEF ReadRecord
  <2> QED BY <2>2, <2>3, SetHandle DEF Turns
<1>7. CASE Admit(s)
  <2> DEFINE late == old.late \/ failed = "worked"
             new == [pc |-> "open", copies |-> 1, late |-> late]
  <2>1. late \in BOOLEAN
    OBVIOUS
  <2>2. new \in Handle /\ new.pc = "open" /\ new.copies = 1 /\ new.late = late
    BY <1>1, <2>1 DEF Handle
  <2>3. Set(s, new) /\ old.pc = "read"
    BY <1>7 DEF Admit
  <2> QED BY <2>2, <2>3, SetHandle DEF Turns
<1>8. CASE Refuse(s)
  BY <1>8, <1>1, SetHandle DEF Refuse, Turns
<1>9. CASE ForkHandle(s)
  <2> DEFINE new == [old EXCEPT !.copies = 2]
  <2>1. new \in Handle /\ new.pc = old.pc /\ new.copies = 2 /\ new.late = old.late
    BY <1>1 DEF Handle
  <2>2. Set(s, new) /\ old.copies = 1
    BY <1>9 DEF ForkHandle
  <2> HIDE DEF new
  <2>3. session'[s] = new /\ session' \in [Sessions -> Handle]
        /\ \A u \in Sessions : u # s => session'[u] = session[u]
    BY <2>1, <2>2, SetHandle
  <2> QED BY <2>1, <2>2, <2>3 DEF Turns
<1>10. CASE EndCopy(s)
  <2>1. CASE old.copies = 1
    BY <1>10, <2>1, <1>1, SetHandle DEF EndCopy, Turns
  <2>2. CASE old.copies # 1
    <3> DEFINE fewer == old.copies - 1
               new == [old EXCEPT !.copies = fewer]
    <3>1. old.copies > 0
      BY <1>10 DEF EndCopy
    <3>2. fewer \in 0 .. 2 /\ fewer > 0
      BY <1>2, <2>2, <3>1
    <3>3. Set(s, new)
      BY <1>10, <2>2 DEF EndCopy
    <3> HIDE DEF fewer
    <3>4. new \in Handle /\ new.pc = old.pc /\ new.copies = fewer /\ new.late = old.late
      BY <1>1, <3>2 DEF Handle
    <3> QED BY <3>1, <3>2, <3>3, <3>4, SetHandle DEF Turns
  <2> QED BY <2>1, <2>2
<1> QED BY <1>4, <1>5, <1>6, <1>7, <1>8, <1>9, <1>10 DEF PamSession

\* What else they leave.
LEMMA SessionFrame ==
  ASSUME NEW s \in Sessions, PamSession(s)
  PROVE  UNCHANGED <<files, record, disk, writer, scanned, stable, process, failed, unresolved, rounds>>
  BY DEF PamSession, KnowAccount, TakeShared, ReadRecord, Admit, Refuse, ForkHandle, EndCopy

\* A machine without a gate starts with GateInv.
LEMMA GateStarts == GateInit => GateInv
<1> SUFFICES ASSUME GateInit PROVE GateInv
  OBVIOUS
<1>1. GateTypes
  <2>1. session \in [Sessions -> Handle]
    BY NoSessionIsAHandle DEF GateInit
  <2> QED BY <2>1 DEF GateInit, GateTypes, WriterSteps
<1>2. OneWriter /\ OpenHandles /\ LeaseExcludes /\ Swept
  BY DEF GateInit, OneWriter, OpenHandles, LeaseExcludes, Swept, WithinBody, HoldsLease, NoSession
<1>3. RecordOnDisk /\ Closed /\ Denied /\ ReadInTime /\ LateSessions
  BY DEF GateInit, RecordOnDisk, Closed, Denied, ReadInTime, LateSessions, NoSession
<1> QED BY <1>1, <1>2, <1>3 DEF GateInv

\* A step keeps the types: the only records made are handles.
LEMMA KeepTypes == GateTypes /\ [GateNext]_gateVars => GateTypes'
<1> SUFFICES ASSUME GateTypes, [GateNext]_gateVars PROVE GateTypes'
  OBVIOUS
<1> USE DEF GateTypes, WriterSteps
<1>1. CASE Initialize
  BY <1>1 DEF Initialize, Written, WriteFails, NotWritten, HalfWritten
<1>2. CASE RestoreIdentity
  BY <1>2 DEF RestoreIdentity
<1>3. CASE Restart
  BY <1>3, NoSessionIsAHandle DEF Restart, FailedBy
<1>4. ASSUME NEW w \in Writers, Enter(w) PROVE GateTypes'
  BY <1>4 DEF Enter, Go
<1>5. ASSUME NEW w \in Writers, Block(w) PROVE GateTypes'
  BY <1>5 DEF Block, Go, Written, WriteFails, NotWritten, HalfWritten
<1>6. ASSUME NEW w \in Writers, Lease(w) PROVE GateTypes'
  BY <1>6 DEF Lease, Fail, FailedBy, Go
<1>7. ASSUME NEW w \in Writers, CheckIdentity(w) PROVE GateTypes'
  BY <1>7 DEF CheckIdentity, Fail, FailedBy, Go
<1>8. ASSUME NEW w \in Writers, Scan(w) PROVE GateTypes'
  BY <1>8 DEF Scan, Fail, FailedBy, Go
<1>9. ASSUME NEW w \in Writers, Idle(w) PROVE GateTypes'
  BY <1>9 DEF Idle, Go
<1>10. ASSUME NEW w \in Writers, Body(w) PROVE GateTypes'
  BY <1>10 DEF Body, Fail, FailedBy, Go
<1>11. ASSUME NEW w \in Writers, Publish(w) PROVE GateTypes'
  BY <1>11 DEF Publish, Go, Written, WriteFails, NotWritten, HalfWritten
<1>12. ASSUME NEW w \in Writers, Restore(w) PROVE GateTypes'
  BY <1>12 DEF Restore, Fail, FailedBy, Go, Written, WriteFails, NotWritten, HalfWritten
<1>13. ASSUME NEW w \in Writers, KillWriter(w) PROVE GateTypes'
  BY <1>13 DEF KillWriter, Go, FailedBy, NotWritten, HalfWritten
<1>14. ASSUME NEW s \in Sessions, PamSession(s) PROVE GateTypes'
  BY <1>14, SessionStep, SessionFrame
<1>18. ASSUME NEW p \in Pids, Spawn(p) PROVE GateTypes'
  BY <1>18 DEF Spawn
<1>19. ASSUME NEW p \in Pids, Exit(p) PROVE GateTypes'
  BY <1>19 DEF Exit
<1>20. CASE UNCHANGED gateVars
  BY <1>20 DEF gateVars
<1> QED
  BY <1>1, <1>2, <1>3, <1>4, <1>5, <1>6, <1>7, <1>8, <1>9, <1>10, <1>11, <1>12, <1>13,
     <1>14, <1>18, <1>19, <1>20 DEF GateNext, Transition

\* Only Enter takes .writer, and it asks for it.
LEMMA KeepOneWriter == GateTypes /\ OneWriter /\ [GateNext]_gateVars => OneWriter'
<1> SUFFICES ASSUME GateTypes, OneWriter, [GateNext]_gateVars PROVE OneWriter'
  OBVIOUS
<1> USE DEF GateTypes, OneWriter
<1>1. CASE Initialize
  BY <1>1 DEF Initialize, Written, WriteFails, NotWritten, HalfWritten
<1>2. CASE RestoreIdentity
  BY <1>2 DEF RestoreIdentity
<1>3. CASE Restart
  BY <1>3 DEF Restart, FailedBy, NoSession
<1>4. ASSUME NEW w \in Writers, Enter(w) PROVE OneWriter'
  BY <1>4 DEF Enter, Go, WriterLocked
<1>5. ASSUME NEW w \in Writers, Block(w) PROVE OneWriter'
  BY <1>5 DEF Block, Go, Written, WriteFails, NotWritten, HalfWritten
<1>6. ASSUME NEW w \in Writers, Lease(w) PROVE OneWriter'
  BY <1>6 DEF Lease, Fail, FailedBy, Go
<1>7. ASSUME NEW w \in Writers, CheckIdentity(w) PROVE OneWriter'
  BY <1>7 DEF CheckIdentity, Fail, FailedBy, Go
<1>8. ASSUME NEW w \in Writers, Scan(w) PROVE OneWriter'
  BY <1>8 DEF Scan, Fail, FailedBy, Go
<1>9. ASSUME NEW w \in Writers, Idle(w) PROVE OneWriter'
  BY <1>9 DEF Idle, Go
<1>10. ASSUME NEW w \in Writers, Body(w) PROVE OneWriter'
  BY <1>10 DEF Body, Fail, FailedBy, Go
<1>11. ASSUME NEW w \in Writers, Publish(w) PROVE OneWriter'
  BY <1>11 DEF Publish, Go, Written, WriteFails, NotWritten, HalfWritten
<1>12. ASSUME NEW w \in Writers, Restore(w) PROVE OneWriter'
  BY <1>12 DEF Restore, Fail, FailedBy, Go, Written, WriteFails, NotWritten, HalfWritten
<1>13. ASSUME NEW w \in Writers, KillWriter(w) PROVE OneWriter'
  BY <1>13 DEF KillWriter, Go, FailedBy, NotWritten, HalfWritten
<1>14. CASE \E s \in Sessions : PamSession(s)
  BY <1>14, SessionFrame
<1>15. CASE \E p \in Pids : Spawn(p) \/ Exit(p)
  BY <1>15 DEF Spawn, Exit
<1>16. CASE UNCHANGED gateVars
  BY <1>16 DEF gateVars
<1> QED
  BY <1>1, <1>2, <1>3, <1>4, <1>5, <1>6, <1>7, <1>8, <1>9, <1>10, <1>11, <1>12, <1>13,
     <1>14, <1>15, <1>16 DEF GateNext, Transition, PamSession

\* Lease looks for shared leases, TakeShared for the exclusive one.
LEMMA KeepLeases == GateTypes /\ OpenHandles /\ LeaseExcludes /\ [GateNext]_gateVars => (OpenHandles /\ LeaseExcludes)'
<1> SUFFICES ASSUME GateTypes, OpenHandles, LeaseExcludes, [GateNext]_gateVars PROVE (OpenHandles /\ LeaseExcludes)'
  OBVIOUS
<1> USE DEF GateTypes, OpenHandles, LeaseExcludes, HoldsLease, Shared, Handle
<1>1. CASE Initialize
  BY <1>1 DEF Initialize, Written, WriteFails, NotWritten, HalfWritten
<1>2. CASE RestoreIdentity
  BY <1>2 DEF RestoreIdentity
<1>3. CASE Restart
  BY <1>3 DEF Restart, FailedBy, NoSession
<1>4. ASSUME NEW w \in Writers, Enter(w) PROVE (OpenHandles /\ LeaseExcludes)'
  BY <1>4 DEF Enter, Go
<1>5. ASSUME NEW w \in Writers, Block(w) PROVE (OpenHandles /\ LeaseExcludes)'
  BY <1>5 DEF Block, Go, Written, WriteFails, NotWritten, HalfWritten
<1>6. ASSUME NEW w \in Writers, Lease(w) PROVE (OpenHandles /\ LeaseExcludes)'
  BY <1>6 DEF Lease, Fail, FailedBy, Go
<1>7. ASSUME NEW w \in Writers, CheckIdentity(w) PROVE (OpenHandles /\ LeaseExcludes)'
  BY <1>7 DEF CheckIdentity, Fail, FailedBy, Go
<1>8. ASSUME NEW w \in Writers, Scan(w) PROVE (OpenHandles /\ LeaseExcludes)'
  BY <1>8 DEF Scan, Fail, FailedBy, Go
<1>9. ASSUME NEW w \in Writers, Idle(w) PROVE (OpenHandles /\ LeaseExcludes)'
  BY <1>9 DEF Idle, Go
<1>10. ASSUME NEW w \in Writers, Body(w) PROVE (OpenHandles /\ LeaseExcludes)'
  BY <1>10 DEF Body, Fail, FailedBy, Go
<1>11. ASSUME NEW w \in Writers, Publish(w) PROVE (OpenHandles /\ LeaseExcludes)'
  BY <1>11 DEF Publish, Go, Written, WriteFails, NotWritten, HalfWritten
<1>12. ASSUME NEW w \in Writers, Restore(w) PROVE (OpenHandles /\ LeaseExcludes)'
  BY <1>12 DEF Restore, Fail, FailedBy, Go, Written, WriteFails, NotWritten, HalfWritten
<1>13. ASSUME NEW w \in Writers, KillWriter(w) PROVE (OpenHandles /\ LeaseExcludes)'
  BY <1>13 DEF KillWriter, Go, FailedBy, NotWritten, HalfWritten
<1>14. ASSUME NEW s \in Sessions, PamSession(s) PROVE (OpenHandles /\ LeaseExcludes)'
  <2>1. writer' = writer
    BY <1>14, SessionFrame
  <2> DEFINE old == session[s]
             new == session'[s]
  <2>2. /\ old \in Handle /\ new \in Handle /\ Turns(old, new)
        /\ \A u \in Sessions : u # s => session'[u] = session[u]
    BY <1>14, SessionStep
  <2>3. old.pc = "open" <=> old.copies > 0
    OBVIOUS
  <2>4. Leased => ~(old.pc \in {"asked", "read"} \/ old.copies > 0)
    BY DEF Leased
  <2> HIDE DEF old, new
  <2>5. new.pc = "open" <=> new.copies > 0
    BY <2>2, <2>3 DEF Turns, NoSession
  <2>6. Leased => ~(new.pc \in {"asked", "read"} \/ new.copies > 0)
    BY <2>2, <2>3, <2>4 DEF Turns, NoSession
  <2> USE DEF old, new
  <2>7. OpenHandles'
    BY <2>2, <2>5
  <2>8. LeaseExcludes'
    BY <2>1, <2>2, <2>6 DEF Leased
  <2> QED BY <2>7, <2>8
<1>18. CASE \E p \in Pids : Spawn(p) \/ Exit(p)
  BY <1>18 DEF Spawn, Exit
<1>19. CASE UNCHANGED gateVars
  BY <1>19 DEF gateVars
<1> QED
  BY <1>1, <1>2, <1>3, <1>4, <1>5, <1>6, <1>7, <1>8, <1>9, <1>10, <1>11, <1>12, <1>13,
     <1>14, <1>18, <1>19 DEF GateNext, Transition

\* A scan passes a number only when nothing is there.
LEMMA KeepSwept == GateTypes /\ Swept /\ [GateNext]_gateVars => Swept'
<1> SUFFICES ASSUME GateTypes, Swept, [GateNext]_gateVars PROVE Swept'
  OBVIOUS
<1> USE DEF GateTypes, Swept, WithinBody
<1>1. CASE Initialize
  BY <1>1 DEF Initialize, Written, WriteFails, NotWritten, HalfWritten
<1>2. CASE RestoreIdentity
  BY <1>2 DEF RestoreIdentity
<1>3. CASE Restart
  BY <1>3 DEF Restart, FailedBy, NoSession
<1>4. ASSUME NEW w \in Writers, Enter(w) PROVE Swept'
  BY <1>4 DEF Enter, Go
<1>5. ASSUME NEW w \in Writers, Block(w) PROVE Swept'
  BY <1>5 DEF Block, Go, Written, WriteFails, NotWritten, HalfWritten
<1>6. ASSUME NEW w \in Writers, Lease(w) PROVE Swept'
  BY <1>6 DEF Lease, Fail, FailedBy, Go
<1>7. ASSUME NEW w \in Writers, CheckIdentity(w) PROVE Swept'
  BY <1>7 DEF CheckIdentity, Fail, FailedBy, Go
<1>8. ASSUME NEW w \in Writers, Scan(w) PROVE Swept'
  BY <1>8 DEF Scan, Fail, FailedBy, Go
<1>9. ASSUME NEW w \in Writers, Idle(w) PROVE Swept'
  BY <1>9 DEF Idle, Go, Remaining
<1>10. ASSUME NEW w \in Writers, Body(w) PROVE Swept'
  BY <1>10 DEF Body, Fail, FailedBy, Go
<1>11. ASSUME NEW w \in Writers, Publish(w) PROVE Swept'
  BY <1>11 DEF Publish, Go, Written, WriteFails, NotWritten, HalfWritten
<1>12. ASSUME NEW w \in Writers, Restore(w) PROVE Swept'
  BY <1>12 DEF Restore, Fail, FailedBy, Go, Written, WriteFails, NotWritten, HalfWritten
<1>13. ASSUME NEW w \in Writers, KillWriter(w) PROVE Swept'
  BY <1>13 DEF KillWriter, Go, FailedBy, NotWritten, HalfWritten
<1>14. CASE \E s \in Sessions : PamSession(s)
  BY <1>14, SessionFrame
<1>15. ASSUME NEW p \in Pids, Spawn(p) PROVE Swept'
  BY <1>15 DEF Spawn, Scanning, HoldsLease
<1>16. ASSUME NEW p \in Pids, Exit(p) PROVE Swept'
  BY <1>16 DEF Exit
<1>17. CASE UNCHANGED gateVars
  BY <1>17 DEF gateVars
<1> QED
  BY <1>1, <1>2, <1>3, <1>4, <1>5, <1>6, <1>7, <1>8, <1>9, <1>10, <1>11, <1>12, <1>13,
     <1>14, <1>15, <1>16, <1>17 DEF GateNext, Transition, PamSession

\* Only Publish writes "active", and nobody else writes meanwhile; when it fails,
\* Restore closes the gate or says that it could not.
LEMMA KeepDenied == GateInv /\ [GateNext]_gateVars => (RecordOnDisk /\ Closed /\ Denied)'
<1> SUFFICES ASSUME GateInv, [GateNext]_gateVars PROVE (RecordOnDisk /\ Closed /\ Denied)'
  OBVIOUS
<1> USE DEF GateInv, GateTypes, OneWriter, RecordOnDisk, Closed, Denied, WriterSteps
<1>1. CASE Initialize
  BY <1>1 DEF Initialize, Written, WriteFails, NotWritten, HalfWritten, WriterLocked
<1>2. CASE RestoreIdentity
  BY <1>2 DEF RestoreIdentity
<1>3. CASE Restart
  <2>1. record' \in disk \cup InWriting /\ disk' = {record'} /\ \A w \in Writers : writer'[w] = "out"
    BY <1>3 DEF Restart
  <2>2. CASE record' = "active" /\ "active" \in InWriting
    <3>1. failed' = "no"
      BY <1>3, <2>2 DEF Restart
    <3> QED BY <2>1, <3>1
  <2>3. CASE ~(record' = "active" /\ "active" \in InWriting)
    <3>1. /\ failed' = FailedBy(Writers)
          /\ unresolved' = (unresolved \/ \E w \in Writers : writer[w] = "restoring")
      BY <1>3, <2>3 DEF Restart
    <3>2. SUFFICES ASSUME failed' # "no", ~unresolved', record' = "active" PROVE FALSE
      BY <2>1
    <3>3. "active" \in disk
      BY <2>1, <2>3, <3>2
    <3>4. ~unresolved /\ \A w \in Writers : writer[w] # "restoring"
      BY <3>1, <3>2
    <3>5. failed = "no"
      BY <3>3, <3>4
    <3>6. \A w \in Writers : writer[w] \in {"out", "mine"}
      BY <3>3, <3>4
    <3>7. FailedBy(Writers) = "no"
      BY <3>5, <3>6 DEF FailedBy, HoldsLease
    <3> QED BY <3>1, <3>2, <3>7
  <2> QED BY <2>2, <2>3
<1>4. ASSUME NEW w \in Writers, Enter(w) PROVE (RecordOnDisk /\ Closed /\ Denied)'
  BY <1>4 DEF Enter, Go
<1>5. ASSUME NEW w \in Writers, Block(w) PROVE (RecordOnDisk /\ Closed /\ Denied)'
  BY <1>5 DEF Block, Go, Written, WriteFails, NotWritten, HalfWritten
<1>6. ASSUME NEW w \in Writers, Lease(w) PROVE (RecordOnDisk /\ Closed /\ Denied)'
  BY <1>6 DEF Lease, Fail, FailedBy, Go
<1>7. ASSUME NEW w \in Writers, CheckIdentity(w) PROVE (RecordOnDisk /\ Closed /\ Denied)'
  BY <1>7 DEF CheckIdentity, Fail, FailedBy, Go
<1>8. ASSUME NEW w \in Writers, Scan(w) PROVE (RecordOnDisk /\ Closed /\ Denied)'
  BY <1>8 DEF Scan, Fail, FailedBy, Go
<1>9. ASSUME NEW w \in Writers, Idle(w) PROVE (RecordOnDisk /\ Closed /\ Denied)'
  BY <1>9 DEF Idle, Go
<1>10. ASSUME NEW w \in Writers, Body(w) PROVE (RecordOnDisk /\ Closed /\ Denied)'
  BY <1>10 DEF Body, Fail, FailedBy, Go
<1>11. ASSUME NEW w \in Writers, Publish(w) PROVE (RecordOnDisk /\ Closed /\ Denied)'
  BY <1>11 DEF Publish, Go, Written, WriteFails, NotWritten, HalfWritten
<1>12. ASSUME NEW w \in Writers, Restore(w) PROVE (RecordOnDisk /\ Closed /\ Denied)'
  BY <1>12 DEF Restore, Fail, FailedBy, Go, Written, WriteFails, NotWritten, HalfWritten
<1>13. ASSUME NEW w \in Writers, KillWriter(w) PROVE (RecordOnDisk /\ Closed /\ Denied)'
  <2>1. writer'[w] = "out" /\ \A v \in Writers : v # w => writer'[v] = writer[v] /\ writer[v] = "out"
    BY <1>13 DEF KillWriter, Go
  <2>2. FailedBy({w}) # "no" => failed # "no" \/ writer[w] \in HoldsLease \cup {"blocked"}
    BY DEF FailedBy
  <2>3. CASE writer[w] = "publishing" /\ HalfWritten("active") /\ failed' = "no"
    BY <2>1, <2>3 DEF HalfWritten
  <2>4. CASE writer[w] \in {"mine", "restoring"} /\ HalfWritten("blocked") /\ failed' = FailedBy({w})
             /\ unresolved' = (unresolved \/ writer[w] = "restoring")
    BY <2>1, <2>4, <2>2 DEF HalfWritten, HoldsLease
  <2>5. CASE NotWritten /\ failed' = FailedBy({w}) /\ unresolved' = (unresolved \/ writer[w] = "restoring")
    <3>1. record' = record /\ disk' = disk
      BY <2>5 DEF NotWritten
    <3>2. RecordOnDisk' /\ Closed'
      BY <2>1, <3>1
    <3>3. CASE writer[w] = "restoring"
      BY <2>5, <3>2, <3>3
    <3>4. CASE writer[w] \in {"out", "mine"}
      BY <2>1, <2>5, <2>2, <3>1, <3>4 DEF HoldsLease
    <3>5. CASE writer[w] \notin {"out", "mine", "restoring"}
      BY <3>1, <3>5
    <3> QED BY <3>2, <3>3, <3>4, <3>5
  <2> QED BY <1>13, <2>3, <2>4, <2>5 DEF KillWriter
<1>14. CASE \E s \in Sessions : PamSession(s)
  BY <1>14, SessionFrame
<1>15. CASE \E p \in Pids : Spawn(p) \/ Exit(p)
  BY <1>15 DEF Spawn, Exit
<1>16. CASE UNCHANGED gateVars
  BY <1>16 DEF gateVars
<1> QED
  BY <1>1, <1>2, <1>3, <1>4, <1>5, <1>6, <1>7, <1>8, <1>9, <1>10, <1>11, <1>12, <1>13,
     <1>14, <1>15, <1>16 DEF GateNext, Transition, PamSession

\* A session that reads holds its shared lease, so nobody restores just now, and
\* an active record it finds was not left by a failure; and nobody fails under
\* the exclusive lease until it is let in.
LEMMA KeepLate == GateInv /\ [GateNext]_gateVars => (ReadInTime /\ LateSessions)'
<1> SUFFICES ASSUME GateInv, [GateNext]_gateVars PROVE (ReadInTime /\ LateSessions)'
  OBVIOUS
<1> USE DEF GateInv, GateTypes, Handle, ReadInTime, LateSessions, LeaseExcludes, Shared, HoldsLease, OpenHandles, RecordOnDisk, Denied
<1>1. CASE Initialize
  BY <1>1 DEF Initialize, Written, WriteFails, NotWritten, HalfWritten
<1>2. CASE RestoreIdentity
  BY <1>2 DEF RestoreIdentity
<1>3. CASE Restart
  BY <1>3 DEF Restart, FailedBy, NoSession
<1>4. ASSUME NEW w \in Writers, Enter(w) PROVE (ReadInTime /\ LateSessions)'
  BY <1>4 DEF Enter, Go
<1>5. ASSUME NEW w \in Writers, Block(w) PROVE (ReadInTime /\ LateSessions)'
  BY <1>5 DEF Block, Go, Written, WriteFails, NotWritten, HalfWritten
<1>6. ASSUME NEW w \in Writers, Lease(w) PROVE (ReadInTime /\ LateSessions)'
  BY <1>6 DEF Lease, Fail, FailedBy, Go
<1>7. ASSUME NEW w \in Writers, CheckIdentity(w) PROVE (ReadInTime /\ LateSessions)'
  BY <1>7 DEF CheckIdentity, Fail, FailedBy, Go
<1>8. ASSUME NEW w \in Writers, Scan(w) PROVE (ReadInTime /\ LateSessions)'
  BY <1>8 DEF Scan, Fail, FailedBy, Go
<1>9. ASSUME NEW w \in Writers, Idle(w) PROVE (ReadInTime /\ LateSessions)'
  BY <1>9 DEF Idle, Go
<1>10. ASSUME NEW w \in Writers, Body(w) PROVE (ReadInTime /\ LateSessions)'
  BY <1>10 DEF Body, Fail, FailedBy, Go
<1>11. ASSUME NEW w \in Writers, Publish(w) PROVE (ReadInTime /\ LateSessions)'
  BY <1>11 DEF Publish, Go, Written, WriteFails, NotWritten, HalfWritten
<1>12. ASSUME NEW w \in Writers, Restore(w) PROVE (ReadInTime /\ LateSessions)'
  BY <1>12 DEF Restore, Fail, FailedBy, Go, Written, WriteFails, NotWritten, HalfWritten
<1>13. ASSUME NEW w \in Writers, KillWriter(w) PROVE (ReadInTime /\ LateSessions)'
  BY <1>13 DEF KillWriter, Go, FailedBy, NotWritten, HalfWritten
<1>14. ASSUME NEW s \in Sessions, PamSession(s) PROVE (ReadInTime /\ LateSessions)'
  <2>1. writer' = writer /\ failed' = failed /\ unresolved' = unresolved
    BY <1>14, SessionFrame
  <2> DEFINE old == session[s]
             new == session'[s]
  <2>2. Turns(old, new) /\ \A u \in Sessions : u # s => session'[u] = session[u]
    BY <1>14, SessionStep
  <2>3. old.pc = "asked" => \A w \in Writers : writer[w] # "restoring"
    OBVIOUS
  <2>4. old.pc = "asked" /\ record = "active" /\ failed # "no" => unresolved
    BY <2>3
  <2>5. old.pc \in {"none", "known", "asked", "read", "open"} /\ old.copies \in 0 .. 2
    OBVIOUS
  <2>6. /\ old.pc = "open" <=> old.copies > 0
        /\ old.pc = "read" /\ failed = "worked" => old.late
        /\ old.late => old.pc \in {"read", "open"} /\ unresolved
    OBVIOUS
  <2> HIDE DEF old, new
  <2>7. /\ new.pc = "read" /\ failed = "worked" => new.late
        /\ new.late => new.pc \in {"read", "open"} /\ unresolved
    BY <2>2, <2>4, <2>5, <2>6 DEF Turns, NoSession
  <2> USE DEF old, new
  <2> QED BY <2>1, <2>2, <2>7
<1>18. CASE \E p \in Pids : Spawn(p) \/ Exit(p)
  BY <1>18 DEF Spawn, Exit
<1>19. CASE UNCHANGED gateVars
  BY <1>19 DEF gateVars
<1> QED
  BY <1>1, <1>2, <1>3, <1>4, <1>5, <1>6, <1>7, <1>8, <1>9, <1>10, <1>11, <1>12, <1>13,
     <1>14, <1>18, <1>19 DEF GateNext, Transition

-----------------------------------------------------------------------------
\* GateInv holds in every state, for every set of controllers, handles and
\* processes and every number of transitions.
THEOREM GateInvariance == GateSpec => []GateInv
<1>1. GateInv /\ [GateNext]_gateVars => GateInv'
  BY KeepTypes, KeepOneWriter, KeepLeases, KeepSwept, KeepDenied, KeepLate DEF GateInv
<1> QED BY GateStarts, <1>1, PTL DEF GateSpec

\* While the body of a transition runs nobody uses the account (transition.py).
THEOREM RunsAlone == GateSpec => []BodyRunsAlone
<1>1. GateInv => BodyRunsAlone
  BY DEF GateInv, GateTypes, OneWriter, OpenHandles, LeaseExcludes, Swept, WithinBody,
     HoldsLease, Shared, Handle, BodyRunsAlone
<1> QED BY GateInvariance, <1>1, PTL

\* After a failed transition no session finds an active record before the next
\* publication, and one that had read it earlier is let in only beside a
\* transition that never got its lease, unless closing the gate again failed too
\* (transition.py:138, :144-157; pam-guard.c:57-58, :130-144).
THEOREM NeedsCommit == GateSpec => []AdmissionNeedsCommit
<1>1. GateInv => AdmissionNeedsCommit
  BY DEF GateInv, LateSessions, AdmissionNeedsCommit
<1> QED BY GateInvariance, <1>1, PTL
=============================================================================
