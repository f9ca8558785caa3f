-------------------------- MODULE EvidenceSinkProofs --------------------------
(***************************************************************************)
(* What holds of the evidence sink for any number of processes, files,     *)
(* contents, runs, receipts and rewrites: what the published index calls   *)
(* retained is in the object store, it names no index twice and leaves no  *)
(* segment out; with one finalizer it is published before anything is      *)
(* removed, and the inventory beside it leads to a receipt for everything  *)
(* it calls retained.                                                      *)
(***************************************************************************)
EXTENDS EvidenceSink, TLAPS

-----------------------------------------------------------------------------
(* Types.  TypeOK alone is not inductive: what a process publishes is well *)
(* typed because its shell variables are set by the phase that uses them.  *)

HoldsFile == {"match", "copy", "put", "check", "head", "write", "publish",
              "bind", "bound", "receipt"}
HoldsSnapshot == {"add", "inventory", "index", "delete"}

\* The variables that process j needs in its phase are set.
JobSet(j) ==
  /\ j.pc # "idle" => j.run \in Runs /\ j.mode \in {"local", "s3"}
  /\ j.pc \in HoldsFile => /\ j.path \in Files
                           /\ j.index \in Indexes
                           /\ j.sha \in Contents
  /\ j.pc = "bind" => j.staged \in Receipt
  /\ j.pc \in HoldsSnapshot => /\ j.snap \in Snapshot
                               /\ \A k \in j.left : j.snap[k] # None

TypeInv == TypeOK /\ \A p \in Procs : JobSet(job[p])

\* A process slot without a process is well typed.
LEMMA IdleTyped == Idle \in Job /\ JobSet(Idle)
  BY DEF Idle, Job, JobSet, Phases, HoldsFile, HoldsSnapshot

\* The initial state is well typed.
LEMMA InitTyped == Init => TypeInv
<1> SUFFICES ASSUME Init PROVE TypeInv
  OBVIOUS
<1>1. TypeOK
  BY IdleTyped DEF Init, TypeOK, Snapshot, ObjKey
<1>2. \A p \in Procs : JobSet(job[p])
  BY IdleTyped DEF Init
<1> QED BY <1>1, <1>2 DEF TypeInv

\* One process's variables change, to well-typed ones.
LEMMA JobUpdate ==
  ASSUME job \in [Procs -> Job], \A p \in Procs : JobSet(job[p]),
         NEW q \in Procs, NEW j \in Job, JobSet(j),
         job' = [job EXCEPT ![q] = j]
  PROVE  job' \in [Procs -> Job] /\ \A p \in Procs : JobSet(job'[p])
  OBVIOUS

\* A command that ends leaves its slot well typed.
LEMMA ExitTyped ==
  ASSUME TypeInv, NEW p \in Procs, Exit(p)
  PROVE  job' \in [Procs -> Job] /\ \A q \in Procs : JobSet(job'[q])
  BY IdleTyped, JobUpdate DEF Exit, TypeInv, TypeOK

\* A command that has registered one file goes on well typed.
LEMMA RegisteredTyped ==
  ASSUME TypeInv, NEW p \in Procs, Registered(p), job[p].pc # "idle"
  PROVE  job' \in [Procs -> Job] /\ \A q \in Procs : JobSet(job'[q])
<1> DEFINE j == [job[p] EXCEPT !.pc = "scan", !.path = None, !.index = None,
                               !.sha = None, !.version = 0]
<1>1. job[p] \in Job /\ JobSet(job[p])
  BY DEF TypeInv, TypeOK
<1>2. j \in Job
  BY <1>1 DEF Job, Phases
<1>3. JobSet(j)
  BY <1>1 DEF JobSet, HoldsFile, HoldsSnapshot, Job
<1>4. job' = [job EXCEPT ![p] = j]
  BY DEF Registered, TypeInv, TypeOK
<1> HIDE DEF j
<1> QED BY <1>2, <1>3, <1>4, JobUpdate DEF TypeInv, TypeOK

\* A step that changes only the variables of one process, to well-typed ones.
LEMMA OnlyJobTyped ==
  ASSUME TypeInv,
         job' \in [Procs -> Job] /\ \A q \in Procs : JobSet(job'[q]),
         UNCHANGED <<file, reg, remote, verified, receipt, inventory, index,
                     receipts, rewrites, replaced>>
  PROVE  TypeInv'
  BY DEF TypeInv, TypeOK

\* A process only moves to another phase for which its variables are set.
LEMMA GotoTyped ==
  ASSUME TypeInv, NEW p \in Procs, NEW c \in Phases, job[p].pc # "idle",
         job' = [job EXCEPT ![p].pc = c],
         c \in HoldsFile => job[p].pc \in HoldsFile,
         c # "bind",
         c \in HoldsSnapshot => job[p].pc \in HoldsSnapshot
  PROVE  job' \in [Procs -> Job] /\ \A q \in Procs : JobSet(job'[q])
<1> DEFINE j == [job[p] EXCEPT !.pc = c]
<1>1. job[p] \in Job /\ JobSet(job[p])
  BY DEF TypeInv, TypeOK
<1>2. j \in Job
  BY <1>1 DEF Job
<1>3. JobSet(j)
  BY <1>1 DEF JobSet, Job
<1>4. job' = [job EXCEPT ![p] = j]
  BY DEF TypeInv, TypeOK
<1> HIDE DEF j
<1> QED BY <1>2, <1>3, <1>4, JobUpdate DEF TypeInv, TypeOK

\* Starting a command sets the variables its first phase needs.
LEMMA StartTyped ==
  ASSUME TypeInv, NEW p \in Procs, Start(p)
  PROVE  TypeInv'
<1>1. PICK m \in Modes, r \in Runs :
        \/ StartWatch(p, m, r) \/ StartSegment(p, m, r)
        \/ StartArtifact(p, m, r) \/ StartReceipt(p, m, r)
        \/ StartFinalize(p, m, r)
  BY DEF Start
<1>2. m \in {"local", "s3"} /\ Listing \subseteq Files
  BY ConstantsAssumption DEF Listing, Files
<1>3. UNCHANGED <<file, reg, remote, verified, receipt, inventory, index, rewrites,
                  replaced>>
  BY DEF Start
<1>4. SUFFICES /\ receipts' \in Nat
               /\ job' \in [Procs -> Job] /\ \A q \in Procs : JobSet(job'[q])
  BY <1>3 DEF TypeInv, TypeOK
<1>5. CASE StartWatch(p, m, r)
  <2> DEFINE j == [Idle EXCEPT !.pc = "scan", !.cmd = "watch", !.mode = m,
                               !.run = r, !.todo = Listing]
  <2>1. j \in Job /\ JobSet(j)
    BY <1>2 DEF Idle, Job, Phases, Commands, JobSet, HoldsFile, HoldsSnapshot
  <2>2. job' = [job EXCEPT ![p] = j] /\ receipts' = receipts
    BY <1>5 DEF StartWatch
  <2> HIDE DEF j
  <2> QED BY <2>1, <2>2, JobUpdate DEF TypeInv, TypeOK
<1>6. CASE StartSegment(p, m, r)
  <2>1. PICK f \in Listing :
          job' = [job EXCEPT ![p] = [Idle EXCEPT !.pc = "scan", !.cmd = "segment",
                                     !.mode = m, !.run = r, !.todo = {f}]]
    BY <1>6 DEF StartSegment
  <2> DEFINE j == [Idle EXCEPT !.pc = "scan", !.cmd = "segment", !.mode = m,
                               !.run = r, !.todo = {f}]
  <2>2. j \in Job /\ JobSet(j)
    BY <1>2 DEF Idle, Job, Phases, Commands, JobSet, HoldsFile, HoldsSnapshot
  <2>3. job' = [job EXCEPT ![p] = j] /\ receipts' = receipts
    BY <1>6, <2>1 DEF StartSegment
  <2> HIDE DEF j
  <2> QED BY <2>2, <2>3, JobUpdate DEF TypeInv, TypeOK
<1>7. CASE StartArtifact(p, m, r)
  <2>1. PICK f \in Artifacts, i \in Indexes :
          /\ file[f] \in Contents
          /\ job' = [job EXCEPT ![p] =
                    [Idle EXCEPT !.pc = IF m = "local" THEN "write" ELSE "match",
                                 !.cmd = "artifact", !.mode = m, !.run = r,
                                 !.path = f, !.index = i, !.sha = file[f]]]
    BY <1>7, ConstantsAssumption DEF StartArtifact, Files
  <2> DEFINE j == [Idle EXCEPT !.pc = IF m = "local" THEN "write" ELSE "match",
                                 !.cmd = "artifact", !.mode = m, !.run = r,
                                 !.path = f, !.index = i, !.sha = file[f]]
  <2>2. f \in Files
    BY DEF Files
  <2>3. j \in Job /\ JobSet(j)
    BY <1>2, <2>1, <2>2 DEF Idle, Job, Phases, Commands, JobSet, HoldsFile, HoldsSnapshot
  <2>4. job' = [job EXCEPT ![p] = j] /\ receipts' = receipts
    BY <1>7, <2>1 DEF StartArtifact
  <2> HIDE DEF j
  <2> QED BY <2>3, <2>4, JobUpdate DEF TypeInv, TypeOK
<1>8. CASE StartReceipt(p, m, r)
  <2>1. PICK d \in verified, f \in Files, i \in Indexes :
          /\ file[f] = d.sha
          /\ job' = [job EXCEPT ![p] =
                    [Idle EXCEPT !.pc = "bind", !.cmd = "receipt", !.mode = m,
                                 !.run = r, !.path = f, !.index = i,
                                 !.sha = file[f],
                                 !.staged = [artifact |-> d, id |-> receipts + 1]]]
    BY <1>8, ConstantsAssumption DEF StartReceipt
  <2> DEFINE rc == [artifact |-> d, id |-> receipts + 1]
             j == [Idle EXCEPT !.pc = "bind", !.cmd = "receipt", !.mode = m,
                                 !.run = r, !.path = f, !.index = i,
                                 !.sha = file[f], !.staged = rc]
  <2>3. d \in Descriptor /\ receipts \in Nat
    BY DEF TypeInv, TypeOK
  <2>4. rc \in Receipt /\ file[f] \in Contents
    BY <2>1, <2>3 DEF Receipt, Descriptor
  <2>5. job' = [job EXCEPT ![p] = j] /\ receipts' = receipts + 1
    BY <1>8, <2>1 DEF StartReceipt
  <2> HIDE DEF rc
  <2>6. j \in Job /\ JobSet(j)
    BY <1>2, <2>4 DEF Idle, Job, Phases, Commands, JobSet, HoldsFile, HoldsSnapshot
  <2> HIDE DEF j
  <2> QED BY <2>3, <2>5, <2>6, JobUpdate DEF TypeInv, TypeOK
<1>9. CASE StartFinalize(p, m, r)
  <2> DEFINE j == [Idle EXCEPT !.pc = "scan", !.cmd = "finalize", !.mode = m,
                               !.run = r, !.todo = Listing, !.due = Listing]
  <2>1. j \in Job /\ JobSet(j)
    BY <1>2 DEF Idle, Job, Phases, Commands, JobSet, HoldsFile, HoldsSnapshot
  <2>2. job' = [job EXCEPT ![p] = j] /\ receipts' = receipts
    BY <1>9 DEF StartFinalize
  <2> HIDE DEF j
  <2> QED BY <2>1, <2>2, JobUpdate DEF TypeInv, TypeOK
<1> QED BY <1>1, <1>5, <1>6, <1>7, <1>8, <1>9

\* The scan and the upload.
LEMMA ScanTyped ==
  ASSUME TypeInv, NEW p \in Procs,
         \/ HashSegment(p) \/ SkipUnclosed(p) \/ RejectSegment(p) \/ ScanDone(p)
         \/ MatchRegistration(p)
  PROVE  TypeInv'
<1>1. job[p] \in Job /\ JobSet(job[p]) /\ Listing \subseteq Files
  BY DEF TypeInv, TypeOK, Listing, Files
<1>2. CASE HashSegment(p)
  <2>1. PICK f \in Segments, i \in Indexes :
          /\ file[f] \in Admissible
          /\ job' = [job EXCEPT ![p].pc = "match", ![p].todo = @ \ {f},
                             ![p].path = f, ![p].index = i, ![p].sha = file[f]]
    BY <1>2, ConstantsAssumption DEF HashSegment, Files
  <2> DEFINE j == [job[p] EXCEPT !.pc = "match", !.todo = @ \ {f}, !.path = f,
                                 !.index = i, !.sha = file[f]]
  <2>2. f \in Files /\ file[f] \in Contents
    BY <2>1, ConstantsAssumption DEF Files
  <2>3. j \in Job
    BY <1>1, <2>2 DEF Job, Phases
  <2>5. JobSet(j)
    BY <1>1, <1>2, <2>2 DEF HashSegment, Job, JobSet, HoldsFile, HoldsSnapshot
  <2>4. job' = [job EXCEPT ![p] = j]
    BY <2>1 DEF TypeInv, TypeOK
  <2> HIDE DEF j
  <2> QED BY <1>2, <2>3, <2>5, <2>4, JobUpdate, OnlyJobTyped DEF HashSegment, TypeInv, TypeOK
<1>3. CASE SkipUnclosed(p)
  <2>1. CASE Exit(p)
    BY <1>3, <2>1, ExitTyped, OnlyJobTyped DEF SkipUnclosed
  <2>2. CASE \E f \in Segments : job' = [job EXCEPT ![p].todo = @ \ {f}]
    <3>1. PICK f \in Segments : job' = [job EXCEPT ![p].todo = @ \ {f}]
      BY <2>2
    <3> DEFINE j == [job[p] EXCEPT !.todo = @ \ {f}]
    <3>2. j \in Job /\ JobSet(j)
      BY <1>1 DEF Job, JobSet
    <3>3. job' = [job EXCEPT ![p] = j]
      BY <3>1 DEF TypeInv, TypeOK
    <3> HIDE DEF j
    <3> QED BY <1>3, <3>2, <3>3, JobUpdate, OnlyJobTyped DEF SkipUnclosed, TypeInv, TypeOK
  <2> QED BY <1>3, <2>1, <2>2 DEF SkipUnclosed
<1>4. CASE RejectSegment(p)
  BY <1>4, ExitTyped, OnlyJobTyped DEF RejectSegment
<1>5. CASE ScanDone(p)
  <2>1. CASE Exit(p)
    BY <1>5, <2>1, ExitTyped, OnlyJobTyped DEF ScanDone
  <2>2. CASE job' = [job EXCEPT ![p].pc = "snapshot"]
    <3>1. job' \in [Procs -> Job] /\ \A q \in Procs : JobSet(job'[q])
      BY <1>5, <2>2, GotoTyped DEF ScanDone, Phases, HoldsFile, HoldsSnapshot
    <3> QED BY <1>5, <3>1, OnlyJobTyped DEF ScanDone
  <2>3. CASE \E b \in BOOLEAN : job' = [job EXCEPT ![p].todo = Listing, ![p].strict = b]
    <3>1. PICK b \in BOOLEAN : job' = [job EXCEPT ![p].todo = Listing, ![p].strict = b]
      BY <2>3
    <3> DEFINE j == [job[p] EXCEPT !.todo = Listing, !.strict = b]
    <3>2. j \in Job
      BY <1>1 DEF Job
    <3>4. JobSet(j)
      BY <1>1, <1>5 DEF ScanDone, Job, JobSet, HoldsFile, HoldsSnapshot
    <3>3. job' = [job EXCEPT ![p] = j]
      BY <3>1 DEF TypeInv, TypeOK
    <3> HIDE DEF j
    <3> QED BY <1>5, <3>2, <3>3, <3>4, JobUpdate, OnlyJobTyped DEF ScanDone, TypeInv, TypeOK
  <2>4. CASE job' = [job EXCEPT ![p].todo = Listing]
    <3> DEFINE j == [job[p] EXCEPT !.todo = Listing]
    <3>1. j \in Job /\ JobSet(j)
      BY <1>1 DEF Job, JobSet
    <3>2. job' = [job EXCEPT ![p] = j]
      BY <2>4 DEF TypeInv, TypeOK
    <3> HIDE DEF j
    <3> QED BY <1>5, <3>1, <3>2, JobUpdate, OnlyJobTyped DEF ScanDone, TypeInv, TypeOK
  <2> QED BY <1>5, <2>1, <2>2, <2>3, <2>4 DEF ScanDone
<1>6. CASE MatchRegistration(p)
  <2>1. CASE Exit(p)
    BY <1>6, <2>1, ExitTyped, OnlyJobTyped DEF MatchRegistration
  <2>2. CASE Registered(p)
    BY <1>6, <2>2, RegisteredTyped, OnlyJobTyped DEF MatchRegistration
  <2>3. CASE \E c \in {"write", "copy"} : job' = [job EXCEPT ![p].pc = c]
    <3>1. job' \in [Procs -> Job] /\ \A q \in Procs : JobSet(job'[q])
      BY <1>6, <2>3, GotoTyped DEF MatchRegistration, Phases, HoldsFile, HoldsSnapshot
    <3> QED BY <1>6, <3>1, OnlyJobTyped DEF MatchRegistration
  <2> QED BY <1>6, <2>1, <2>2, <2>3 DEF MatchRegistration
<1> QED BY <1>2, <1>3, <1>4, <1>5, <1>6

\* The upload and the registration.
LEMMA UploadTyped ==
  ASSUME TypeInv, NEW p \in Procs,
         \/ RcloneCompare(p) \/ RclonePut(p) \/ RcloneCheck(p) \/ HeadObject(p)
         \/ CheckRegistration(p) \/ PublishRegistration(p)
  PROVE  TypeInv'
<1>1. job[p] \in Job /\ JobSet(job[p])
  BY DEF TypeInv, TypeOK
<1>2. CASE RcloneCompare(p)
  <2>1. CASE Exit(p)
    BY <1>2, <2>1, ExitTyped, OnlyJobTyped DEF RcloneCompare
  <2>2. CASE \E c \in {"put", "check"} : job' = [job EXCEPT ![p].pc = c]
    <3>1. job' \in [Procs -> Job] /\ \A q \in Procs : JobSet(job'[q])
      BY <1>2, <2>2, GotoTyped DEF RcloneCompare, Phases, HoldsFile, HoldsSnapshot
    <3> QED BY <1>2, <3>1, OnlyJobTyped DEF RcloneCompare
  <2> QED BY <1>2, <2>1, <2>2 DEF RcloneCompare
<1>3. CASE RclonePut(p)
  <2>1. CASE Exit(p) /\ UNCHANGED remote
    BY <1>3, <2>1, ExitTyped, OnlyJobTyped DEF RclonePut
  <2>2. CASE /\ file[job[p].path] \in Contents
             /\ remote' = [remote EXCEPT ![JobObject(p)] = Append(@, file[job[p].path])]
             /\ job' = [job EXCEPT ![p].pc = "check"]
    <3>1. job' \in [Procs -> Job] /\ \A q \in Procs : JobSet(job'[q])
      BY <1>3, <2>2, GotoTyped DEF RclonePut, Phases, HoldsFile, HoldsSnapshot
    <3>2. JobObject(p) \in ObjKey
      BY <1>1, <1>3 DEF RclonePut, JobObject, ObjKey, JobSet, HoldsFile
    <3>3. remote' \in [ObjKey -> Seq(Contents)]
      <4> DEFINE k == JobObject(p)
                 c == file[job[p].path]
      <4>1. remote \in [ObjKey -> Seq(Contents)] /\ c \in Contents
        BY <2>2 DEF TypeInv, TypeOK
      <4>2. Append(remote[k], c) \in Seq(Contents)
        BY <4>1, <3>2
      <4>3. remote' = [remote EXCEPT ![k] = Append(remote[k], c)]
        BY <2>2
      <4> HIDE DEF k, c
      <4> QED BY <4>1, <4>2, <4>3
    <3> QED BY <1>3, <3>1, <3>3 DEF RclonePut, TypeInv, TypeOK
  <2> QED BY <1>3, <2>1, <2>2 DEF RclonePut
<1>4. CASE RcloneCheck(p)
  <2>1. CASE Exit(p)
    BY <1>4, <2>1, ExitTyped, OnlyJobTyped DEF RcloneCheck
  <2>2. CASE job' = [job EXCEPT ![p].pc = "head"]
    <3>1. job' \in [Procs -> Job] /\ \A q \in Procs : JobSet(job'[q])
      BY <1>4, <2>2, GotoTyped DEF RcloneCheck, Phases, HoldsFile, HoldsSnapshot
    <3> QED BY <1>4, <3>1, OnlyJobTyped DEF RcloneCheck
  <2> QED BY <1>4, <2>1, <2>2 DEF RcloneCheck
<1>5. CASE HeadObject(p)
  <2> DEFINE n == Len(remote[JobObject(p)])
             j == [job[p] EXCEPT !.pc = "write", !.version = n]
  <2>1. JobObject(p) \in ObjKey
    BY <1>1, <1>5 DEF HeadObject, JobObject, ObjKey, JobSet, HoldsFile
  <2>2. n \in Nat
    BY <2>1 DEF TypeInv, TypeOK
  <2>3. job' = [job EXCEPT ![p] = j]
    BY <1>5 DEF HeadObject, TypeInv, TypeOK
  <2> HIDE DEF n
  <2>4. j \in Job /\ JobSet(j)
    BY <1>1, <1>5, <2>2, ZenonT(60) DEF HeadObject, Job, Phases, JobSet, HoldsFile, HoldsSnapshot
  <2> HIDE DEF j
  <2> QED BY <1>5, <2>3, <2>4, JobUpdate, OnlyJobTyped DEF HeadObject, TypeInv, TypeOK
<1>6. CASE CheckRegistration(p)
  <2>1. CASE Exit(p)
    BY <1>6, <2>1, ExitTyped, OnlyJobTyped DEF CheckRegistration
  <2>2. CASE Registered(p)
    BY <1>6, <2>2, RegisteredTyped, OnlyJobTyped DEF CheckRegistration
  <2>3. CASE job' = [job EXCEPT ![p].pc = "publish"]
    <3>1. job' \in [Procs -> Job] /\ \A q \in Procs : JobSet(job'[q])
      BY <1>6, <2>3, GotoTyped DEF CheckRegistration, Phases, HoldsFile, HoldsSnapshot
    <3> QED BY <1>6, <3>1, OnlyJobTyped DEF CheckRegistration
  <2> QED BY <1>6, <2>1, <2>2, <2>3 DEF CheckRegistration
<1>7. CASE PublishRegistration(p)
  <2>1. job' \in [Procs -> Job] /\ \A q \in Procs : JobSet(job'[q])
    BY <1>7, RegisteredTyped DEF PublishRegistration
  <2>2. NewRegistration(p) \in Registration
    BY <1>1, <1>7 DEF PublishRegistration, NewRegistration, Registration, JobSet,
                      HoldsFile, Job, StatusOf
  <2>3. reg' \in Snapshot
    BY <1>7, <2>2 DEF PublishRegistration, TypeInv, TypeOK, Snapshot
  <2>4. replaced' \subseteq RegKey
    BY <1>7 DEF PublishRegistration, Confirmed, TypeInv, TypeOK
  <2> QED BY <1>7, <2>1, <2>3, <2>4 DEF PublishRegistration, TypeInv, TypeOK
<1> QED BY <1>2, <1>3, <1>4, <1>5, <1>6, <1>7

\* Verification and receipts.
LEMMA ReceiptTyped ==
  ASSUME TypeInv, NEW p \in Procs,
         BindReceipt(p) \/ PublishBinding(p) \/ PublishReceipt(p)
  PROVE  TypeInv'
<1>1. job[p] \in Job /\ JobSet(job[p])
  BY DEF TypeInv, TypeOK
<1>2. CASE BindReceipt(p)
  <2>1. CASE Exit(p)
    BY <1>2, <2>1, ExitTyped, OnlyJobTyped DEF BindReceipt
  <2>2. CASE /\ reg[JobKey(p)] # None
             /\ job' = [job EXCEPT ![p].pc = "bound", ![p].newreg =
                          [reg[JobKey(p)] EXCEPT !.receipt = job[p].staged.id]]
    <3> DEFINE n == [reg[JobKey(p)] EXCEPT !.receipt = job[p].staged.id]
               j == [job[p] EXCEPT !.pc = "bound", !.newreg = n]
    <3>1. JobKey(p) \in RegKey
      BY <1>1, <1>2 DEF BindReceipt, JobKey, RegKey, JobSet, HoldsFile
    <3>2. reg[JobKey(p)] \in Registration
      BY <2>2, <3>1 DEF TypeInv, TypeOK, Snapshot
    <3>3. job[p].staged.id \in Nat
      BY <1>1, <1>2 DEF BindReceipt, JobSet, Receipt
    <3>4. n \in Registration
      BY <3>2, <3>3 DEF Registration
    <3>5. job' = [job EXCEPT ![p] = j]
      BY <2>2 DEF TypeInv, TypeOK
    <3> HIDE DEF n
    <3>6. j \in Job
      BY <1>1, <3>4 DEF Job, Phases
    <3>7. JobSet(j)
      BY <1>1, <1>2 DEF BindReceipt, Job, JobSet, HoldsFile, HoldsSnapshot
    <3> HIDE DEF j
    <3> QED BY <1>2, <3>5, <3>6, <3>7, JobUpdate, OnlyJobTyped DEF BindReceipt, TypeInv, TypeOK
  <2> QED BY <1>2, <2>1, <2>2 DEF BindReceipt
<1>3. CASE PublishBinding(p)
  <2>1. job' \in [Procs -> Job] /\ \A q \in Procs : JobSet(job'[q])
    BY <1>3, GotoTyped DEF PublishBinding, Phases, HoldsFile, HoldsSnapshot
  <2>2. job[p].newreg \in Registration \cup {None}
    BY <1>1 DEF Job
  <2>3. reg' \in Snapshot
    BY <1>3, <2>2 DEF PublishBinding, TypeInv, TypeOK, Snapshot
  <2> QED BY <1>3, <2>1, <2>3 DEF PublishBinding, TypeInv, TypeOK
<1>4. CASE PublishReceipt(p)
  <2>1. job' \in [Procs -> Job] /\ \A q \in Procs : JobSet(job'[q])
    BY <1>4, ExitTyped DEF PublishReceipt
  <2>2. job[p].staged \in Receipt \cup {None}
    BY <1>1 DEF Job
  <2>3. receipt' \in [RegKey -> Receipt \cup {None}]
    BY <1>4, <2>2 DEF PublishReceipt, TypeInv, TypeOK
  <2> QED BY <1>4, <2>1, <2>3 DEF PublishReceipt, TypeInv, TypeOK
<1> QED BY <1>2, <1>3, <1>4

\* A registration names a descriptor.
LEMMA DescriptorTyped ==
  ASSUME NEW k \in RegKey, NEW r \in Registration
  PROVE  DescriptorOf(k, r) \in Descriptor
  BY DEF DescriptorOf, Descriptor, RegKey, Registration

\* A verification document holds a descriptor.
LEMMA VerifyTyped ==
  ASSUME TypeInv, NEW k \in RegKey, VerifyRetained(k)
  PROVE  TypeInv'
<1>1. reg[k] \in Registration
  BY DEF VerifyRetained, TypeInv, TypeOK, Snapshot
<1>2. verified' \subseteq Descriptor
  BY <1>1, DescriptorTyped DEF VerifyRetained, TypeInv, TypeOK
<1> QED BY <1>2 DEF VerifyRetained, TypeInv, TypeOK

\* The registration that finalize looks at next.
LEMMA EntryTyped ==
  ASSUME TypeInv, NEW p \in Procs, NEW k \in RegKey,
         job[p].pc = "add", k \in job[p].left, Addable(p, k, job[p].snap[k])
  PROVE  /\ job[p].snap[k] \in Registration
         /\ EntryOf(k, job[p].snap[k]) \in Entry
<1>1. job[p] \in Job /\ JobSet(job[p])
  BY DEF TypeInv, TypeOK
<1>2. job[p].snap[k] \in Registration
  BY <1>1 DEF JobSet, HoldsSnapshot, Snapshot
<1>3. job[p].snap[k].status = "local" \/ receipt[k] \in Receipt
  BY <1>2 DEF Addable, Registration, TypeInv, TypeOK
<1> DEFINE r == job[p].snap[k]
           n == IF r.status = "local" THEN 0 ELSE receipt[k].id
<1>4. n \in Nat
  BY <1>3 DEF Receipt
<1>5. EntryOf(k, r) = [index |-> k[1], sha |-> k[2], path |-> r.path,
        storage |-> IF r.status = "local" THEN "local" ELSE "retained",
        version |-> r.version, receipt |-> n]
  BY DEF EntryOf
<1> HIDE DEF n
<1>6. EntryOf(k, r) \in Entry
  BY <1>2, <1>4, <1>5 DEF Entry, Registration, RegKey
<1> QED BY <1>2, <1>6

\* The snapshot and the draft index.
LEMMA DraftTyped ==
  ASSUME TypeInv, NEW p \in Procs,
         TakeSnapshot(p) \/ AddArtifact(p) \/ CollectInventory(p)
  PROVE  TypeInv'
<1>1. job[p] \in Job /\ JobSet(job[p])
  BY DEF TypeInv, TypeOK
<1>2. CASE TakeSnapshot(p)
  <2>1. CASE Exit(p)
    BY <1>2, <2>1, ExitTyped, OnlyJobTyped DEF TakeSnapshot
  <2> DEFINE keys == {k \in RegKey : reg[k] # None}
             j == [job[p] EXCEPT !.pc = "add", !.snap = reg, !.left = keys]
  <2>2. CASE job' = [job EXCEPT ![p].pc = "add", ![p].snap = reg, ![p].left = keys]
    <3>1. reg \in Snapshot /\ keys \subseteq RegKey /\ \A k \in keys : reg[k] # None
      BY DEF TypeInv, TypeOK
    <3>2. job' = [job EXCEPT ![p] = j]
      BY <2>2 DEF TypeInv, TypeOK
    <3> HIDE DEF keys
    <3>3. j \in Job
      BY <1>1, <3>1 DEF Job, Phases
    <3>4. JobSet(j)
      BY <1>1, <1>2, <3>1 DEF TakeSnapshot, Job, JobSet, HoldsFile, HoldsSnapshot
    <3> HIDE DEF j
    <3> QED BY <1>2, <3>2, <3>3, <3>4, JobUpdate, OnlyJobTyped DEF TakeSnapshot, TypeInv, TypeOK
  <2> QED BY <1>2, <2>1, <2>2 DEF TakeSnapshot
<1>3. CASE AddArtifact(p)
  <2>1. CASE Exit(p)
    BY <1>3, <2>1, ExitTyped, OnlyJobTyped DEF AddArtifact
  <2>2. CASE ~Exit(p)
    <3>1. PICK k \in RegKey :
            /\ IsFirst(p, k)
            /\ Addable(p, k, job[p].snap[k])
            /\ job' = [job EXCEPT ![p].left = @ \ {k},
                         ![p].entries = @ \cup {EntryOf(k, job[p].snap[k])}]
      BY <1>3, <2>2 DEF AddArtifact
    <3> DEFINE e == EntryOf(k, job[p].snap[k])
               j == [job[p] EXCEPT !.left = @ \ {k}, !.entries = @ \cup {e}]
    <3>2. e \in Entry
      BY <1>3, <3>1, EntryTyped DEF AddArtifact, IsFirst
    <3>3. job' = [job EXCEPT ![p] = j]
      BY <3>1 DEF TypeInv, TypeOK
    <3> HIDE DEF e
    <3>4. j \in Job
      BY <1>1, <3>2 DEF Job
    <3>5. JobSet(j)
      BY <1>1, <1>3 DEF AddArtifact, Job, JobSet, HoldsFile, HoldsSnapshot
    <3> HIDE DEF j
    <3> QED BY <1>3, <3>3, <3>4, <3>5, JobUpdate, OnlyJobTyped DEF AddArtifact, TypeInv, TypeOK
  <2> QED BY <2>1, <2>2
<1>4. CASE CollectInventory(p)
  <2>1. CASE Exit(p)
    BY <1>4, <2>1, ExitTyped, OnlyJobTyped DEF CollectInventory
  <2>2. CASE job' = [job EXCEPT ![p].pc = "inventory"]
    <3>1. job' \in [Procs -> Job] /\ \A q \in Procs : JobSet(job'[q])
      BY <1>4, <2>2, GotoTyped DEF CollectInventory, Phases, HoldsFile, HoldsSnapshot
    <3> QED BY <1>4, <3>1, OnlyJobTyped DEF CollectInventory
  <2> QED BY <1>4, <2>1, <2>2 DEF CollectInventory
<1> QED BY <1>2, <1>3, <1>4

\* Publication and deletion.
LEMMA PublishTyped ==
  ASSUME TypeInv, NEW p \in Procs,
         PublishInventory(p) \/ PublishIndex(p) \/ DeleteSource(p)
  PROVE  TypeInv'
<1>1. job[p] \in Job /\ JobSet(job[p])
  BY DEF TypeInv, TypeOK
<1>2. CASE PublishInventory(p)
  <2>1. job' \in [Procs -> Job] /\ \A q \in Procs : JobSet(job'[q])
    BY <1>2, GotoTyped DEF PublishInventory, Phases, HoldsFile, HoldsSnapshot
  <2>2. inventory' \in SUBSET RegKey
    BY <1>2 DEF PublishInventory, Confirmed
  <2> QED BY <1>2, <2>1, <2>2 DEF PublishInventory, TypeInv, TypeOK
<1>3. CASE PublishIndex(p)
  <2>1. job[p].run \in Runs /\ job[p].entries \subseteq Entry
    BY <1>1, <1>3 DEF PublishIndex, JobSet, Job
  <2>2. index' \in EvidenceIndex
    BY <1>3, <2>1 DEF PublishIndex, EvidenceIndex
  <2>3. job' \in [Procs -> Job] /\ \A q \in Procs : JobSet(job'[q])
    <3>1. CASE Exit(p)
      BY <3>1, ExitTyped
    <3> DEFINE c == Confirmed(job[p].snap)
               j == [job[p] EXCEPT !.pc = "delete", !.left = c]
    <3>2. CASE job' = [job EXCEPT ![p].pc = "delete", ![p].left = c]
      <4>1. c \subseteq RegKey /\ \A k \in c : job[p].snap[k] # None
        BY DEF Confirmed
      <4>2. job' = [job EXCEPT ![p] = j]
        BY <3>2 DEF TypeInv, TypeOK
      <4> HIDE DEF c
      <4>3. j \in Job
        BY <1>1, <4>1 DEF Job, Phases
      <4>4. JobSet(j)
        BY <1>1, <1>3, <4>1 DEF PublishIndex, Job, JobSet, HoldsFile, HoldsSnapshot
      <4> HIDE DEF j
      <4> QED BY <4>2, <4>3, <4>4, JobUpdate DEF TypeInv, TypeOK
    <3> QED BY <1>3, <3>1, <3>2 DEF PublishIndex
  <2> QED BY <1>3, <2>2, <2>3 DEF PublishIndex, TypeInv, TypeOK
<1>4. CASE DeleteSource(p)
  <2>1. CASE Exit(p) /\ UNCHANGED file
    BY <1>4, <2>1, ExitTyped, OnlyJobTyped DEF DeleteSource
  <2>2. CASE ~(Exit(p) /\ UNCHANGED file)
    <3>1. PICK k \in RegKey :
            /\ file' = [file EXCEPT ![job[p].snap[k].path] = "gone"]
            /\ job' = [job EXCEPT ![p].left = @ \ {k}]
      BY <1>4, <2>2 DEF DeleteSource
    <3> DEFINE j == [job[p] EXCEPT !.left = @ \ {k}]
    <3>2. job' = [job EXCEPT ![p] = j]
      BY <3>1 DEF TypeInv, TypeOK
    <3>3. j \in Job
      BY <1>1 DEF Job
    <3>4. JobSet(j)
      BY <1>1, <1>4 DEF DeleteSource, Job, JobSet, HoldsFile, HoldsSnapshot
    <3> HIDE DEF j
    <3>5. job' \in [Procs -> Job] /\ \A q \in Procs : JobSet(job'[q])
      BY <3>2, <3>3, <3>4, JobUpdate DEF TypeInv, TypeOK
    <3>6. file' \in [Files -> Contents \cup {"absent", "open", "gone"}]
      BY <3>1 DEF TypeInv, TypeOK
    <3> QED BY <1>4, <3>5, <3>6 DEF DeleteSource, TypeInv, TypeOK
  <2> QED BY <2>1, <2>2
<1> QED BY <1>2, <1>3, <1>4

\* Every step keeps TypeInv.
LEMMA NextTyped == TypeInv /\ [Next]_vars => TypeInv'
<1> SUFFICES ASSUME TypeInv, [Next]_vars PROVE TypeInv'
  OBVIOUS
<1>1. ASSUME NEW p \in Procs, Start(p) \/ Step(p) \/ Crash(p) PROVE TypeInv'
  <2>1. CASE Crash(p)
    BY <2>1, ExitTyped, OnlyJobTyped DEF Crash
  <2>2. CASE Step(p)
    BY <2>2, ScanTyped, UploadTyped, ReceiptTyped, DraftTyped, PublishTyped DEF Step
  <2> QED BY <1>1, <2>1, <2>2, StartTyped
<1>2. ASSUME NEW f \in Segments, Record(f) PROVE TypeInv'
  BY <1>2 DEF Record, TypeInv, TypeOK, Files
<1>3. ASSUME NEW f \in Files, Rewrite(f) PROVE TypeInv'
  BY <1>3 DEF Rewrite, TypeInv, TypeOK
<1>4. CASE UNCHANGED vars
  BY <1>4 DEF vars, TypeInv, TypeOK
<1> QED BY <1>1, <1>2, <1>3, <1>4, VerifyTyped DEF Next

\* Every document the sink reads or publishes has its type, in every reachable
\* state and for all constants.
THEOREM TypeCorrect == Spec => []TypeOK
<1>1. Spec => []TypeInv
  BY InitTyped, NextTyped, PTL DEF Spec
<1>2. TypeInv => TypeOK
  BY DEF TypeInv
<1> QED BY <1>1, <1>2, PTL
-----------------------------------------------------------------------------
(* The published index.  RetainedVerified is not inductive: what an index   *)
(* claims was claimed before by the entries finalize collected, these by   *)
(* the receipts on disk, these by the receipts that processes staged, and  *)
(* these by the verification documents, each of which was checked against  *)
(* the object store when it was made.  The store never takes a version     *)
(* back, so each claim stays true along the chain.  The other properties   *)
(* follow a draft from the spool's listing to its publication.             *)

HoldsReceipt == {"bind", "bound", "receipt"}

\* What a process has staged or collected is true of the object store.
JobSound(j) ==
  /\ j.pc \in HoldsReceipt => /\ j.staged \in Receipt
                              /\ Retained(j.staged.artifact)
  /\ j.pc # "idle" =>
       \A e \in j.entries :
         e.storage = "retained" => Retained(EntryDescriptor(j.run, e))

VerifiedSound == \A d \in verified : Retained(d)

ReceiptSound ==
  \A k \in RegKey : receipt[k] # None => Retained(receipt[k].artifact)

SoundInv ==
  /\ VerifiedSound
  /\ ReceiptSound
  /\ RetainedVerified
  /\ \A p \in Procs : JobSound(job[p])

\* The object store keeps every version it has.
Grows ==
  \A k \in ObjKey :
    /\ Len(remote[k]) <= Len(remote'[k])
    /\ \A v \in 1..Len(remote[k]) : remote'[k][v] = remote[k][v]

-----------------------------------------------------------------------------
\* An upload appends one version.
LEMMA AppendGrows ==
  ASSUME TypeInv, NEW k \in ObjKey, NEW c \in Contents,
         remote' = [remote EXCEPT ![k] = Append(@, c)]
  PROVE  Grows
<1> SUFFICES ASSUME NEW l \in ObjKey
             PROVE  /\ Len(remote[l]) <= Len(remote'[l])
                    /\ \A v \in 1..Len(remote[l]) : remote'[l][v] = remote[l][v]
  BY DEF Grows
<1>1. remote[l] \in Seq(Contents) /\ remote \in [ObjKey -> Seq(Contents)]
  BY DEF TypeInv, TypeOK
<1>2. CASE l = k
  <2>1. remote'[l] = Append(remote[l], c)
    BY <1>1, <1>2
  <2> QED BY <1>1, <2>1
<1>3. CASE l # k
  <2>1. remote'[l] = remote[l]
    BY <1>1, <1>3
  <2> QED BY <1>1, <2>1
<1> QED BY <1>2, <1>3

\* Without an upload nothing changes.
LEMMA SameGrows == TypeInv /\ UNCHANGED remote => Grows
  BY DEF TypeInv, TypeOK, Grows

\* What the object store holds it holds for good.
LEMMA RetainedStable ==
  ASSUME TypeInv, TypeInv', Grows, NEW d \in Descriptor, Retained(d)
  PROVE  Retained(d)'
<1> DEFINE k == <<d.run, d.index, d.sha, d.path>>
<1>1. k \in ObjKey /\ d.version \in Nat
  BY DEF Descriptor, ObjKey
<1>2. d.version \in 1..Len(remote[k]) /\ remote[k][d.version] = d.sha
  BY DEF Retained
<1>3. Len(remote[k]) <= Len(remote'[k]) /\ remote'[k][d.version] = remote[k][d.version]
  BY <1>1, <1>2 DEF Grows
<1>4. Len(remote[k]) \in Nat /\ Len(remote'[k]) \in Nat
  BY <1>1 DEF TypeInv, TypeOK
<1> QED BY <1>1, <1>2, <1>3, <1>4 DEF Retained

\* Every entry of a well-typed draft or index names a descriptor.
LEMMA EntryDescriptorTyped ==
  ASSUME NEW r \in Runs, NEW e \in Entry
  PROVE  EntryDescriptor(r, e) \in Descriptor
  BY DEF EntryDescriptor, Entry, Descriptor

\* A step keeps SoundInv when it leaves the published documents alone and
\* changes the variables of one process to sound ones.
LEMMA JobStepSound ==
  ASSUME TypeInv, TypeInv', SoundInv, Grows, NEW p \in Procs,
         UNCHANGED <<verified, receipt, index>>,
         \A q \in Procs \ {p} : job'[q] = job[q],
         JobSound(job'[p])
  PROVE  SoundInv'
<1>1. VerifiedSound'
  BY RetainedStable DEF SoundInv, VerifiedSound, TypeInv, TypeOK
<1>2. ReceiptSound'
  <2> SUFFICES ASSUME NEW k \in RegKey, receipt[k] # None
               PROVE  Retained(receipt[k].artifact)'
    BY DEF ReceiptSound
  <2>1. receipt[k] \in Receipt
    BY DEF TypeInv, TypeOK
  <2>2. receipt[k].artifact \in Descriptor /\ Retained(receipt[k].artifact)
    BY <2>1 DEF Receipt, SoundInv, ReceiptSound
  <2>3. \A d \in Descriptor : Retained(d) => Retained(d)'
    BY RetainedStable
  <2>4. receipt'[k].artifact = receipt[k].artifact
    OBVIOUS
  <2> QED BY <2>2, <2>3, <2>4 DEF Retained
<1>3. RetainedVerified'
  <2> SUFFICES ASSUME index # None, NEW e \in index.artifacts, e.storage = "retained"
               PROVE  Retained(EntryDescriptor(index.run, e))'
    BY DEF RetainedVerified
  <2>1. index.run \in Runs /\ e \in Entry
    BY DEF TypeInv, TypeOK, EvidenceIndex
  <2> DEFINE d == EntryDescriptor(index.run, e)
  <2>2. d \in Descriptor /\ Retained(d)
    BY <2>1, EntryDescriptorTyped DEF SoundInv, RetainedVerified
  <2>3. Retained(d)'
    BY <2>2, RetainedStable DEF EntryDescriptor, Retained
  <2> QED BY <2>3
<1>4. ASSUME NEW q \in Procs PROVE JobSound(job[q])'
  <2>0. PICK j \in Job : j = job'[q]
    BY DEF TypeInv, TypeOK
  <2>1. JobSet(j) /\ JobSound(j)
    BY <2>0 DEF SoundInv, TypeInv
  <2>2. \A d \in Descriptor : Retained(d) => Retained(d)'
    BY RetainedStable
  <2>3. j.pc \in HoldsReceipt => j.staged \in Receipt /\ Retained(j.staged.artifact)'
    BY <2>1, <2>2 DEF JobSound, Receipt
  <2>4. ASSUME j.pc # "idle", NEW e \in j.entries, e.storage = "retained"
        PROVE  Retained(EntryDescriptor(j.run, e))'
    <3>1. j.run \in Runs /\ e \in Entry
      BY <2>1, <2>4 DEF JobSet, Job
    <3>2. EntryDescriptor(j.run, e) \in Descriptor /\ Retained(EntryDescriptor(j.run, e))
      BY <2>1, <2>4, <3>1, EntryDescriptorTyped DEF JobSound
    <3> QED BY <2>2, <3>2
  <2> QED BY <2>0, <2>3, <2>4 DEF JobSound
<1> QED BY <1>1, <1>2, <1>3, <1>4 DEF SoundInv

\* Process p goes on without touching what it has staged or collected.
KeepsClaims(p) ==
  /\ \A q \in Procs \ {p} : job'[q] = job[q]
  /\ job[p].pc # "idle"
  /\ job'[p].run = job[p].run
  /\ job'[p].staged = job[p].staged
  /\ job'[p].entries = job[p].entries
  /\ job'[p].pc \in HoldsReceipt => job[p].pc \in HoldsReceipt

\* A step that keeps the claims of its process keeps SoundInv.
LEMMA KeepsSound ==
  ASSUME TypeInv, TypeInv', SoundInv, Grows, NEW p \in Procs, KeepsClaims(p),
         UNCHANGED <<verified, receipt, index>>
  PROVE  SoundInv'
<1>1. JobSound(job[p])
  BY DEF SoundInv
<1>2. JobSound(job'[p])
  BY <1>1 DEF KeepsClaims, JobSound
<1> QED BY <1>2, JobStepSound DEF KeepsClaims

\* So does one that ends it.
LEMMA ExitSound ==
  ASSUME TypeInv, TypeInv', SoundInv, Grows, NEW p \in Procs, Exit(p),
         UNCHANGED <<verified, receipt, index>>
  PROVE  SoundInv'
<1>1. job'[p] = Idle /\ \A q \in Procs \ {p} : job'[q] = job[q]
  BY DEF Exit, TypeInv, TypeOK
<1>2. JobSound(job'[p])
  BY <1>1 DEF JobSound, Idle, HoldsReceipt
<1> QED BY <1>1, <1>2, JobStepSound

\* The scan, the upload, the registration, the binding and, of finalize, what
\* neither collects nor publishes entries.
LEMMA QuietStepKeeps ==
  ASSUME TypeInv, NEW p \in Procs,
         \/ HashSegment(p) \/ SkipUnclosed(p) \/ RejectSegment(p) \/ ScanDone(p)
         \/ MatchRegistration(p)
         \/ RcloneCompare(p) \/ RclonePut(p) \/ RcloneCheck(p) \/ HeadObject(p)
         \/ CheckRegistration(p) \/ PublishRegistration(p)
         \/ BindReceipt(p) \/ PublishBinding(p)
         \/ TakeSnapshot(p) \/ CollectInventory(p)
         \/ PublishInventory(p) \/ DeleteSource(p)
  PROVE  Exit(p) \/ KeepsClaims(p)
<1>1. job \in [Procs -> Job] /\ job[p] \in Job
  BY DEF TypeInv, TypeOK
<1> USE <1>1 DEF KeepsClaims, HoldsReceipt, Job
<1>2. CASE HashSegment(p) \/ SkipUnclosed(p) \/ RejectSegment(p) \/ ScanDone(p)
  <2>1. CASE HashSegment(p)
    <3>1. PICK f \in Segments, i \in Indexes :
            job' = [job EXCEPT ![p].pc = "match", ![p].todo = @ \ {f},
                               ![p].path = f, ![p].index = i, ![p].sha = file[f]]
      BY <2>1, ConstantsAssumption DEF HashSegment, Files
    <3>2. job[p].pc = "scan"
      BY <2>1 DEF HashSegment
    <3> QED BY <3>1, <3>2
  <2>2. CASE SkipUnclosed(p) \/ RejectSegment(p)
    BY <2>2 DEF SkipUnclosed, RejectSegment
  <2>3. CASE ScanDone(p)
    BY <2>3 DEF ScanDone
  <2> QED BY <1>2, <2>1, <2>2, <2>3
<1>3. CASE MatchRegistration(p) \/ CheckRegistration(p) \/ PublishRegistration(p)
  <2>1. CASE Registered(p)
    BY <1>3, <2>1 DEF Registered, MatchRegistration, CheckRegistration,
                      PublishRegistration
  <2>2. CASE \E c \in {"write", "copy", "publish"} : job' = [job EXCEPT ![p].pc = c]
    BY <1>3, <2>2 DEF MatchRegistration, CheckRegistration, PublishRegistration
  <2>3. Exit(p) \/ Registered(p)
          \/ \E c \in {"write", "copy", "publish"} : job' = [job EXCEPT ![p].pc = c]
    BY <1>3 DEF MatchRegistration, CheckRegistration, PublishRegistration
  <2> QED BY <2>1, <2>2, <2>3
<1>4. CASE RcloneCompare(p) \/ RclonePut(p) \/ RcloneCheck(p) \/ HeadObject(p)
  BY <1>4 DEF RcloneCompare, RclonePut, RcloneCheck, HeadObject
<1>5. CASE BindReceipt(p) \/ PublishBinding(p)
  BY <1>5 DEF BindReceipt, PublishBinding
<1>6. CASE TakeSnapshot(p) \/ CollectInventory(p)
  BY <1>6 DEF TakeSnapshot, CollectInventory
<1>7. CASE PublishInventory(p) \/ DeleteSource(p)
  BY <1>7 DEF PublishInventory, DeleteSource
<1> QED BY <1>2, <1>3, <1>4, <1>5, <1>6, <1>7

\* The object store keeps its versions whatever a process does.
LEMMA StepGrows ==
  ASSUME TypeInv, NEW p \in Procs, Step(p)
  PROVE  Grows
<1>1. CASE RclonePut(p)
  <2>1. job[p] \in Job /\ JobSet(job[p])
    BY DEF TypeInv, TypeOK
  <2>2. JobObject(p) \in ObjKey
    BY <1>1, <2>1 DEF RclonePut, JobObject, ObjKey, JobSet, HoldsFile
  <2> QED BY <1>1, <2>2, AppendGrows, SameGrows DEF RclonePut
<1>2. CASE ~RclonePut(p)
  <2>1. UNCHANGED remote
    BY <1>2 DEF Step, HashSegment, SkipUnclosed, RejectSegment, ScanDone,
       MatchRegistration, RcloneCompare, RcloneCheck, HeadObject,
       CheckRegistration, PublishRegistration, BindReceipt, PublishBinding,
       PublishReceipt, TakeSnapshot, AddArtifact, CollectInventory,
       PublishInventory, PublishIndex, DeleteSource
  <2> QED BY <2>1, SameGrows
<1> QED BY <1>1, <1>2

\* A step of a running command keeps SoundInv.
LEMMA StepSound ==
  ASSUME TypeInv, TypeInv', SoundInv, NEW p \in Procs, Step(p)
  PROVE  SoundInv'
<1>1. Grows
  BY StepGrows
<1>2. job \in [Procs -> Job] /\ job[p] \in Job /\ JobSet(job[p]) /\ JobSound(job[p])
  BY DEF TypeInv, TypeOK, SoundInv
<1>3. CASE AddArtifact(p)
  <2>1. CASE Exit(p)
    BY <1>1, <1>3, <2>1, ExitSound DEF AddArtifact
  <2>2. CASE ~Exit(p)
    <3>1. PICK k \in RegKey :
            /\ IsFirst(p, k)
            /\ Addable(p, k, job[p].snap[k])
            /\ job' = [job EXCEPT ![p].left = @ \ {k},
                         ![p].entries = @ \cup {EntryOf(k, job[p].snap[k])}]
      BY <1>3, <2>2 DEF AddArtifact
    <3> DEFINE r == job[p].snap[k]
               e == EntryOf(k, r)
    <3>2. r \in Registration
      BY <1>3, <3>1, EntryTyped DEF AddArtifact, IsFirst
    <3>3. ASSUME e.storage = "retained" PROVE Retained(EntryDescriptor(job[p].run, e))
      <4>1. r.status = "confirmed"
        BY <3>2, <3>3 DEF EntryOf, Registration
      <4>2. /\ receipt[k] # None /\ receipt[k].artifact = DescriptorOf(k, r)
            /\ r.run = job[p].run
        BY <3>1, <4>1 DEF Addable
      <4>3. Retained(DescriptorOf(k, r))
        BY <4>2 DEF SoundInv, ReceiptSound
      <4>4. EntryDescriptor(job[p].run, e) = DescriptorOf(k, r)
        BY <4>2 DEF EntryDescriptor, EntryOf, DescriptorOf
      <4> QED BY <4>3, <4>4
    <3>4. /\ job'[p].pc = "add" /\ job'[p].run = job[p].run
          /\ job'[p].entries = job[p].entries \cup {e}
          /\ \A q \in Procs \ {p} : job'[q] = job[q]
      BY <1>2, <1>3, <3>1 DEF AddArtifact, Job
    <3>5. job[p].pc = "add"
      BY <1>3 DEF AddArtifact
    <3> HIDE DEF e
    <3>6. JobSound(job'[p])
      BY <1>2, <3>3, <3>4, <3>5 DEF JobSound, HoldsReceipt
    <3> QED BY <1>1, <1>3, <3>4, <3>6, JobStepSound DEF AddArtifact
  <2> QED BY <2>1, <2>2
<1>4. CASE PublishReceipt(p)
  <2>1. job[p].staged \in Receipt /\ Retained(job[p].staged.artifact)
    BY <1>2, <1>4 DEF PublishReceipt, JobSound, HoldsReceipt
  <2>2. JobKey(p) \in RegKey
    BY <1>2, <1>4 DEF PublishReceipt, JobKey, RegKey, JobSet, HoldsFile
  <2>3. UNCHANGED <<remote, verified, index>>
    BY <1>4 DEF PublishReceipt
  <2>4. ReceiptSound'
    BY <1>4, <2>1, <2>2, <2>3 DEF PublishReceipt, SoundInv, ReceiptSound, Retained,
                                  TypeInv, TypeOK
  <2>5. VerifiedSound' /\ RetainedVerified'
    BY <2>3 DEF SoundInv, VerifiedSound, RetainedVerified, Retained, EntryDescriptor
  <2>6. job'[p] = Idle /\ \A q \in Procs \ {p} : job'[q] = job[q]
    BY <1>2, <1>4 DEF PublishReceipt, Exit
  <2>7. \A q \in Procs : JobSound(job'[q])
    BY <2>6 DEF SoundInv, JobSound, Idle, HoldsReceipt
  <2>8. \A q \in Procs : JobSound(job[q])'
    BY <2>3, <2>7, ZenonT(60) DEF JobSound, Retained, EntryDescriptor
  <2> QED BY <2>4, <2>5, <2>8 DEF SoundInv
<1>5. CASE PublishIndex(p)
  <2>1. index' = [run |-> job[p].run, artifacts |-> job[p].entries]
    BY <1>5 DEF PublishIndex
  <2>2. \A e \in job[p].entries :
          e.storage = "retained" => Retained(EntryDescriptor(job[p].run, e))
    BY <1>2, <1>5 DEF PublishIndex, JobSound
  <2>3. UNCHANGED <<remote, verified, receipt>>
    BY <1>5 DEF PublishIndex
  <2>4. RetainedVerified'
    BY <2>1, <2>2, <2>3 DEF RetainedVerified, Retained, EntryDescriptor
  <2>5. VerifiedSound' /\ ReceiptSound'
    BY <2>3 DEF SoundInv, VerifiedSound, ReceiptSound, Retained
  <2>6. \A q \in Procs : JobSound(job'[q])
    <3>1. CASE Exit(p)
      <4>1. job'[p] = Idle /\ \A q \in Procs \ {p} : job'[q] = job[q]
        BY <1>2, <3>1 DEF Exit
      <4> QED BY <4>1 DEF SoundInv, JobSound, Idle, HoldsReceipt
    <3>2. CASE ~Exit(p)
      <4>1. /\ job'[p].pc = "delete" /\ job'[p].run = job[p].run
            /\ job'[p].entries = job[p].entries
            /\ \A q \in Procs \ {p} : job'[q] = job[q]
        BY <1>2, <1>5, <3>2 DEF PublishIndex, Job
      <4>2. JobSound(job'[p])
        BY <2>2, <4>1 DEF JobSound, HoldsReceipt
      <4> QED BY <4>1, <4>2 DEF SoundInv
    <3> QED BY <3>1, <3>2
  <2>7. \A q \in Procs : JobSound(job[q])'
    BY <2>3, <2>6, ZenonT(60) DEF JobSound, Retained, EntryDescriptor
  <2> QED BY <2>4, <2>5, <2>7 DEF SoundInv
<1>6. CASE ~(AddArtifact(p) \/ PublishReceipt(p) \/ PublishIndex(p))
  <2>1. Exit(p) \/ KeepsClaims(p)
    BY <1>6, QuietStepKeeps DEF Step
  <2>2. UNCHANGED <<verified, receipt, index>>
    BY <1>6 DEF Step, HashSegment, SkipUnclosed, RejectSegment, ScanDone,
       MatchRegistration, RcloneCompare, RclonePut, RcloneCheck, HeadObject,
       CheckRegistration, PublishRegistration, BindReceipt, PublishBinding,
       TakeSnapshot, CollectInventory, PublishInventory, DeleteSource
  <2> QED BY <1>1, <2>1, <2>2, ExitSound, KeepsSound
<1> QED BY <1>3, <1>4, <1>5, <1>6

\* Starting a command keeps SoundInv: a receipt is staged only from a
\* verification document.
LEMMA StartSound ==
  ASSUME TypeInv, TypeInv', SoundInv, NEW p \in Procs, Start(p)
  PROVE  SoundInv'
<1>1. Grows /\ UNCHANGED <<remote, verified, receipt, index>>
  BY SameGrows DEF Start
<1>2. job \in [Procs -> Job]
  BY DEF TypeInv, TypeOK
<1>3. /\ \A q \in Procs \ {p} : job'[q] = job[q]
      /\ job'[p].entries = {}
      /\ \/ job'[p].pc \notin HoldsReceipt
         \/ \E d \in verified : job'[p].staged = [artifact |-> d, id |-> receipts + 1]
  <2>1. PICK m \in Modes, r \in Runs :
          \/ StartWatch(p, m, r) \/ StartSegment(p, m, r)
          \/ StartArtifact(p, m, r) \/ StartReceipt(p, m, r)
          \/ StartFinalize(p, m, r)
    BY DEF Start
  <2>2. CASE StartWatch(p, m, r)
    BY <1>2, <2>2 DEF StartWatch, Idle, HoldsReceipt
  <2>3. CASE StartSegment(p, m, r)
    BY <1>2, <2>3 DEF StartSegment, Idle, HoldsReceipt
  <2>4. CASE StartArtifact(p, m, r)
    BY <1>2, <2>4 DEF StartArtifact, Idle, HoldsReceipt
  <2>5. CASE StartReceipt(p, m, r)
    BY <1>2, <2>5 DEF StartReceipt, Idle, HoldsReceipt
  <2>6. CASE StartFinalize(p, m, r)
    BY <1>2, <2>6 DEF StartFinalize, Idle, HoldsReceipt
  <2> QED BY <2>1, <2>2, <2>3, <2>4, <2>5, <2>6
<1>4. JobSound(job'[p])
  <2>1. ASSUME NEW d \in verified, job'[p].staged = [artifact |-> d, id |-> receipts + 1]
        PROVE  job'[p].staged \in Receipt /\ Retained(job'[p].staged.artifact)
    <3>1. d \in Descriptor /\ receipts + 1 \in Nat /\ Retained(d)
      BY DEF TypeInv, TypeOK, SoundInv, VerifiedSound
    <3> QED BY <2>1, <3>1 DEF Receipt
  <2> QED BY <1>3, <2>1 DEF JobSound
<1> QED BY <1>1, <1>3, <1>4, JobStepSound

\* The verification document records what was just downloaded.
LEMMA VerifySound ==
  ASSUME TypeInv, SoundInv, NEW k \in RegKey, VerifyRetained(k)
  PROVE  SoundInv'
<1>1. UNCHANGED <<remote, receipt, index, job>>
  BY DEF VerifyRetained
<1>2. VerifiedSound'
  BY <1>1 DEF VerifyRetained, SoundInv, VerifiedSound, Retained
<1>3. ReceiptSound' /\ RetainedVerified'
  BY <1>1 DEF SoundInv, ReceiptSound, RetainedVerified, Retained, EntryDescriptor
<1>4. ASSUME NEW p \in Procs PROVE JobSound(job[p])'
  <2>1. JobSound(job[p])
    BY DEF SoundInv
  <2> QED BY <1>1, <2>1 DEF JobSound, Retained, EntryDescriptor
<1> QED BY <1>2, <1>3, <1>4 DEF SoundInv

\* No document exists at the start.
LEMMA InitSound == Init => SoundInv
  BY DEF Init, SoundInv, VerifiedSound, ReceiptSound, RetainedVerified,
         JobSound, Idle, HoldsReceipt

\* Every step keeps SoundInv.
LEMMA NextSound == TypeInv /\ TypeInv' /\ SoundInv /\ [Next]_vars => SoundInv'
<1> SUFFICES ASSUME TypeInv, TypeInv', SoundInv, [Next]_vars PROVE SoundInv'
  OBVIOUS
<1>1. ASSUME NEW p \in Procs, Start(p) \/ Step(p) \/ Crash(p) PROVE SoundInv'
  <2>1. CASE Crash(p)
    BY <2>1, SameGrows, ExitSound DEF Crash
  <2> QED BY <1>1, <2>1, StartSound, StepSound
<1>2. CASE \/ \E f \in Segments : Record(f)
           \/ \E f \in Files : Rewrite(f)
           \/ UNCHANGED vars
  <2>1. UNCHANGED <<remote, verified, receipt, index, job>>
    BY <1>2 DEF Record, Rewrite, vars
  <2>2. VerifiedSound' /\ ReceiptSound' /\ RetainedVerified'
    BY <2>1 DEF SoundInv, VerifiedSound, ReceiptSound, RetainedVerified, Retained,
                EntryDescriptor
  <2>3. ASSUME NEW p \in Procs PROVE JobSound(job[p])'
    <3>1. JobSound(job[p])
      BY DEF SoundInv
    <3> QED BY <2>1, <3>1 DEF JobSound, Retained, EntryDescriptor
  <2> QED BY <2>2, <2>3 DEF SoundInv
<1> QED BY <1>1, <1>2, VerifySound DEF Next

\* In every reachable state, each artifact that evidence-index.json calls
\* retained has, in the object version it names, the bytes of its digest.
THEOREM IndexTrue == Spec => []RetainedVerified
<1>1. Spec => []TypeInv
  BY InitTyped, NextTyped, PTL DEF Spec
<1>2. Spec => []SoundInv
  BY <1>1, InitSound, NextSound, PTL DEF Spec
<1>3. SoundInv => RetainedVerified
  BY DEF SoundInv
<1> QED BY <1>2, <1>3, PTL

-----------------------------------------------------------------------------
(* What a finalization drafts from its snapshot.                           *)

\* The draft of process j has an artifact for registration k of its snapshot.
Named(j, k) ==
  \E e \in j.entries :
    /\ e.index = k[1]
    /\ e.path = j.snap[k].path
    /\ j.snap[k].status = "confirmed" => e.storage = "retained"

OncePerIndex(entries) ==
  \A e1, e2 \in entries : e1.index = e2.index => e1 = e2

\* By phase: the snapshot has no index twice, the draft has none twice and names
\* every registration that is not left to be added; what is to be deleted is a
\* part of the snapshot's uploads.
Drafted(j) ==
  /\ j.pc \notin HoldsSnapshot => j.entries = {}
  /\ j.pc \in HoldsSnapshot =>
       /\ \A k, l \in RegKey :
            j.snap[k] # None /\ j.snap[l] # None /\ k[1] = l[1] => k = l
       /\ OncePerIndex(j.entries)
       /\ \A k \in RegKey :
            j.snap[k] # None => Named(j, k) \/ (j.pc = "add" /\ k \in j.left)
  /\ j.pc = "add" => \A e \in j.entries, k \in j.left : e.index # k[1]
  /\ j.pc = "delete" => j.left \subseteq Confirmed(j.snap)

DraftInv ==
  /\ \A p \in Procs : Drafted(job[p])
  /\ index # None => OncePerIndex(index.artifacts)

-----------------------------------------------------------------------------
\* A slot without a process has drafted nothing.
LEMMA IdleDrafted == Drafted(Idle)
  BY DEF Drafted, Idle, HoldsSnapshot

\* A command that ends leaves the other processes alone.
LEMMA ExitFrame ==
  ASSUME TypeInv, NEW p \in Procs, Exit(p)
  PROVE  job'[p] = Idle /\ \A q \in Procs \ {p} : job'[q] = job[q]
  BY DEF Exit, TypeInv, TypeOK

\* Before its snapshot a command drafts nothing.
LEMMA EarlyStep ==
  ASSUME TypeInv, NEW p \in Procs, ~Exit(p),
         \/ HashSegment(p) \/ SkipUnclosed(p) \/ RejectSegment(p) \/ ScanDone(p)
         \/ MatchRegistration(p)
         \/ RcloneCompare(p) \/ RclonePut(p) \/ RcloneCheck(p) \/ HeadObject(p)
         \/ CheckRegistration(p) \/ PublishRegistration(p)
         \/ BindReceipt(p) \/ PublishBinding(p) \/ PublishReceipt(p)
  PROVE  /\ job[p].pc \notin HoldsSnapshot /\ job'[p].pc \notin HoldsSnapshot
         /\ job'[p].entries = job[p].entries
         /\ job'[p].cmd = job[p].cmd
         /\ job'[p].pc = "snapshot" => job[p].cmd = "finalize"
         /\ \A q \in Procs \ {p} : job'[q] = job[q]
<1>1. job \in [Procs -> Job] /\ job[p] \in Job
  BY DEF TypeInv, TypeOK
<1>2. CASE HashSegment(p)
  <2>1. /\ job[p].pc = "scan"
        /\ \E f \in Segments, i \in Indexes :
             job' = [job EXCEPT ![p].pc = "match", ![p].todo = @ \ {f},
                               ![p].path = f, ![p].index = i, ![p].sha = file[f]]
    BY <1>2, ConstantsAssumption DEF HashSegment, Files
  <2> QED BY <1>1, <2>1 DEF Job, HoldsSnapshot
<1>3. CASE SkipUnclosed(p)
  <2>1. /\ job[p].pc = "scan"
        /\ \E f \in Segments : job' = [job EXCEPT ![p].todo = @ \ {f}]
    BY <1>3 DEF SkipUnclosed
  <2> QED BY <1>1, <2>1 DEF Job, HoldsSnapshot
<1>4. CASE RejectSegment(p)
  BY <1>4 DEF RejectSegment
<1>5. CASE ScanDone(p)
  BY <1>1, <1>5 DEF ScanDone, Job, HoldsSnapshot
<1>6. CASE MatchRegistration(p)
  BY <1>1, <1>6 DEF MatchRegistration, Registered, Job, HoldsSnapshot
<1>7. CASE RcloneCompare(p)
  BY <1>1, <1>7 DEF RcloneCompare, Job, HoldsSnapshot
<1>8. CASE RclonePut(p) \/ RcloneCheck(p) \/ HeadObject(p)
  BY <1>1, <1>8 DEF RclonePut, RcloneCheck, HeadObject, Job, HoldsSnapshot
<1>9. CASE CheckRegistration(p) \/ PublishRegistration(p)
  BY <1>1, <1>9 DEF CheckRegistration, PublishRegistration, Registered, Job, HoldsSnapshot
<1>10. CASE BindReceipt(p) \/ PublishBinding(p) \/ PublishReceipt(p)
  BY <1>1, <1>10 DEF BindReceipt, PublishBinding, PublishReceipt, Job, HoldsSnapshot
<1> QED BY <1>2, <1>3, <1>4, <1>5, <1>6, <1>7, <1>8, <1>9, <1>10

\* A step of one process keeps its draft in order.
LEMMA StepDrafted ==
  ASSUME TypeInv, DraftInv, NEW p \in Procs, Step(p), ~Exit(p)
  PROVE  Drafted(job'[p]) /\ \A q \in Procs \ {p} : job'[q] = job[q]
<1>1. job \in [Procs -> Job] /\ job[p] \in Job /\ JobSet(job[p]) /\ Drafted(job[p])
  BY DEF TypeInv, TypeOK, DraftInv
<1>2. CASE TakeSnapshot(p)
  <2> DEFINE keys == {k \in RegKey : reg[k] # None}
  <2>1. /\ \A k, l \in keys : k[1] = l[1] => k = l
        /\ job' = [job EXCEPT ![p].pc = "add", ![p].snap = reg, ![p].left = keys]
        /\ job[p].pc = "snapshot"
    BY <1>2 DEF TakeSnapshot
  <2>2. /\ job'[p].pc = "add" /\ job'[p].snap = reg /\ job'[p].left = keys
        /\ job'[p].entries = job[p].entries
        /\ \A q \in Procs \ {p} : job'[q] = job[q]
    BY <1>1, <2>1 DEF Job
  <2>3. job[p].entries = {}
    BY <1>1, <2>1 DEF Drafted, HoldsSnapshot
  <2>4. /\ \A k, l \in RegKey : reg[k] # None /\ reg[l] # None /\ k[1] = l[1] => k = l
        /\ \A k \in RegKey : reg[k] # None => k \in keys
    BY <2>1
  <2> HIDE DEF keys
  <2> QED BY <2>2, <2>3, <2>4 DEF Drafted, OncePerIndex
<1>3. CASE AddArtifact(p)
  <2>1. PICK k \in RegKey :
          /\ IsFirst(p, k)
          /\ job' = [job EXCEPT ![p].left = @ \ {k},
                       ![p].entries = @ \cup {EntryOf(k, job[p].snap[k])}]
    BY <1>3 DEF AddArtifact
  <2> DEFINE e == EntryOf(k, job[p].snap[k])
  <2>2. /\ job'[p].pc = "add" /\ job'[p].snap = job[p].snap
        /\ job'[p].left = job[p].left \ {k}
        /\ job'[p].entries = job[p].entries \cup {e}
        /\ \A q \in Procs \ {p} : job'[q] = job[q]
    BY <1>1, <1>3, <2>1 DEF AddArtifact, Job
  <2>3. job[p].pc = "add" /\ k \in job[p].left
    BY <1>3, <2>1 DEF AddArtifact, IsFirst
  <2>4. /\ e.index = k[1] /\ e.path = job[p].snap[k].path
        /\ job[p].snap[k].status = "confirmed" => e.storage = "retained"
    BY DEF EntryOf
  <2> HIDE DEF e
  <2>5. /\ \A x \in job[p].entries, l \in job[p].left : x.index # l[1]
        /\ OncePerIndex(job[p].entries)
        /\ \A l, m \in RegKey : job[p].snap[l] # None /\ job[p].snap[m] # None
                                /\ l[1] = m[1] => l = m
        /\ \A l \in RegKey :
             job[p].snap[l] # None => Named(job[p], l) \/ l \in job[p].left
    BY <1>1, <2>3 DEF Drafted, HoldsSnapshot
  <2>6. OncePerIndex(job'[p].entries)
    BY <2>2, <2>3, <2>4, <2>5 DEF OncePerIndex
  <2>7. ASSUME NEW x \in job'[p].entries, NEW l \in job'[p].left
        PROVE  x.index # l[1]
    <3>1. l \in job[p].left /\ l # k /\ l \in RegKey
      BY <1>1, <2>2 DEF Job
    <3>2. job[p].snap[l] # None /\ job[p].snap[k] # None
      BY <1>1, <2>3, <3>1 DEF JobSet, HoldsSnapshot
    <3>3. k[1] # l[1]
      BY <2>5, <3>1, <3>2
    <3> QED BY <2>2, <2>4, <2>5, <3>1, <3>3
  <2>8. ASSUME NEW l \in RegKey, job'[p].snap[l] # None
        PROVE  Named(job'[p], l) \/ l \in job'[p].left
    <3>1. CASE l = k
      BY <2>2, <2>4, <3>1 DEF Named
    <3>2. CASE l # k
      BY <2>2, <2>5, <2>8, <3>2 DEF Named
    <3> QED BY <3>1, <3>2
  <2>9. \A l, m \in RegKey : job'[p].snap[l] # None /\ job'[p].snap[m] # None
                             /\ l[1] = m[1] => l = m
    BY <2>2, <2>5
  <2>10. job'[p].pc = "add" /\ \A q \in Procs \ {p} : job'[q] = job[q]
    BY <2>2
  <2> QED BY <2>6, <2>7, <2>8, <2>9, <2>10 DEF Drafted, HoldsSnapshot
<1>4. CASE CollectInventory(p) \/ PublishInventory(p)
  <2>1. /\ job[p].pc \in {"add", "inventory"} /\ job'[p].pc \in {"inventory", "index"}
        /\ job[p].pc = "add" => job[p].left = {}
        /\ job'[p].snap = job[p].snap /\ job'[p].entries = job[p].entries
        /\ \A q \in Procs \ {p} : job'[q] = job[q]
    BY <1>1, <1>4 DEF CollectInventory, PublishInventory, Job
  <2> QED BY <1>1, <2>1 DEF Drafted, Named, HoldsSnapshot
<1>5. CASE PublishIndex(p)
  <2>1. /\ job[p].pc = "index" /\ job'[p].pc = "delete"
        /\ job'[p].left = Confirmed(job[p].snap)
        /\ job'[p].snap = job[p].snap /\ job'[p].entries = job[p].entries
        /\ \A q \in Procs \ {p} : job'[q] = job[q]
    BY <1>1, <1>5 DEF PublishIndex, Job
  <2> QED BY <1>1, <2>1 DEF Drafted, Named, HoldsSnapshot
<1>6. CASE DeleteSource(p)
  <2>1. /\ job[p].pc = "delete" /\ job'[p].pc = "delete"
        /\ job'[p].left \subseteq job[p].left
        /\ job'[p].snap = job[p].snap /\ job'[p].entries = job[p].entries
        /\ \A q \in Procs \ {p} : job'[q] = job[q]
    BY <1>1, <1>6 DEF DeleteSource, Job
  <2> QED BY <1>1, <2>1 DEF Drafted, Named, HoldsSnapshot
<1>7. CASE ~(TakeSnapshot(p) \/ AddArtifact(p) \/ CollectInventory(p)
             \/ PublishInventory(p) \/ PublishIndex(p) \/ DeleteSource(p))
  <2>1. /\ job[p].pc \notin HoldsSnapshot /\ job'[p].pc \notin HoldsSnapshot
        /\ job'[p].entries = job[p].entries
        /\ \A q \in Procs \ {p} : job'[q] = job[q]
    BY <1>7, EarlyStep DEF Step
  <2> QED BY <1>1, <2>1 DEF Drafted, HoldsSnapshot
<1> QED BY <1>2, <1>3, <1>4, <1>5, <1>6, <1>7

\* A command starts with nothing drafted.
LEMMA StartFrame ==
  ASSUME TypeInv, NEW p \in Procs, Start(p)
  PROVE  /\ \A q \in Procs \ {p} : job'[q] = job[q]
         /\ job'[p].pc \in {"scan", "write", "match", "bind"}
         /\ job'[p].entries = {} /\ ~job'[p].strict
         /\ job'[p].due \in {{}, Listing}
         /\ job'[p].cmd \in Allowed[p]
         /\ job'[p].pc # "scan" => job'[p].index \in IndexesOf[job'[p].path]
<1>1. PICK m \in Modes, r \in Runs :
        \/ "watch" \in Allowed[p] /\ StartWatch(p, m, r)
        \/ "segment" \in Allowed[p] /\ StartSegment(p, m, r)
        \/ "artifact" \in Allowed[p] /\ StartArtifact(p, m, r)
        \/ "receipt" \in Allowed[p] /\ StartReceipt(p, m, r)
        \/ "finalize" \in Allowed[p] /\ StartFinalize(p, m, r)
  BY DEF Start
<1>2. job \in [Procs -> Job]
  BY DEF TypeInv, TypeOK
<1>3. CASE "watch" \in Allowed[p] /\ StartWatch(p, m, r)
  BY <1>2, <1>3 DEF StartWatch, Idle
<1>4. CASE "segment" \in Allowed[p] /\ StartSegment(p, m, r)
  BY <1>2, <1>4 DEF StartSegment, Idle
<1>5. CASE "artifact" \in Allowed[p] /\ StartArtifact(p, m, r)
  BY <1>2, <1>5 DEF StartArtifact, Idle
<1>6. CASE "receipt" \in Allowed[p] /\ StartReceipt(p, m, r)
  BY <1>2, <1>6 DEF StartReceipt, Idle
<1>7. CASE "finalize" \in Allowed[p] /\ StartFinalize(p, m, r)
  BY <1>2, <1>7 DEF StartFinalize, Idle
<1> QED BY <1>1, <1>3, <1>4, <1>5, <1>6, <1>7

\* Only PublishIndex changes the index.
LEMMA IndexFrame ==
  ASSUME TypeInv, NEW p \in Procs, Start(p) \/ Step(p) \/ Crash(p), index' # index
  PROVE  PublishIndex(p)
  BY DEF Start, Crash, Step, HashSegment, SkipUnclosed, RejectSegment, ScanDone,
       MatchRegistration, RcloneCompare, RclonePut, RcloneCheck, HeadObject,
       CheckRegistration, PublishRegistration, BindReceipt, PublishBinding,
       PublishReceipt, TakeSnapshot, AddArtifact, CollectInventory,
       PublishInventory, DeleteSource

\* Every step keeps DraftInv.
LEMMA NextDrafted == TypeInv /\ DraftInv /\ [Next]_vars => DraftInv'
<1> SUFFICES ASSUME TypeInv, DraftInv, [Next]_vars PROVE DraftInv'
  OBVIOUS
<1>1. ASSUME NEW p \in Procs, Start(p) \/ Step(p) \/ Crash(p) PROVE DraftInv'
  <2>1. Drafted(job'[p]) /\ \A q \in Procs \ {p} : job'[q] = job[q]
    <3>1. CASE Start(p)
      BY <3>1, StartFrame DEF Drafted, HoldsSnapshot
    <3>2. CASE Exit(p)
      BY <3>2, ExitFrame, IdleDrafted
    <3> QED BY <1>1, <3>1, <3>2, StepDrafted DEF Crash
  <2>2. \A q \in Procs : Drafted(job'[q])
    BY <2>1 DEF DraftInv
  <2>3. CASE index' = index
    BY <2>2, <2>3 DEF DraftInv, Drafted, Named
  <2>4. CASE PublishIndex(p)
    <3>1. index'.artifacts = job[p].entries /\ job[p].pc = "index"
      BY <2>4 DEF PublishIndex
    <3>2. OncePerIndex(job[p].entries)
      BY <3>1 DEF DraftInv, Drafted, HoldsSnapshot
    <3> QED BY <2>2, <3>1, <3>2 DEF DraftInv, Drafted, Named
  <2> QED BY <1>1, <2>3, <2>4, IndexFrame
<1>2. CASE UNCHANGED <<job, index>>
  BY <1>2 DEF DraftInv, Drafted, Named
<1>3. ASSUME ~\E p \in Procs : Start(p) \/ Step(p) \/ Crash(p)
      PROVE  UNCHANGED <<job, index>>
  BY <1>3 DEF Next, vars, VerifyRetained, Record, Rewrite
<1> QED BY <1>1, <1>2, <1>3

\* Nothing is drafted at the start.
LEMMA InitDrafted == Init => DraftInv
  BY IdleDrafted DEF Init, DraftInv

\* evidence-index.json names each segment index once, whatever registrations
\* racing write_registration calls leave.
THEOREM IndexesUnique == Spec => []UniqueIndexes
<1>1. Spec => []TypeInv
  BY InitTyped, NextTyped, PTL DEF Spec
<1>2. Spec => []DraftInv
  BY <1>1, InitDrafted, NextDrafted, PTL DEF Spec
<1>3. DraftInv => UniqueIndexes
  BY DEF DraftInv, OncePerIndex, UniqueIndexes
<1> QED BY <1>2, <1>3, PTL

-----------------------------------------------------------------------------
(* Every segment that a finalization found when it began is accounted for: *)
(* before the snapshot it is still to be scanned, being registered or      *)
(* registered; from then on its index is in the snapshot.                  *)

Accounted(f) == \E k \in RegKey : reg[k] # None /\ k[1] \in IndexesOf[f]

JobAccounted(j) ==
  /\ j.due \subseteq Segments /\ \A f \in j.due : file[f] # "absent"
  /\ j.pc \in HoldsFile => j.index \in IndexesOf[j.path]
  /\ j.pc = "bound" => j.newreg # None /\ j.index \in IndexesOf[j.newreg.path]
  /\ j.strict => \A f \in j.due : \/ f \in j.todo
                                  \/ Accounted(f)
                                  \/ j.pc \in HoldsFile /\ j.path = f
  /\ j.pc = "snapshot" => \A f \in j.due : Accounted(f)
  /\ j.pc \in HoldsSnapshot =>
       /\ \A k \in RegKey : j.snap[k] # None =>
            reg[k] # None /\ k[1] \in IndexesOf[j.snap[k].path]
       /\ \A f \in j.due : \E k \in RegKey : j.snap[k] # None /\ k[1] \in IndexesOf[f]

\* A registration is named for an index of its file.
RegistrationsNamed == \A k \in RegKey : reg[k] # None => k[1] \in IndexesOf[reg[k].path]

\* What finalize removed had been registered.
GoneAccounted == \A f \in Files : file[f] = "gone" => Accounted(f)

AccountInv ==
  /\ RegistrationsNamed
  /\ GoneAccounted
  /\ \A p \in Procs : JobAccounted(job[p])

\* Nobody takes a registration away, and no file becomes one that never was.
Kept ==
  /\ \A k \in RegKey : reg[k] # None => reg'[k] # None
  /\ \A f \in Files : file[f] # "absent" => file'[f] # "absent"

-----------------------------------------------------------------------------
\* What is accounted for stays so.
LEMMA AccountedStays ==
  ASSUME Kept, NEW j, JobAccounted(j)
  PROVE  JobAccounted(j)'
<1>1. \A f \in Files : Accounted(f) => Accounted(f)'
  BY DEF Kept, Accounted
<1>2. j.due \subseteq Segments /\ j.due \subseteq Files
  BY DEF JobAccounted, Files
<1>3. \A f \in j.due : file'[f] # "absent"
  BY <1>2 DEF JobAccounted, Kept
<1>4. j.strict => \A f \in j.due : f \in j.todo \/ Accounted(f)'
                                   \/ (j.pc \in HoldsFile /\ j.path = f)
  BY <1>1, <1>2 DEF JobAccounted
<1>5. j.pc = "snapshot" => \A f \in j.due : Accounted(f)'
  BY <1>1, <1>2 DEF JobAccounted
<1>6. j.pc \in HoldsSnapshot =>
       /\ \A k \in RegKey : j.snap[k] # None =>
            reg'[k] # None /\ k[1] \in IndexesOf[j.snap[k].path]
       /\ \A f \in j.due : \E k \in RegKey : j.snap[k] # None /\ k[1] \in IndexesOf[f]
  BY DEF JobAccounted, Kept
<1>7. /\ j.pc \in HoldsFile => j.index \in IndexesOf[j.path]
      /\ j.pc = "bound" => j.newreg # None /\ j.index \in IndexesOf[j.newreg.path]
  BY DEF JobAccounted
<1> QED BY <1>2, <1>3, <1>4, <1>5, <1>6, <1>7 DEF JobAccounted

\* A step of one process keeps AccountInv when that process, the registrations
\* and the removed files are accounted for after it.
LEMMA JobStepAccounted ==
  ASSUME AccountInv, Kept, NEW p \in Procs,
         RegistrationsNamed', GoneAccounted', JobAccounted(job[p])',
         \A q \in Procs \ {p} : job'[q] = job[q]
  PROVE  AccountInv'
<1>1. ASSUME NEW q \in Procs \ {p} PROVE JobAccounted(job[q])'
  <2>0. PICK j : j = job'[q] /\ j = job[q]
    OBVIOUS
  <2>1. JobAccounted(j)
    BY <2>0 DEF AccountInv
  <2>2. JobAccounted(j)'
    BY <2>1, AccountedStays
  <2> QED BY <2>0, <2>2 DEF JobAccounted
<1> QED BY <1>1 DEF AccountInv

\* The same for a step that leaves registrations and files alone.
LEMMA QuietStepAccounted ==
  ASSUME AccountInv, NEW p \in Procs, UNCHANGED <<file, reg>>,
         JobAccounted(job'[p]),
         \A q \in Procs \ {p} : job'[q] = job[q]
  PROVE  AccountInv'
<1>1. Kept
  BY DEF Kept
<1>2. RegistrationsNamed' /\ GoneAccounted'
  BY DEF AccountInv, RegistrationsNamed, GoneAccounted, Accounted
<1>3. JobAccounted(job[p])'
  <2>0. PICK j : j = job'[p]
    OBVIOUS
  <2>1. JobAccounted(j)'
    BY <1>1, <2>0, AccountedStays
  <2> QED BY <2>0, <2>1 DEF JobAccounted
<1> QED BY <1>1, <1>2, <1>3, JobStepAccounted

LEMMA IdleAccounted == JobAccounted(Idle)
  BY DEF JobAccounted, Idle, HoldsFile, HoldsSnapshot

\* A process that only goes on to the next phase stays accounted for.
LEMMA MoveAccounted ==
  ASSUME AccountInv, NEW p \in Procs,
         job'[p].due = job[p].due, job'[p].todo = job[p].todo,
         job'[p].strict = job[p].strict, job'[p].path = job[p].path,
         job'[p].index = job[p].index, job'[p].snap = job[p].snap,
         job'[p].pc \notin {"bound", "snapshot"},
         job[p].pc \in HoldsFile <=> job'[p].pc \in HoldsFile,
         job'[p].pc \in HoldsSnapshot => job[p].pc \in HoldsSnapshot
  PROVE  JobAccounted(job'[p])
<1>1. JobAccounted(job[p])
  BY DEF AccountInv
<1> QED BY <1>1 DEF JobAccounted

\* A file with a registration under its name is done with.
LEMMA RegisteredAccounted ==
  ASSUME TypeInv, TypeInv', AccountInv, Kept, NEW p \in Procs, Registered(p),
         job[p].pc \in HoldsFile, reg'[JobKey(p)] # None
  PROVE  /\ JobAccounted(job[p])'
         /\ \A q \in Procs \ {p} : job'[q] = job[q]
<1>1. job \in [Procs -> Job] /\ job[p] \in Job /\ JobSet(job[p]) /\ JobAccounted(job[p])
  BY DEF TypeInv, TypeOK, AccountInv
<1>2. /\ job'[p].pc = "scan" /\ job'[p].due = job[p].due /\ job'[p].todo = job[p].todo
      /\ job'[p].strict = job[p].strict
      /\ \A q \in Procs \ {p} : job'[q] = job[q]
  BY <1>1 DEF Registered, Job
<1>3. JobKey(p) \in RegKey /\ JobKey(p)[1] \in IndexesOf[job[p].path]
  BY <1>1 DEF JobKey, RegKey, JobSet, JobAccounted
<1>4. ASSUME NEW f \in Files, f = job[p].path PROVE Accounted(f)'
  <2>1. PICK k \in RegKey : k = JobKey(p)
    BY <1>3
  <2>2. reg'[k] # None /\ k[1] \in IndexesOf[f]
    BY <1>3, <1>4, <2>1
  <2> QED BY <2>2 DEF Accounted
<1>5. \A f \in Files : Accounted(f) => Accounted(f)'
  BY DEF Kept, Accounted
<1>6. job[p].due \subseteq Files /\ job[p].due \subseteq Segments
  BY <1>1 DEF JobAccounted, Files
<1>7. ASSUME job[p].strict, NEW f \in job[p].due, f \notin job[p].todo
      PROVE  Accounted(f)'
  <2>1. f \in Files /\ (Accounted(f) \/ job[p].path = f)
    BY <1>1, <1>6, <1>7 DEF JobAccounted
  <2> QED BY <1>4, <1>5, <2>1
<1>8. \A f \in job[p].due : file'[f] # "absent"
  BY <1>1, <1>6 DEF JobAccounted, Kept
<1> QED BY <1>2, <1>6, <1>7, <1>8 DEF JobAccounted, HoldsFile, HoldsSnapshot

\* Publishing a registration under the process's key.
LEMMA PublishAccounted ==
  ASSUME TypeInv, TypeInv', AccountInv, NEW p \in Procs, job[p].pc \in HoldsFile,
         NEW r \in Registration, job[p].index \in IndexesOf[r.path],
         reg' = [reg EXCEPT ![JobKey(p)] = r], UNCHANGED file
  PROVE  Kept /\ RegistrationsNamed' /\ GoneAccounted' /\ reg'[JobKey(p)] # None
<1>1. /\ reg \in Snapshot /\ r # None /\ JobKey(p) \in RegKey
      /\ JobKey(p)[1] = job[p].index
  BY DocumentsAssumption DEF TypeInv, TypeOK, JobSet, JobKey, RegKey
<1>2. /\ reg'[JobKey(p)] = r
      /\ \A k \in RegKey : k # JobKey(p) => reg'[k] = reg[k]
  BY <1>1 DEF Snapshot
<1>3. Kept
  BY <1>1, <1>2 DEF Kept
<1>4. RegistrationsNamed'
  BY <1>1, <1>2 DEF AccountInv, RegistrationsNamed
<1>5. GoneAccounted'
  BY <1>3 DEF AccountInv, GoneAccounted, Accounted, Kept
<1> QED BY <1>1, <1>2, <1>3, <1>4, <1>5

\* The scan.
LEMMA ScanAccounted ==
  ASSUME TypeInv, TypeInv', AccountInv, NEW p \in Procs, ~Exit(p),
         \/ HashSegment(p) \/ SkipUnclosed(p) \/ RejectSegment(p) \/ ScanDone(p)
  PROVE  AccountInv'
<1>1. job \in [Procs -> Job] /\ job[p] \in Job /\ JobAccounted(job[p])
  BY DEF TypeInv, TypeOK, AccountInv
<1>2. UNCHANGED <<file, reg>> /\ job[p].pc = "scan"
  BY DEF HashSegment, SkipUnclosed, RejectSegment, ScanDone
<1>3. /\ job[p].due \subseteq Segments /\ \A f \in job[p].due : file[f] # "absent"
      /\ job[p].strict => \A f \in job[p].due : f \in job[p].todo \/ Accounted(f)
  BY <1>1, <1>2 DEF JobAccounted, HoldsFile
<1>4. CASE HashSegment(p)
  <2>1. PICK f \in Segments, i \in Indexes :
          /\ i \in IndexesOf[f]
          /\ job' = [job EXCEPT ![p].pc = "match", ![p].todo = @ \ {f},
                             ![p].path = f, ![p].index = i, ![p].sha = file[f]]
    BY <1>4, ConstantsAssumption DEF HashSegment, Files
  <2>2. /\ job'[p].pc = "match" /\ job'[p].todo = job[p].todo \ {f}
        /\ job'[p].path = f /\ job'[p].index = i
        /\ job'[p].due = job[p].due /\ job'[p].strict = job[p].strict
        /\ \A q \in Procs \ {p} : job'[q] = job[q]
    BY <1>1, <2>1 DEF Job
  <2>3. JobAccounted(job'[p])
    <3>1. job'[p].pc \in HoldsFile /\ job'[p].pc \notin HoldsSnapshot
      BY <2>2 DEF HoldsFile, HoldsSnapshot
    <3>2. job'[p].strict => \A g \in job'[p].due :
             g \in job'[p].todo \/ Accounted(g) \/ job'[p].path = g
      BY <1>3, <2>2
    <3>3. job'[p].index \in IndexesOf[job'[p].path]
      BY <2>1, <2>2
    <3>4. job'[p].due \subseteq Segments /\ \A g \in job'[p].due : file[g] # "absent"
      BY <1>3, <2>2
    <3> QED BY <2>2, <3>1, <3>2, <3>3, <3>4 DEF JobAccounted
  <2> QED BY <1>2, <2>2, <2>3, QuietStepAccounted
<1>5. CASE SkipUnclosed(p)
  <2>1. PICK f \in Segments : job' = [job EXCEPT ![p].todo = @ \ {f}] /\ ~job[p].strict
    BY <1>5 DEF SkipUnclosed
  <2>2. /\ job'[p].pc = "scan" /\ ~job'[p].strict /\ job'[p].due = job[p].due
        /\ \A q \in Procs \ {p} : job'[q] = job[q]
    BY <1>1, <1>2, <2>1 DEF Job
  <2>3. JobAccounted(job'[p])
    BY <1>3, <2>2 DEF JobAccounted, HoldsFile, HoldsSnapshot
  <2> QED BY <1>2, <2>2, <2>3, QuietStepAccounted
<1>6. CASE ScanDone(p)
  <2>0. job[p].todo = {}
    BY <1>6 DEF ScanDone
  <2>1. CASE \/ job' = [job EXCEPT ![p].todo = Listing]
             \/ job' = [job EXCEPT ![p].todo = Listing, ![p].strict = TRUE]
    <3>1. /\ job'[p].pc = "scan" /\ job'[p].todo = Listing /\ job'[p].due = job[p].due
          /\ \A q \in Procs \ {p} : job'[q] = job[q]
      BY <1>1, <1>2, <2>1 DEF Job
    <3>2. ASSUME NEW f \in job[p].due PROVE f \in Listing \/ Accounted(f)
      <4>1. f \in Segments /\ f \in Files /\ file[f] # "absent"
        BY <1>3 DEF Files
      <4>2. file[f] \in Contents \cup {"open", "gone"}
        BY <4>1 DEF TypeInv, TypeOK
      <4> QED BY <4>1, <4>2 DEF Listing, AccountInv, GoneAccounted
    <3>3. JobAccounted(job'[p])
      BY <1>3, <3>1, <3>2 DEF JobAccounted, HoldsFile, HoldsSnapshot
    <3> QED BY <1>2, <3>1, <3>3, QuietStepAccounted
  <2>2. CASE job[p].strict /\ job' = [job EXCEPT ![p].pc = "snapshot"]
    <3>1. /\ job'[p].pc = "snapshot" /\ job'[p].due = job[p].due
          /\ \A q \in Procs \ {p} : job'[q] = job[q]
      BY <1>1, <2>2 DEF Job
    <3>2. \A f \in job[p].due : Accounted(f)
      BY <1>3, <2>0, <2>2
    <3>3. JobAccounted(job'[p])
      BY <1>3, <3>1, <3>2 DEF JobAccounted, HoldsFile, HoldsSnapshot
    <3> QED BY <1>2, <3>1, <3>3, QuietStepAccounted
  <2> QED BY <1>6, <2>1, <2>2 DEF ScanDone
<1> QED BY <1>4, <1>5, <1>6 DEF RejectSegment

\* The upload and the registration.
LEMMA UploadAccounted ==
  ASSUME TypeInv, TypeInv', AccountInv, NEW p \in Procs, ~Exit(p),
         \/ MatchRegistration(p)
         \/ RcloneCompare(p) \/ RclonePut(p) \/ RcloneCheck(p) \/ HeadObject(p)
         \/ CheckRegistration(p) \/ PublishRegistration(p)
  PROVE  AccountInv'
<1>1. /\ job \in [Procs -> Job] /\ job[p] \in Job /\ JobSet(job[p])
      /\ JobAccounted(job[p]) /\ reg \in Snapshot
  BY DEF TypeInv, TypeOK, AccountInv
<1>2. job[p].pc \in HoldsFile
  BY DEF MatchRegistration, RcloneCompare, RclonePut, RcloneCheck, HeadObject,
         CheckRegistration, PublishRegistration, HoldsFile
<1>3. CASE PublishRegistration(p)
  <2> DEFINE r == NewRegistration(p)
  <2>1. r \in Registration /\ job[p].index \in IndexesOf[r.path]
    BY <1>1, <1>2, <1>3 DEF PublishRegistration, NewRegistration, Registration,
       StatusOf, Job, JobSet, JobAccounted, HoldsFile
  <2>2. reg' = [reg EXCEPT ![JobKey(p)] = r] /\ UNCHANGED file /\ Registered(p)
    BY <1>3 DEF PublishRegistration
  <2> HIDE DEF r
  <2>3. Kept /\ RegistrationsNamed' /\ GoneAccounted' /\ reg'[JobKey(p)] # None
    BY <1>2, <2>1, <2>2, PublishAccounted
  <2>4. JobAccounted(job[p])' /\ \A q \in Procs \ {p} : job'[q] = job[q]
    BY <1>2, <2>2, <2>3, RegisteredAccounted
  <2> QED BY <2>3, <2>4, JobStepAccounted
<1>4. CASE ~PublishRegistration(p) /\ Registered(p)
  <2>1. UNCHANGED <<file, reg>>
    BY <1>4 DEF MatchRegistration, RcloneCompare, RclonePut, RcloneCheck, HeadObject,
         CheckRegistration
  <2>2. reg[JobKey(p)] # None
    <3>1. job'[p].pc = "scan"
      BY <1>1, <1>4 DEF Registered, Job
    <3>2. MatchRegistration(p) \/ CheckRegistration(p)
      BY <1>1, <1>4, <3>1 DEF RcloneCompare, RclonePut, RcloneCheck, HeadObject, Job
    <3>3. CASE MatchRegistration(p)
      BY <1>1, <3>1, <3>3 DEF MatchRegistration, Job
    <3>4. CASE CheckRegistration(p)
      BY <1>1, <3>1, <3>4 DEF CheckRegistration, Job
    <3> QED BY <3>2, <3>3, <3>4
  <2>3. Kept /\ RegistrationsNamed' /\ GoneAccounted'
    BY <2>1 DEF Kept, AccountInv, RegistrationsNamed, GoneAccounted, Accounted
  <2>5. reg'[JobKey(p)] # None
    BY <2>1, <2>2
  <2>4. JobAccounted(job[p])' /\ \A q \in Procs \ {p} : job'[q] = job[q]
    BY <1>2, <1>4, <2>3, <2>5, RegisteredAccounted
  <2> QED BY <2>3, <2>4, JobStepAccounted
<1>5. CASE ~PublishRegistration(p) /\ ~Registered(p)
  <2>1. UNCHANGED <<file, reg>>
    BY <1>5 DEF MatchRegistration, RcloneCompare, RclonePut, RcloneCheck, HeadObject,
         CheckRegistration
  <2>3. /\ job'[p].due = job[p].due /\ job'[p].todo = job[p].todo
        /\ job'[p].strict = job[p].strict /\ job'[p].path = job[p].path
        /\ job'[p].index = job[p].index /\ job'[p].snap = job[p].snap
        /\ job'[p].pc \in HoldsFile \ {"bound"}
        /\ \A q \in Procs \ {p} : job'[q] = job[q]
    <3>1. CASE HeadObject(p)
      BY <1>1, <3>1 DEF HeadObject, Job, HoldsFile
    <3>2. CASE ~HeadObject(p)
      <4>1. \E c \in {"write", "copy", "put", "check", "head", "publish"} :
              job' = [job EXCEPT ![p].pc = c]
        BY <1>5, <3>2 DEF MatchRegistration, RcloneCompare, RclonePut, RcloneCheck,
           CheckRegistration
      <4> QED BY <1>1, <4>1 DEF Job, HoldsFile
    <3> QED BY <3>1, <3>2
  <2>4. JobAccounted(job'[p])
    BY <1>2, <2>3, MoveAccounted DEF HoldsFile, HoldsSnapshot
  <2> QED BY <2>1, <2>3, <2>4, QuietStepAccounted
<1> QED BY <1>3, <1>4, <1>5

\* The receipt.
LEMMA ReceiptAccounted ==
  ASSUME TypeInv, TypeInv', AccountInv, NEW p \in Procs, ~Exit(p),
         BindReceipt(p) \/ PublishBinding(p) \/ PublishReceipt(p)
  PROVE  AccountInv'
<1>1. /\ job \in [Procs -> Job] /\ job[p] \in Job /\ JobSet(job[p])
      /\ JobAccounted(job[p]) /\ reg \in Snapshot
  BY DEF TypeInv, TypeOK, AccountInv
<1>2. CASE BindReceipt(p)
  <2> DEFINE r == reg[JobKey(p)]
             n == [r EXCEPT !.receipt = job[p].staged.id]
  <2>1. /\ r # None /\ job[p].pc = "bind" /\ UNCHANGED <<file, reg>>
        /\ job' = [job EXCEPT ![p].pc = "bound", ![p].newreg = n]
    BY <1>2 DEF BindReceipt
  <2>2. JobKey(p) \in RegKey /\ JobKey(p)[1] = job[p].index
    BY <1>1, <2>1 DEF JobKey, RegKey, JobSet, HoldsFile
  <2>3. r \in Registration /\ job[p].index \in IndexesOf[r.path]
    BY <1>1, <2>1, <2>2 DEF Snapshot, AccountInv, RegistrationsNamed
  <2>4. n \in Registration /\ n.path = r.path
    <3>1. job[p].staged.id \in Nat
      BY <1>1, <2>1 DEF JobSet, Receipt
    <3> QED BY <2>3, <3>1 DEF Registration
  <2>5. n # None
    BY <2>4, DocumentsAssumption
  <2>6. job[p].index \in IndexesOf[n.path]
    BY <2>3, <2>4
  <2> HIDE DEF n
  <2>7. /\ job'[p].pc = "bound" /\ job'[p].newreg = n
        /\ job'[p].due = job[p].due /\ job'[p].todo = job[p].todo
        /\ job'[p].strict = job[p].strict /\ job'[p].path = job[p].path
        /\ job'[p].index = job[p].index
        /\ \A q \in Procs \ {p} : job'[q] = job[q]
    BY <1>1, <2>1 DEF Job
  <2>8. JobAccounted(job'[p])
    BY <1>1, <2>1, <2>5, <2>6, <2>7 DEF JobAccounted, HoldsFile, HoldsSnapshot
  <2> QED BY <2>1, <2>7, <2>8, QuietStepAccounted
<1>3. CASE PublishBinding(p)
  <2> DEFINE r == job[p].newreg
  <2>1. /\ job[p].pc = "bound" /\ UNCHANGED file
        /\ reg' = [reg EXCEPT ![JobKey(p)] = r]
        /\ job' = [job EXCEPT ![p].pc = "receipt"]
    BY <1>3 DEF PublishBinding
  <2>2. r \in Registration /\ job[p].index \in IndexesOf[r.path]
    BY <1>1, <2>1 DEF JobAccounted, Job
  <2> HIDE DEF r
  <2>3. Kept /\ RegistrationsNamed' /\ GoneAccounted'
    BY <2>1, <2>2, PublishAccounted DEF HoldsFile
  <2>4. /\ job'[p].due = job[p].due /\ job'[p].todo = job[p].todo
        /\ job'[p].strict = job[p].strict /\ job'[p].path = job[p].path
        /\ job'[p].index = job[p].index /\ job'[p].snap = job[p].snap
        /\ job'[p].pc = "receipt"
        /\ \A q \in Procs \ {p} : job'[q] = job[q]
    BY <1>1, <2>1 DEF Job
  <2>5. JobAccounted(job'[p])
    BY <2>1, <2>4, MoveAccounted DEF HoldsFile, HoldsSnapshot
  <2>6. JobAccounted(job[p])'
    <3>0. PICK j : j = job'[p]
      OBVIOUS
    <3>1. JobAccounted(j)'
      BY <2>3, <2>5, <3>0, AccountedStays
    <3> QED BY <3>0, <3>1 DEF JobAccounted
  <2> QED BY <2>3, <2>4, <2>6, JobStepAccounted
<1> QED BY <1>2, <1>3 DEF PublishReceipt

\* The draft, its publication and the deletions.
LEMMA FinishAccounted ==
  ASSUME TypeInv, TypeInv', AccountInv, NEW p \in Procs, ~Exit(p),
         \/ TakeSnapshot(p) \/ AddArtifact(p) \/ CollectInventory(p)
         \/ PublishInventory(p) \/ PublishIndex(p) \/ DeleteSource(p)
  PROVE  AccountInv'
<1>1. /\ job \in [Procs -> Job] /\ job[p] \in Job /\ JobSet(job[p])
      /\ JobAccounted(job[p]) /\ reg \in Snapshot
  BY DEF TypeInv, TypeOK, AccountInv
<1>2. CASE TakeSnapshot(p)
  <2>1. /\ job[p].pc = "snapshot" /\ UNCHANGED <<file, reg>>
        /\ job' = [job EXCEPT ![p].pc = "add", ![p].snap = reg,
                                   ![p].left = {k \in RegKey : reg[k] # None}]
    BY <1>2 DEF TakeSnapshot
  <2>2. /\ job'[p].pc = "add" /\ job'[p].snap = reg
        /\ job'[p].due = job[p].due /\ job'[p].todo = job[p].todo
        /\ job'[p].strict = job[p].strict
        /\ \A q \in Procs \ {p} : job'[q] = job[q]
    BY <1>1, <2>1 DEF Job
  <2>3. \A f \in job[p].due : Accounted(f)
    BY <1>1, <2>1 DEF JobAccounted
  <2>4. JobAccounted(job'[p])
    BY <1>1, <2>2, <2>3 DEF JobAccounted, AccountInv, RegistrationsNamed, Accounted,
                            HoldsFile, HoldsSnapshot
  <2> QED BY <2>1, <2>2, <2>4, QuietStepAccounted
<1>3. CASE AddArtifact(p) \/ CollectInventory(p) \/ PublishInventory(p)
           \/ PublishIndex(p) \/ DeleteSource(p)
  <2>2. /\ job'[p].due = job[p].due /\ job'[p].todo = job[p].todo
        /\ job'[p].strict = job[p].strict /\ job'[p].path = job[p].path
        /\ job'[p].index = job[p].index /\ job'[p].snap = job[p].snap
        /\ job'[p].pc \in HoldsSnapshot
        /\ \A q \in Procs \ {p} : job'[q] = job[q]
    <3>1. CASE AddArtifact(p)
      <4>1. job[p].pc = "add" /\ \E l, e :
              job' = [job EXCEPT ![p].left = l, ![p].entries = e]
        BY <3>1 DEF AddArtifact
      <4> QED BY <1>1, <4>1 DEF Job, HoldsSnapshot
    <3>2. CASE CollectInventory(p) \/ PublishInventory(p)
      BY <1>1, <3>2 DEF CollectInventory, PublishInventory, Job, HoldsSnapshot
    <3>3. CASE PublishIndex(p)
      BY <1>1, <3>3 DEF PublishIndex, Job, HoldsSnapshot
    <3>4. CASE DeleteSource(p)
      <4>1. job[p].pc = "delete" /\ \E l : job' = [job EXCEPT ![p].left = l]
        BY <3>4 DEF DeleteSource
      <4> QED BY <1>1, <4>1 DEF Job, HoldsSnapshot
    <3> QED BY <1>3, <3>1, <3>2, <3>3, <3>4
  <2>3. job[p].pc \in HoldsSnapshot /\ UNCHANGED reg
    BY <1>3 DEF AddArtifact, CollectInventory, PublishInventory, PublishIndex,
                DeleteSource, HoldsSnapshot
  <2>4. JobAccounted(job'[p])
    BY <2>2, <2>3, MoveAccounted DEF HoldsFile, HoldsSnapshot
  <2>5. CASE UNCHANGED file
    BY <2>2, <2>3, <2>4, <2>5, QuietStepAccounted
  <2>6. CASE file' # file
    <3>1. PICK k \in job[p].left : file' = [file EXCEPT ![job[p].snap[k].path] = "gone"]
      BY <1>3, <2>6 DEF AddArtifact, CollectInventory, PublishInventory, PublishIndex,
                        DeleteSource, IsFirst
    <3>2. k \in RegKey /\ job[p].snap[k] # None
      BY <1>1, <2>3 DEF Job, JobSet
    <3>3. reg[k] # None /\ k[1] \in IndexesOf[job[p].snap[k].path]
      BY <1>1, <2>3, <3>2 DEF JobAccounted
    <3>4. Accounted(job[p].snap[k].path)
      BY <3>2, <3>3 DEF Accounted
    <3>5. file \in [Files -> Contents \cup {"absent", "open", "gone"}]
      BY DEF TypeInv, TypeOK
    <3>6. Kept
      BY <2>3, <3>1, <3>5 DEF Kept
    <3>7. GoneAccounted'
      BY <2>3, <3>1, <3>4, <3>5 DEF AccountInv, GoneAccounted, Accounted
    <3>8. RegistrationsNamed'
      BY <2>3 DEF AccountInv, RegistrationsNamed
    <3>9. JobAccounted(job[p])'
      <4>0. PICK j : j = job'[p]
        OBVIOUS
      <4>1. JobAccounted(j)'
        BY <2>4, <3>6, <4>0, AccountedStays
      <4> QED BY <4>0, <4>1 DEF JobAccounted
    <3> QED BY <2>2, <3>6, <3>7, <3>8, <3>9, JobStepAccounted
  <2> QED BY <2>5, <2>6
<1> QED BY <1>2, <1>3

\* Every step keeps AccountInv.
LEMMA NextAccounted == TypeInv /\ TypeInv' /\ AccountInv /\ [Next]_vars => AccountInv'
<1> SUFFICES ASSUME TypeInv, TypeInv', AccountInv, [Next]_vars PROVE AccountInv'
  OBVIOUS
<1>1. ASSUME NEW p \in Procs, Start(p) \/ Step(p) \/ Crash(p) PROVE AccountInv'
  <2>1. CASE Start(p)
    <3>1. /\ \A q \in Procs \ {p} : job'[q] = job[q]
          /\ job'[p].pc \in {"scan", "write", "match", "bind"}
          /\ ~job'[p].strict
          /\ job'[p].due \in {{}, Listing}
          /\ job'[p].pc # "scan" => job'[p].index \in IndexesOf[job'[p].path]
      BY <2>1, StartFrame
    <3>2. UNCHANGED <<file, reg>>
      BY <2>1 DEF Start
    <3>3. Listing \subseteq Segments /\ \A f \in Listing : file[f] # "absent"
      BY NoneAssumption DEF Listing
    <3>4. JobAccounted(job'[p])
      BY <3>1, <3>3 DEF JobAccounted, HoldsFile, HoldsSnapshot
    <3> QED BY <3>1, <3>2, <3>4, QuietStepAccounted
  <2>2. CASE Exit(p) /\ (Step(p) \/ Crash(p))
    <3>1. job'[p] = Idle /\ \A q \in Procs \ {p} : job'[q] = job[q]
      BY <2>2, ExitFrame
    <3>2. UNCHANGED <<file, reg>>
      <4>1. job'[p].pc = "idle"
        BY <3>1 DEF Idle
      <4>2. job \in [Procs -> Job] /\ job[p] \in Job
        BY DEF TypeInv, TypeOK
      <4>3. ~PublishRegistration(p) /\ ~PublishBinding(p)
        BY <4>1, <4>2 DEF PublishRegistration, PublishBinding, Registered, Job
      <4>4. CASE DeleteSource(p)
        <5>1. CASE \E k \in RegKey : job' = [job EXCEPT ![p].left = @ \ {k}]
          BY <4>1, <4>2, <4>4, <5>1 DEF DeleteSource, Job
        <5> QED BY <4>4, <5>1 DEF DeleteSource
      <4> QED BY <2>2, <4>3, <4>4 DEF Crash, Step, HashSegment, SkipUnclosed,
         RejectSegment, ScanDone, MatchRegistration, RcloneCompare, RclonePut,
         RcloneCheck, HeadObject, CheckRegistration, BindReceipt, PublishReceipt,
         TakeSnapshot, AddArtifact, CollectInventory, PublishInventory, PublishIndex
    <3>3. JobAccounted(job'[p])
      BY <3>1, IdleAccounted
    <3> QED BY <3>1, <3>2, <3>3, QuietStepAccounted
  <2>3. CASE Step(p) /\ ~Exit(p)
    BY <2>3, ScanAccounted, UploadAccounted, ReceiptAccounted, FinishAccounted DEF Step
  <2> QED BY <1>1, <2>1, <2>2, <2>3 DEF Crash
<1>2. ASSUME UNCHANGED <<reg, job>>,
             \A f \in Files : file[f] # "absent" => file'[f] # "absent",
             \A f \in Files : file'[f] = "gone" => file[f] = "gone"
      PROVE  AccountInv'
  <2>1. Kept /\ RegistrationsNamed' /\ GoneAccounted'
    BY <1>2 DEF Kept, AccountInv, RegistrationsNamed, GoneAccounted, Accounted
  <2>2. ASSUME NEW p \in Procs PROVE JobAccounted(job[p])'
    <3>0. PICK j : j = job[p] /\ j = job'[p]
      BY <1>2
    <3>1. JobAccounted(j)'
      BY <2>1, <3>0, AccountedStays DEF AccountInv
    <3> QED BY <3>0, <3>1 DEF JobAccounted
  <2> QED BY <2>1, <2>2 DEF AccountInv
<1>3. ASSUME NEW f \in Files, Record(f) \/ Rewrite(f) PROVE AccountInv'
  <2>1. file \in [Files -> Contents \cup {"absent", "open", "gone"}] /\ UNCHANGED <<reg, job>>
    BY <1>3 DEF TypeInv, TypeOK, Record, Rewrite
  <2>2. PICK c \in Contents \cup {"open"} : file' = [file EXCEPT ![f] = c]
    BY <1>3 DEF Record, Rewrite
  <2>3. c # "absent" /\ c # "gone"
    BY NoneAssumption
  <2> QED BY <1>2, <2>1, <2>2, <2>3
<1>4. CASE UNCHANGED <<file, reg, job>>
  BY <1>2, <1>4
<1> QED BY <1>1, <1>3, <1>4 DEF Next, VerifyRetained, vars, Files

\* Nothing is to be accounted for at the start.
LEMMA InitAccounted == Init => AccountInv
<1> SUFFICES ASSUME Init PROVE AccountInv
  OBVIOUS
<1>1. RegistrationsNamed
  BY DEF Init, RegistrationsNamed
<1>2. GoneAccounted
  BY NoneAssumption DEF Init, GoneAccounted
<1> QED BY <1>1, <1>2, IdleAccounted DEF Init, AccountInv

\* Whatever happens to the spool in between, finalize publishes no index that
\* leaves out the index of a segment it listed when it began.
THEOREM SegmentsComplete == Spec => []NoSegmentLeftOut
<1>1. Spec => []TypeInv
  BY InitTyped, NextTyped, PTL DEF Spec
<1>2. Spec => []DraftInv
  BY <1>1, InitDrafted, NextDrafted, PTL DEF Spec
<1>3. Spec => []AccountInv
  BY <1>1, InitAccounted, NextAccounted, PTL DEF Spec
<1>4. DraftInv /\ AccountInv => NoSegmentLeftOut
  <2> SUFFICES ASSUME DraftInv, AccountInv, NEW p \in Procs, job[p].pc = "index",
                      NEW f \in job[p].due
               PROVE  \E e \in job[p].entries : e.index \in IndexesOf[f]
    BY DEF NoSegmentLeftOut
  <2>1. PICK k \in RegKey : job[p].snap[k] # None /\ k[1] \in IndexesOf[f]
    BY DEF AccountInv, JobAccounted, HoldsSnapshot
  <2>2. Named(job[p], k)
    BY <2>1 DEF DraftInv, Drafted, HoldsSnapshot
  <2> QED BY <2>1, <2>2 DEF Named
<1> QED BY <1>2, <1>3, <1>4, PTL

-----------------------------------------------------------------------------
(* The order of publications.  Two finalizations at once may publish their *)
(* inventories and indexes crosswise, and the index that a deletion relies *)
(* on may be another one's; the order is a promise of one finalizer.       *)

OneFinalizer ==
  \A p, q \in Procs :
    "finalize" \in Allowed[p] /\ "finalize" \in Allowed[q] => p = q

\* Only finalize has a draft; before its index it has published its inventory,
\* and what it deletes by is the index it published.
OrderInv ==
  /\ \A p \in Procs : job[p].pc # "idle" => job[p].cmd \in Allowed[p]
  /\ \A p \in Procs :
       job[p].pc \in {"snapshot"} \cup HoldsSnapshot => job[p].cmd = "finalize"
  /\ \A p \in Procs : job[p].pc = "index" => inventory = Confirmed(job[p].snap)
  /\ \A p \in Procs :
       job[p].pc = "delete" => index # None /\ index.artifacts = job[p].entries

\* A step of a running command leaves its name alone; only a finalization gets
\* to the snapshot.
LEMMA StepCommand ==
  ASSUME TypeInv, OrderInv, NEW p \in Procs, Step(p), ~Exit(p)
  PROVE  /\ job'[p].cmd = job[p].cmd /\ job[p].pc # "idle"
         /\ job'[p].pc \in {"snapshot"} \cup HoldsSnapshot => job[p].cmd = "finalize"
         /\ \A q \in Procs \ {p} : job'[q] = job[q]
<1>1. job \in [Procs -> Job] /\ job[p] \in Job
  BY DEF TypeInv, TypeOK
<1>2. job[p].pc # "idle"
  BY DEF Step, HashSegment, SkipUnclosed, RejectSegment, ScanDone,
       MatchRegistration, RcloneCompare, RclonePut, RcloneCheck, HeadObject,
       CheckRegistration, PublishRegistration, BindReceipt, PublishBinding,
       PublishReceipt, TakeSnapshot, AddArtifact, CollectInventory,
       PublishInventory, PublishIndex, DeleteSource
<1>3. CASE TakeSnapshot(p)
  BY <1>1, <1>2, <1>3 DEF TakeSnapshot, OrderInv, Job
<1>4. CASE AddArtifact(p)
  <2>1. job[p].pc = "add" /\ \E l, e : job' = [job EXCEPT ![p].left = l, ![p].entries = e]
    BY <1>4 DEF AddArtifact
  <2> QED BY <1>1, <1>2, <2>1 DEF OrderInv, Job, HoldsSnapshot
<1>5. CASE CollectInventory(p) \/ PublishInventory(p) \/ PublishIndex(p)
  BY <1>1, <1>2, <1>5 DEF CollectInventory, PublishInventory, PublishIndex, OrderInv, Job,
                          HoldsSnapshot
<1>6. CASE DeleteSource(p)
  <2>1. job[p].pc = "delete" /\ \E l : job' = [job EXCEPT ![p].left = l]
    BY <1>6 DEF DeleteSource
  <2> QED BY <1>1, <1>2, <2>1 DEF OrderInv, Job, HoldsSnapshot
<1>7. CASE ~(\/ TakeSnapshot(p) \/ AddArtifact(p) \/ CollectInventory(p)
             \/ PublishInventory(p) \/ PublishIndex(p) \/ DeleteSource(p))
  BY <1>2, <1>7, EarlyStep DEF Step
<1> QED BY <1>3, <1>4, <1>5, <1>6, <1>7

\* Only PublishInventory changes the inventory, and only it leads to the
\* publication of the index; only that leads to the deletions.
LEMMA OrderFrame ==
  ASSUME TypeInv, NEW p \in Procs, Start(p) \/ Step(p) \/ Crash(p)
  PROVE  /\ inventory' # inventory \/ job'[p].pc = "index" => PublishInventory(p)
         /\ job'[p].pc = "delete" => \/ PublishIndex(p)
                                     \/ DeleteSource(p) /\ job[p].pc = "delete"
                                        /\ job'[p].entries = job[p].entries
<1>1. job \in [Procs -> Job] /\ job[p] \in Job
  BY DEF TypeInv, TypeOK
<1>2. CASE Start(p)
  BY <1>2, StartFrame DEF Start
<1>3. CASE Exit(p) /\ ~PublishInventory(p)
  <2>1. job'[p].pc = "idle"
    BY <1>3, ExitFrame DEF Idle
  <2>2. UNCHANGED inventory
    BY <1>3 DEF Start, Crash, Step, HashSegment, SkipUnclosed, RejectSegment, ScanDone,
       MatchRegistration, RcloneCompare, RclonePut, RcloneCheck, HeadObject,
       CheckRegistration, PublishRegistration, BindReceipt, PublishBinding,
       PublishReceipt, TakeSnapshot, AddArtifact, CollectInventory,
       PublishIndex, DeleteSource
  <2> QED BY <2>1, <2>2
<1>4. CASE TakeSnapshot(p) /\ ~Exit(p)
  BY <1>1, <1>4 DEF TakeSnapshot, Job
<1>5. CASE AddArtifact(p) /\ ~Exit(p)
  <2>1. /\ job[p].pc = "add" /\ UNCHANGED inventory
        /\ \E l, e : job' = [job EXCEPT ![p].left = l, ![p].entries = e]
    BY <1>5 DEF AddArtifact
  <2> QED BY <1>1, <2>1 DEF Job
<1>6. CASE PublishInventory(p) \/ ((CollectInventory(p) \/ PublishIndex(p)) /\ ~Exit(p))
  BY <1>1, <1>6 DEF CollectInventory, PublishInventory, PublishIndex, Job
<1>7. CASE DeleteSource(p) /\ ~Exit(p)
  <2>1. /\ job[p].pc = "delete" /\ UNCHANGED inventory
        /\ \E l : job' = [job EXCEPT ![p].left = l]
    BY <1>7 DEF DeleteSource
  <2> QED BY <1>1, <1>7, <2>1 DEF Job
<1>8. CASE Step(p) /\ ~Exit(p)
           /\ ~(\/ TakeSnapshot(p) \/ AddArtifact(p) \/ CollectInventory(p)
             \/ PublishInventory(p) \/ PublishIndex(p) \/ DeleteSource(p))
  <2>1. UNCHANGED inventory
    BY <1>8 DEF Step, HashSegment, SkipUnclosed, RejectSegment, ScanDone,
       MatchRegistration, RcloneCompare, RclonePut, RcloneCheck, HeadObject,
       CheckRegistration, PublishRegistration, BindReceipt, PublishBinding,
       PublishReceipt
  <2>2. job'[p].pc \notin HoldsSnapshot
    BY <1>8, EarlyStep DEF Step
  <2> QED BY <2>1, <2>2 DEF HoldsSnapshot
<1> QED BY <1>2, <1>3, <1>4, <1>5, <1>6, <1>7, <1>8 DEF Crash

\* With one finalizer at most one process has a draft.
LEMMA LoneDraft ==
  ASSUME OneFinalizer, OrderInv, NEW p \in Procs, NEW q \in Procs,
         job[p].pc \in HoldsSnapshot, job[q].pc \in HoldsSnapshot
  PROVE  p = q
<1>1. /\ job[p].pc # "idle" /\ job[p].cmd = "finalize"
      /\ job[q].pc # "idle" /\ job[q].cmd = "finalize"
  BY DEF OrderInv, HoldsSnapshot
<1> QED BY <1>1 DEF OneFinalizer, OrderInv

\* A step of one process keeps OrderInv.
LEMMA StepOrdered ==
  ASSUME OneFinalizer, TypeInv, OrderInv, NEW p \in Procs,
         Start(p) \/ Step(p) \/ Crash(p)
  PROVE  OrderInv'
<1>1. job \in [Procs -> Job] /\ job[p] \in Job
  BY DEF TypeInv, TypeOK
<1>2. /\ \A q \in Procs \ {p} : job'[q] = job[q]
      /\ job'[p].pc # "idle" => job'[p].cmd \in Allowed[p]
      /\ job'[p].pc \in {"snapshot"} \cup HoldsSnapshot => job'[p].cmd = "finalize"
  <2>1. CASE Start(p)
    BY <2>1, StartFrame DEF HoldsSnapshot
  <2>2. CASE Exit(p)
    BY <2>2, ExitFrame DEF Idle, HoldsSnapshot
  <2>3. CASE Step(p) /\ ~Exit(p)
    BY <2>3, StepCommand DEF OrderInv
  <2> QED BY <2>1, <2>2, <2>3 DEF Crash
<1>3. ASSUME NEW q \in Procs, job'[q].pc = "index"
      PROVE  inventory' = Confirmed(job'[q].snap)
  <2>1. CASE q = p
    <3>1. PublishInventory(p)
      BY <1>3, <2>1, OrderFrame
    <3>2. job'[p].snap = job[p].snap /\ inventory' = Confirmed(job[p].snap)
      BY <1>1, <3>1 DEF PublishInventory, Job
    <3> QED BY <2>1, <3>2
  <2>2. CASE q # p
    <3>1. job'[q] = job[q] /\ job[q].pc = "index"
      BY <1>2, <1>3, <2>2
    <3>2. ~PublishInventory(p)
      BY <2>2, <3>1, LoneDraft DEF PublishInventory, HoldsSnapshot
    <3> QED BY <3>1, <3>2, OrderFrame DEF OrderInv
  <2> QED BY <2>1, <2>2
<1>4. ASSUME NEW q \in Procs, job'[q].pc = "delete"
      PROVE  index' # None /\ index'.artifacts = job'[q].entries
  <2>1. CASE PublishIndex(p)
    <3>1. q = p
      <4>1. job[p].pc \in HoldsSnapshot
        BY <2>1 DEF PublishIndex, HoldsSnapshot
      <4>2. ASSUME q # p PROVE job[q].pc \in HoldsSnapshot
        BY <1>2, <1>4, <4>2 DEF HoldsSnapshot
      <4> QED BY <4>1, <4>2, LoneDraft
    <3>2. /\ index' = [run |-> job[p].run, artifacts |-> job[p].entries]
          /\ job'[p].entries = job[p].entries
      <4>1. ~Exit(p)
        BY <1>4, <3>1, ExitFrame DEF Idle
      <4> QED BY <1>1, <2>1, <4>1 DEF PublishIndex, Job
    <3>3. index' \in EvidenceIndex
      <4>1. job[p].run \in Runs
        BY <1>1, <2>1 DEF PublishIndex, TypeInv, JobSet
      <4> QED BY <1>1, <3>2, <4>1 DEF EvidenceIndex, Job
    <3> QED BY <3>1, <3>2, <3>3, DocumentsAssumption
  <2>2. CASE ~PublishIndex(p)
    <3>1. index' = index
      BY <2>2, IndexFrame
    <3>2. job[q].pc = "delete" /\ job'[q].entries = job[q].entries
      BY <1>2, <1>4, <2>2, OrderFrame
    <3> QED BY <3>1, <3>2 DEF OrderInv
  <2> QED BY <2>1, <2>2
<1> QED BY <1>2, <1>3, <1>4 DEF OrderInv

\* Every step keeps OrderInv.
LEMMA NextOrdered ==
  ASSUME OneFinalizer, TypeInv, OrderInv, [Next]_vars
  PROVE  OrderInv'
<1>1. CASE \E p \in Procs : Start(p) \/ Step(p) \/ Crash(p)
  BY <1>1, StepOrdered
<1>2. CASE UNCHANGED <<job, index, inventory>>
  BY <1>2 DEF OrderInv
<1> QED BY <1>1, <1>2 DEF Next, vars, VerifyRetained, Record, Rewrite

\* Nothing is published at the start.
LEMMA InitOrdered == Init => OrderInv
  BY DEF Init, OrderInv, Idle, HoldsSnapshot

\* Under one finalizer, finalize removes a source only when the published index
\* already names it as retained and the object store holds its bytes.
THEOREM DeletionsRetained == OneFinalizer => (Spec => DeletedOnlyRetained)
<1> SUFFICES ASSUME OneFinalizer PROVE Spec => DeletedOnlyRetained
  OBVIOUS
<1> DEFINE Allowance == \A f \in Files :
       file[f] \in Contents /\ file'[f] = "gone" =>
         /\ index # None
         /\ \E e \in index.artifacts :
              /\ e.path = f
              /\ e.storage = "retained"
              /\ Retained(EntryDescriptor(index.run, e))
<1>1. Spec => []TypeInv
  BY InitTyped, NextTyped, PTL DEF Spec
<1>2. TypeInv /\ OrderInv /\ [Next]_vars => OrderInv'
  BY NextOrdered
<1>3. Spec => []OrderInv
  BY <1>1, <1>2, InitOrdered, PTL DEF Spec
<1>4. Spec => []DraftInv
  BY <1>1, InitDrafted, NextDrafted, PTL DEF Spec
<1>5. Spec => []RetainedVerified
  BY IndexTrue
<1>6. ASSUME TypeInv, OrderInv, DraftInv, RetainedVerified, [Next]_vars
      PROVE  [Allowance]_vars
  <2> SUFFICES ASSUME NEW f \in Files, file[f] \in Contents, file'[f] = "gone"
               PROVE  /\ index # None
                      /\ \E e \in index.artifacts :
                           /\ e.path = f
                           /\ e.storage = "retained"
                           /\ Retained(EntryDescriptor(index.run, e))
    OBVIOUS
  <2>1. file \in [Files -> Contents \cup {"absent", "open", "gone"}]
    BY <1>6 DEF TypeInv, TypeOK
  <2>2. file[f] # "gone" /\ file' # file
    BY NoneAssumption
  <2>3. ASSUME NEW g \in Files, Record(g) \/ Rewrite(g) PROVE FALSE
    <3>1. PICK c \in Contents \cup {"open"} : file' = [file EXCEPT ![g] = c]
      BY <2>3 DEF Record, Rewrite
    <3> QED BY <2>1, <2>2, <3>1, NoneAssumption
  <2>4. PICK p \in Procs : DeleteSource(p)
    <3>1. PICK p \in Procs : Start(p) \/ Step(p) \/ Crash(p)
      BY <1>6, <2>2, <2>3 DEF Next, vars, VerifyRetained, Files
    <3> QED BY <2>2, <3>1 DEF Start, Crash, Step, HashSegment, SkipUnclosed,
       RejectSegment, ScanDone,
       MatchRegistration, RcloneCompare, RclonePut, RcloneCheck, HeadObject,
       CheckRegistration, PublishRegistration, BindReceipt, PublishBinding,
       PublishReceipt, TakeSnapshot, AddArtifact, CollectInventory,
       PublishInventory, PublishIndex
  <2>5. PICK k \in RegKey :
          k \in job[p].left /\ file' = [file EXCEPT ![job[p].snap[k].path] = "gone"]
    BY <2>2, <2>4 DEF DeleteSource, IsFirst
  <2>6. job[p].snap[k].path = f
    BY <2>1, <2>2, <2>5
  <2>7. job[p].pc = "delete" /\ k \in Confirmed(job[p].snap)
    BY <1>6, <2>4, <2>5 DEF DeleteSource, DraftInv, Drafted
  <2>8. job[p].snap[k] # None /\ job[p].snap[k].status = "confirmed"
    BY <2>7 DEF Confirmed
  <2>9. Named(job[p], k)
    BY <1>6, <2>7, <2>8 DEF DraftInv, Drafted, HoldsSnapshot
  <2>10. index # None /\ index.artifacts = job[p].entries
    BY <1>6, <2>7 DEF OrderInv
  <2> QED BY <1>6, <2>6, <2>8, <2>9, <2>10 DEF Named, RetainedVerified
<1>7. TypeInv /\ OrderInv /\ DraftInv /\ RetainedVerified /\ [Next]_vars
        => [Allowance]_vars
  BY <1>6
<1> QED BY <1>1, <1>3, <1>4, <1>5, <1>7, PTL DEF Spec, DeletedOnlyRetained

-----------------------------------------------------------------------------
(* What a reader of the index finds beside it.  The inventory names paths, *)
(* and what lies at a path may be newer than the index.  It is a receipt   *)
(* for the same bytes all the same, because a receipt command checks its   *)
(* document against the registration of the path it publishes to; and a    *)
(* finalization that began later lists every path an earlier one listed,   *)
(* because registrations stay confirmed.                                   *)

\* A local registration has no version: an upload command alone learns one.
LocalUnversioned ==
  \A k \in RegKey : reg[k] # None /\ reg[k].status = "local" => reg[k].version = 0

\* A receipt lies at the path of the registration it is for.
ReceiptPlaced ==
  \A k \in RegKey :
    receipt[k] # None => receipt[k].artifact.index = k[1] /\ receipt[k].artifact.sha = k[2]

\* What process j is about to publish fits the path it publishes to.
Bound(j) ==
  /\ j.mode = "local" => j.version = 0 /\ j.pc \notin {"copy", "put", "check", "head"}
  /\ j.pc \in {"bound", "receipt"} =>
       j.staged.artifact.index = j.index /\ j.staged.artifact.sha = j.sha
  /\ j.pc = "bound" => j.newreg \in Registration /\ j.newreg.status = "confirmed"

BindInv ==
  /\ LocalUnversioned
  /\ ReceiptPlaced
  /\ \A p \in Procs : Bound(job[p])

\* The registrations and receipts a draft refers to.
RetainedKeys(entries) ==
  {<<e.index, e.sha>> : e \in {x \in entries : x.storage = "retained"}}

\* Registration k is confirmed, unless a local one replaced it.
StaysConfirmed(k) == k \in replaced \/ k \in Confirmed(reg)

\* The draft of process j refers to confirmed registrations with receipts, and
\* its snapshot has every one the published index refers to.
Serves(j) ==
  j.pc \in HoldsSnapshot =>
    /\ RetainedKeys(j.entries) \subseteq Confirmed(j.snap)
    /\ \A k \in RetainedKeys(j.entries) : receipt[k] # None
    /\ \A k \in Confirmed(j.snap) : StaysConfirmed(k)
    /\ index # None =>
         \A k \in RetainedKeys(index.artifacts) : k \in replaced \/ k \in Confirmed(j.snap)

ServeInv ==
  /\ inventory # None => \A k \in inventory : receipt[k] # None
  /\ index # None =>
       \A k \in RetainedKeys(index.artifacts) :
         /\ receipt[k] # None
         /\ StaysConfirmed(k)
         /\ k \in replaced \/ (inventory # None /\ k \in inventory)
  /\ \A p \in Procs : Serves(job[p])

-----------------------------------------------------------------------------
\* Who changes what is published.
LEMMA PublishFrame ==
  ASSUME NEW p \in Procs, Start(p) \/ Step(p) \/ Crash(p)
  PROVE  /\ reg' # reg => PublishRegistration(p) \/ PublishBinding(p)
         /\ replaced' # replaced => PublishRegistration(p)
         /\ receipt' # receipt => PublishReceipt(p)
  BY DEF Start, Crash, Step, HashSegment, SkipUnclosed, RejectSegment, ScanDone,
       MatchRegistration, RcloneCompare, RclonePut, RcloneCheck, HeadObject,
       CheckRegistration, PublishRegistration, BindReceipt, PublishBinding,
       PublishReceipt, TakeSnapshot, AddArtifact, CollectInventory,
       PublishInventory, PublishIndex, DeleteSource

\* A registration with the version of a retained object is confirmed.
LEMMA BoundReceipt ==
  ASSUME TypeInv, SoundInv, BindInv, NEW p \in Procs, BindReceipt(p), ~Exit(p)
  PROVE  /\ job'[p].mode = job[p].mode /\ job'[p].version = job[p].version
         /\ job'[p].pc = "bound" /\ job'[p].index = job[p].index
         /\ job'[p].sha = job[p].sha /\ job'[p].staged = job[p].staged
         /\ job[p].staged.artifact.index = job[p].index
         /\ job[p].staged.artifact.sha = job[p].sha
         /\ job'[p].newreg \in Registration /\ job'[p].newreg.status = "confirmed"
<1>1. job \in [Procs -> Job] /\ job[p] \in Job /\ JobSet(job[p]) /\ job[p].pc = "bind"
  BY DEF TypeInv, TypeOK, BindReceipt
<1> DEFINE k == JobKey(p)
           r == reg[k]
           d == job[p].staged.artifact
<1>2. k \in RegKey
  BY <1>1 DEF JobKey, JobSet, RegKey, HoldsFile
<1>3. /\ r # None /\ DescriptorOf(k, r) = d
      /\ job' = [job EXCEPT ![p].pc = "bound",
                            ![p].newreg = [r EXCEPT !.receipt = job[p].staged.id]]
  BY DEF BindReceipt
<1>4. r \in Registration
  BY <1>2, <1>3 DEF TypeInv, TypeOK, Snapshot
<1>5. job[p].staged \in Receipt /\ Retained(d)
  BY <1>1 DEF SoundInv, JobSound, HoldsReceipt
<1>6. d.index = job[p].index /\ d.sha = job[p].sha /\ d.version = r.version
  BY <1>3 DEF DescriptorOf, JobKey
<1>7. r.version # 0
  BY <1>5, <1>6 DEF Retained
<1>8. r.status = "confirmed"
  BY <1>2, <1>3, <1>4, <1>7 DEF BindInv, LocalUnversioned, Registration
<1>9. [r EXCEPT !.receipt = job[p].staged.id] \in Registration
      /\ [r EXCEPT !.receipt = job[p].staged.id].status = "confirmed"
  BY <1>4, <1>5, <1>8 DEF Registration, Receipt
<1> HIDE DEF r
<1> QED BY <1>1, <1>3, <1>6, <1>9 DEF Job

\* A step of one process leaves it with what fits the path it publishes to.
LEMMA StepBound ==
  ASSUME TypeInv, SoundInv, BindInv, NEW p \in Procs, Step(p), ~Exit(p)
  PROVE  Bound(job'[p]) /\ \A q \in Procs \ {p} : job'[q] = job[q]
<1>1. job \in [Procs -> Job] /\ job[p] \in Job /\ Bound(job[p])
  BY DEF TypeInv, TypeOK, BindInv
<1>2. CASE HashSegment(p)
  <2>1. /\ job[p].pc = "scan"
        /\ \E f \in Segments, i \in Indexes :
             job' = [job EXCEPT ![p].pc = "match", ![p].todo = @ \ {f},
                               ![p].path = f, ![p].index = i, ![p].sha = file[f]]
    BY <1>2, ConstantsAssumption DEF HashSegment, Files
  <2> QED BY <1>1, <2>1 DEF Job, Bound
<1>3. CASE SkipUnclosed(p)
  <2>1. /\ job[p].pc = "scan"
        /\ \E f \in Segments : job' = [job EXCEPT ![p].todo = @ \ {f}]
    BY <1>3 DEF SkipUnclosed
  <2> QED BY <1>1, <2>1 DEF Job, Bound
<1>4. CASE RejectSegment(p)
  BY <1>4 DEF RejectSegment
<1>5. CASE ScanDone(p)
  BY <1>1, <1>5 DEF ScanDone, Job, Bound
<1>6. CASE MatchRegistration(p)
  BY <1>1, <1>6 DEF MatchRegistration, Registered, Job, Bound
<1>7. CASE RcloneCompare(p)
  BY <1>1, <1>7 DEF RcloneCompare, Job, Bound
<1>8. CASE RclonePut(p) \/ RcloneCheck(p) \/ HeadObject(p)
  BY <1>1, <1>8 DEF RclonePut, RcloneCheck, HeadObject, Job, Bound
<1>9. CASE CheckRegistration(p) \/ PublishRegistration(p)
  BY <1>1, <1>9 DEF CheckRegistration, PublishRegistration, Registered, Job, Bound
<1>10. CASE BindReceipt(p)
  <2>1. \A q \in Procs \ {p} : job'[q] = job[q]
    BY <1>1, <1>10 DEF BindReceipt
  <2>2. job[p].pc = "bind"
    BY <1>10 DEF BindReceipt
  <2> QED BY <1>1, <1>10, <2>1, <2>2, BoundReceipt DEF Bound
<1>11. CASE PublishBinding(p) \/ PublishReceipt(p)
  BY <1>1, <1>11 DEF PublishBinding, PublishReceipt, Job, Bound
<1>12. CASE TakeSnapshot(p)
  BY <1>1, <1>12 DEF TakeSnapshot, Job, Bound
<1>13. CASE AddArtifact(p)
  <2>1. job[p].pc = "add" /\ \E l, e : job' = [job EXCEPT ![p].left = l, ![p].entries = e]
    BY <1>13 DEF AddArtifact
  <2> QED BY <1>1, <2>1 DEF Job, Bound
<1>14. CASE CollectInventory(p) \/ PublishInventory(p) \/ PublishIndex(p)
  BY <1>1, <1>14 DEF CollectInventory, PublishInventory, PublishIndex, Job, Bound
<1>15. CASE DeleteSource(p)
  <2>1. job[p].pc = "delete" /\ \E l : job' = [job EXCEPT ![p].left = l]
    BY <1>15 DEF DeleteSource
  <2> QED BY <1>1, <2>1 DEF Job, Bound
<1> QED BY <1>2, <1>3, <1>4, <1>5, <1>6, <1>7, <1>8, <1>9, <1>10, <1>11, <1>12,
           <1>13, <1>14, <1>15 DEF Step

\* So does the start of a command.
LEMMA StartBound ==
  ASSUME TypeInv, NEW p \in Procs, Start(p)
  PROVE  Bound(job'[p]) /\ \A q \in Procs \ {p} : job'[q] = job[q]
<1>1. job \in [Procs -> Job]
  BY DEF TypeInv, TypeOK
<1>2. PICK m \in Modes, r \in Runs :
        \/ StartWatch(p, m, r) \/ StartSegment(p, m, r)
        \/ StartArtifact(p, m, r) \/ StartReceipt(p, m, r)
        \/ StartFinalize(p, m, r)
  BY DEF Start
<1>3. job'[p].version = 0
  <2>1. CASE StartWatch(p, m, r)
    BY <1>1, <2>1 DEF StartWatch, Idle
  <2>2. CASE StartSegment(p, m, r)
    BY <1>1, <2>2 DEF StartSegment, Idle
  <2>3. CASE StartArtifact(p, m, r)
    BY <1>1, <2>3 DEF StartArtifact, Idle
  <2>4. CASE StartReceipt(p, m, r)
    BY <1>1, <2>4 DEF StartReceipt, Idle
  <2>5. CASE StartFinalize(p, m, r)
    BY <1>1, <2>5 DEF StartFinalize, Idle
  <2> QED BY <1>2, <2>1, <2>2, <2>3, <2>4, <2>5
<1> QED BY <1>3, StartFrame DEF Bound

\* Every step keeps BindInv.
LEMMA NextBound ==
  ASSUME TypeInv, SoundInv, BindInv, [Next]_vars
  PROVE  BindInv'
<1>1. ASSUME NEW p \in Procs, Start(p) \/ Step(p) \/ Crash(p) PROVE BindInv'
  <2>0. job[p] \in Job /\ JobSet(job[p]) /\ Bound(job[p])
    BY DEF TypeInv, TypeOK, BindInv
  <2>1. \A q \in Procs : Bound(job'[q])
    <3>1. CASE Exit(p)
      <4>1. Bound(Idle)
        BY DEF Bound, Idle
      <4> QED BY <3>1, <4>1, ExitFrame DEF BindInv
    <3>2. CASE ~Exit(p)
      BY <1>1, <3>2, StepBound, StartBound DEF BindInv, Crash
    <3> QED BY <3>1, <3>2
  <2>2. LocalUnversioned'
    <3>1. CASE PublishRegistration(p)
      <4>1. reg' = [reg EXCEPT ![JobKey(p)] = NewRegistration(p)] /\ job[p].pc = "publish"
        BY <3>1 DEF PublishRegistration
      <4>2. NewRegistration(p).status = "local" => NewRegistration(p).version = 0
        BY <2>0 DEF NewRegistration, StatusOf, Bound
      <4> QED BY <4>1, <4>2 DEF BindInv, LocalUnversioned, TypeInv, TypeOK, Snapshot
    <3>2. CASE PublishBinding(p)
      <4>1. reg' = [reg EXCEPT ![JobKey(p)] = job[p].newreg]
        BY <3>2 DEF PublishBinding
      <4>2. job[p].newreg.status # "local"
        BY <2>0, <3>2 DEF PublishBinding, Bound
      <4> QED BY <4>1, <4>2 DEF BindInv, LocalUnversioned, TypeInv, TypeOK, Snapshot
    <3>3. CASE reg' = reg
      BY <3>3 DEF BindInv, LocalUnversioned
    <3> QED BY <1>1, <3>1, <3>2, <3>3, PublishFrame
  <2>3. ReceiptPlaced'
    <3>1. CASE PublishReceipt(p)
      <4>1. receipt' = [receipt EXCEPT ![JobKey(p)] = job[p].staged]
        BY <3>1 DEF PublishReceipt
      <4>2. /\ job[p].staged.artifact.index = JobKey(p)[1]
            /\ job[p].staged.artifact.sha = JobKey(p)[2]
        BY <2>0, <3>1 DEF PublishReceipt, Bound, JobKey
      <4> QED BY <4>1, <4>2 DEF BindInv, ReceiptPlaced, TypeInv, TypeOK
    <3>2. CASE receipt' = receipt
      BY <3>2 DEF BindInv, ReceiptPlaced
    <3> QED BY <1>1, <3>1, <3>2, PublishFrame
  <2> QED BY <2>1, <2>2, <2>3 DEF BindInv
<1>2. CASE UNCHANGED <<reg, receipt, job>>
  BY <1>2 DEF BindInv, LocalUnversioned, ReceiptPlaced, Bound
<1> QED BY <1>1, <1>2 DEF Next, vars, VerifyRetained, Record, Rewrite

\* Nothing is bound at the start.
LEMMA InitBound == Init => BindInv
  BY DEF Init, BindInv, LocalUnversioned, ReceiptPlaced, Bound, Idle

-----------------------------------------------------------------------------
\* What a draft or an index refers to are registrations.
LEMMA RetainedKeysTyped ==
  ASSUME NEW entries \in SUBSET Entry
  PROVE  RetainedKeys(entries) \subseteq RegKey
  BY DEF RetainedKeys, Entry, RegKey

\* No receipt disappears, and no registration stops being confirmed unless it
\* is replaced.
LEMMA Permanence ==
  ASSUME TypeInv, SoundInv, BindInv, NEW p \in Procs, Start(p) \/ Step(p) \/ Crash(p)
  PROVE  /\ \A k \in RegKey : receipt[k] # None => receipt'[k] # None
         /\ \A k \in RegKey : StaysConfirmed(k) => StaysConfirmed(k)'
         /\ replaced \subseteq replaced'
<1>1. job[p] \in Job /\ JobSet(job[p]) /\ Bound(job[p])
  BY DEF TypeInv, TypeOK, BindInv
<1>2. \A k \in RegKey : receipt[k] # None => receipt'[k] # None
  <2>1. CASE PublishReceipt(p)
    <3>1. receipt' = [receipt EXCEPT ![JobKey(p)] = job[p].staged]
      BY <2>1 DEF PublishReceipt
    <3>2. job[p].staged # None
      BY <2>1, DocumentsAssumption DEF PublishReceipt, SoundInv, JobSound, HoldsReceipt
    <3> QED BY <3>1, <3>2 DEF TypeInv, TypeOK
  <2>2. CASE receipt' = receipt
    BY <2>2
  <2> QED BY <2>1, <2>2, PublishFrame
<1>3. replaced \subseteq replaced'
  <2>1. CASE PublishRegistration(p)
    BY <2>1 DEF PublishRegistration
  <2> QED BY <2>1, PublishFrame
<1>4. ASSUME NEW k \in RegKey, StaysConfirmed(k) PROVE StaysConfirmed(k)'
  <2>1. CASE k \in replaced
    BY <1>3, <2>1 DEF StaysConfirmed
  <2>2. CASE k \in Confirmed(reg) /\ PublishRegistration(p)
    <3>1. reg' = [reg EXCEPT ![JobKey(p)] = NewRegistration(p)]
      BY <2>2 DEF PublishRegistration
    <3>2. CASE k # JobKey(p)
      BY <2>2, <3>1, <3>2 DEF StaysConfirmed, Confirmed, TypeInv, TypeOK, Snapshot
    <3>3. CASE k = JobKey(p) /\ job[p].mode = "local"
      BY <2>2, <3>3 DEF StaysConfirmed, PublishRegistration
    <3>4. CASE k = JobKey(p) /\ job[p].mode # "local"
      <4>1. reg'[k] = NewRegistration(p)
        BY <3>1, <3>4 DEF TypeInv, TypeOK, Snapshot
      <4>2. NewRegistration(p).status = "confirmed"
        BY <3>4 DEF NewRegistration, StatusOf
      <4>3. NewRegistration(p) \in Registration
        BY <1>1, <2>2 DEF PublishRegistration, NewRegistration, Registration, JobSet,
                          HoldsFile, Job, StatusOf
      <4> QED BY <4>1, <4>2, <4>3, DocumentsAssumption DEF StaysConfirmed, Confirmed
    <3> QED BY <3>2, <3>3, <3>4
  <2>3. CASE k \in Confirmed(reg) /\ PublishBinding(p)
    <3>1. reg' = [reg EXCEPT ![JobKey(p)] = job[p].newreg]
      BY <2>3 DEF PublishBinding
    <3>2. job[p].newreg \in Registration /\ job[p].newreg.status = "confirmed"
      BY <1>1, <2>3 DEF PublishBinding, Bound
    <3> QED BY <2>3, <3>1, <3>2, DocumentsAssumption
            DEF StaysConfirmed, Confirmed, TypeInv, TypeOK, Snapshot
  <2>4. CASE k \in Confirmed(reg) /\ reg' = reg
    BY <2>4 DEF StaysConfirmed, Confirmed
  <2> QED BY <1>4, <2>1, <2>2, <2>3, <2>4, PublishFrame DEF StaysConfirmed
<1> QED BY <1>2, <1>3, <1>4

\* Once a draft is complete, each upload of its snapshot has its receipt.
LEMMA ListedReceived ==
  ASSUME TypeInv, DraftInv, ServeInv, NEW p \in Procs,
         job[p].pc \in {"inventory", "index", "delete"},
         NEW k \in Confirmed(job[p].snap)
  PROVE  receipt[k] # None
<1>1. k \in RegKey /\ job[p].snap[k] # None /\ job[p].snap[k].status = "confirmed"
  BY DEF Confirmed
<1>2. Named(job[p], k)
  BY <1>1 DEF DraftInv, Drafted, HoldsSnapshot
<1>3. PICK e \in job[p].entries : e.index = k[1] /\ e.storage = "retained"
  BY <1>1, <1>2 DEF Named
<1> DEFINE l == <<e.index, e.sha>>
<1>4. l \in RetainedKeys(job[p].entries)
  BY <1>3 DEF RetainedKeys
<1>5. l \in Confirmed(job[p].snap) /\ receipt[l] # None
  BY <1>4 DEF ServeInv, Serves, HoldsSnapshot
<1>6. l \in RegKey /\ job[p].snap[l] # None /\ l[1] = k[1]
  BY <1>3, <1>5 DEF Confirmed
<1> HIDE DEF l
<1>7. l = k
  BY <1>1, <1>6 DEF DraftInv, Drafted, HoldsSnapshot
<1> QED BY <1>5, <1>7

\* A draft of one process still refers to what is there after its step.
LEMMA StepServes ==
  ASSUME OneFinalizer, TypeInv, TypeInv', OrderInv, DraftInv, SoundInv, BindInv, ServeInv,
         NEW p \in Procs, Start(p) \/ Step(p) \/ Crash(p), NEW q \in Procs
  PROVE  Serves(job[q])'
<1>1. /\ job \in [Procs -> Job] /\ job[p] \in Job /\ job[q] \in Job /\ job'[q] \in Job
      /\ JobSet(job[p]) /\ JobSet(job'[q]) /\ Serves(job[p]) /\ Serves(job[q])
  BY DEF TypeInv, TypeOK, ServeInv
<1>2. /\ \A k \in RegKey : receipt[k] # None => receipt'[k] # None
      /\ \A k \in RegKey : StaysConfirmed(k) => StaysConfirmed(k)'
      /\ replaced \subseteq replaced'
  BY Permanence
<1>3. index # None => RetainedKeys(index.artifacts) \subseteq RegKey
  BY RetainedKeysTyped DEF TypeInv, TypeOK, EvidenceIndex
<1>4. RetainedKeys(job[q].entries) \subseteq RegKey /\ Confirmed(job[q].snap) \subseteq RegKey
  BY <1>1, RetainedKeysTyped DEF Job, Confirmed
\* A draft that stays as it is, beside an index that stays or is this draft.
<1>5. ASSUME job[q].pc \in HoldsSnapshot, job'[q].snap = job[q].snap,
             job'[q].entries = job[q].entries,
             index' = index \/ (index'.artifacts = job[q].entries)
      PROVE  Serves(job[q])'
  <2>1. /\ RetainedKeys(job[q].entries) \subseteq Confirmed(job[q].snap)
        /\ \A k \in RetainedKeys(job[q].entries) : receipt[k] # None
        /\ \A k \in Confirmed(job[q].snap) : StaysConfirmed(k)
        /\ index # None =>
             \A k \in RetainedKeys(index.artifacts) :
               k \in replaced \/ k \in Confirmed(job[q].snap)
    BY <1>1, <1>5 DEF Serves
  <2>2. \A k \in RetainedKeys(job'[q].entries) : receipt'[k] # None
    BY <1>2, <1>4, <1>5, <2>1
  <2>3. \A k \in Confirmed(job'[q].snap) : StaysConfirmed(k)'
    BY <1>2, <1>4, <1>5, <2>1
  <2>4. index' # None =>
             \A k \in RetainedKeys(index'.artifacts) :
               k \in replaced' \/ k \in Confirmed(job'[q].snap)
    BY <1>2, <1>5, <2>1
  <2> QED BY <1>5, <2>1, <2>2, <2>3, <2>4 DEF Serves, RetainedKeys, Confirmed
<1>6. CASE q # p
  <2>1. job'[q] = job[q]
    <3>1. CASE Start(p)
      BY <1>6, <3>1, StartFrame
    <3>2. CASE Exit(p)
      BY <1>6, <3>2, ExitFrame
    <3>3. CASE Step(p) /\ ~Exit(p)
      BY <1>6, <3>3, StepBound
    <3> QED BY <3>1, <3>2, <3>3 DEF Crash
  <2>2. CASE job[q].pc \notin HoldsSnapshot
    BY <2>1, <2>2 DEF Serves
  <2>3. CASE job[q].pc \in HoldsSnapshot
    <3>1. ~PublishIndex(p)
      BY <1>6, <2>3, LoneDraft DEF PublishIndex, HoldsSnapshot
    <3>2. index' = index
      BY <3>1, IndexFrame
    <3> QED BY <1>5, <2>1, <2>3, <3>2
  <2> QED BY <2>2, <2>3
<1>7. CASE q = p /\ job'[p].pc \notin HoldsSnapshot
  BY <1>7 DEF Serves
<1>8. CASE q = p /\ TakeSnapshot(p) /\ ~Exit(p)
  <2>1. /\ job'[p].snap = reg /\ job'[p].entries = job[p].entries
        /\ job[p].pc = "snapshot" /\ UNCHANGED <<reg, replaced, receipt, index>>
    BY <1>1, <1>8 DEF TakeSnapshot, Job
  <2>2. job'[p].entries = {}
    BY <2>1 DEF DraftInv, Drafted, HoldsSnapshot
  <2>3. RetainedKeys(job'[p].entries) = {}
    BY <2>2 DEF RetainedKeys
  <2>4. \A k \in Confirmed(job'[p].snap) : StaysConfirmed(k)'
    BY <2>1 DEF StaysConfirmed, Confirmed
  <2>5. index' # None =>
          \A k \in RetainedKeys(index'.artifacts) :
            k \in replaced' \/ k \in Confirmed(job'[p].snap)
    BY <2>1 DEF ServeInv, StaysConfirmed
  <2> QED BY <1>8, <2>3, <2>4, <2>5 DEF Serves, Confirmed, RetainedKeys
<1>9. CASE q = p /\ AddArtifact(p) /\ ~Exit(p)
  <2>1. PICK k \in RegKey :
          /\ IsFirst(p, k)
          /\ Addable(p, k, job[p].snap[k])
          /\ job' = [job EXCEPT ![p].left = @ \ {k},
                       ![p].entries = @ \cup {EntryOf(k, job[p].snap[k])}]
    BY <1>9 DEF AddArtifact
  <2> DEFINE e == EntryOf(k, job[p].snap[k])
  <2>2. /\ job'[p].snap = job[p].snap /\ job'[p].entries = job[p].entries \cup {e}
        /\ job'[p].pc = "add" /\ job[p].pc = "add"
        /\ UNCHANGED <<reg, replaced, receipt, index>>
    BY <1>1, <1>9, <2>1 DEF AddArtifact, Job
  <2>3. job[p].snap[k] \in Registration
    BY <1>1, <2>1, <2>2 DEF IsFirst, JobSet, HoldsSnapshot, Snapshot
  <2>4. ASSUME e.storage = "retained"
        PROVE  <<e.index, e.sha>> \in Confirmed(job[p].snap) /\ receipt[<<e.index, e.sha>>] # None
    <3>1. job[p].snap[k].status = "confirmed" /\ <<e.index, e.sha>> = k
      BY <2>3, <2>4 DEF EntryOf, Registration, RegKey
    <3> QED BY <2>1, <2>3, <3>1, DocumentsAssumption DEF Addable, Confirmed
  <2> HIDE DEF e
  <2>5. \A l \in RetainedKeys(job'[p].entries) :
          l \in RetainedKeys(job[p].entries)
            \/ (e.storage = "retained" /\ l = <<e.index, e.sha>>)
    BY <2>2 DEF RetainedKeys
  <2>6. /\ RetainedKeys(job'[p].entries) \subseteq Confirmed(job'[p].snap)
        /\ \A l \in RetainedKeys(job'[p].entries) : receipt'[l] # None
    BY <1>1, <2>2, <2>4, <2>5 DEF Serves, HoldsSnapshot
  <2>7. /\ \A l \in Confirmed(job'[p].snap) : StaysConfirmed(l)'
        /\ index' # None =>
             \A l \in RetainedKeys(index'.artifacts) :
               l \in replaced' \/ l \in Confirmed(job'[p].snap)
    BY <1>1, <2>2 DEF Serves, HoldsSnapshot, StaysConfirmed, Confirmed
  <2> QED BY <1>9, <2>6, <2>7 DEF Serves, RetainedKeys, Confirmed
<1>10. CASE /\ q = p /\ ~Exit(p)
            /\ CollectInventory(p) \/ PublishInventory(p) \/ PublishIndex(p)
  <2>1. /\ job'[p].snap = job[p].snap /\ job'[p].entries = job[p].entries
        /\ job[p].pc \in HoldsSnapshot
    BY <1>1, <1>10 DEF CollectInventory, PublishInventory, PublishIndex, Job, HoldsSnapshot
  <2>2. index' = index \/ index'.artifacts = job[p].entries
    BY <1>10 DEF CollectInventory, PublishInventory, PublishIndex
  <2> QED BY <1>5, <1>10, <2>1, <2>2
<1>11. CASE q = p /\ DeleteSource(p) /\ ~Exit(p)
  <2>1. /\ job[p].pc = "delete" /\ UNCHANGED index
        /\ \E l : job' = [job EXCEPT ![p].left = l]
    BY <1>11 DEF DeleteSource
  <2>2. job'[p].snap = job[p].snap /\ job'[p].entries = job[p].entries
    BY <1>1, <2>1 DEF Job
  <2> QED BY <1>5, <1>11, <2>1, <2>2 DEF HoldsSnapshot
<1>12. CASE /\ q = p /\ job'[p].pc \in HoldsSnapshot
            /\ ~(TakeSnapshot(p) \/ AddArtifact(p) \/ CollectInventory(p)
                 \/ PublishInventory(p) \/ PublishIndex(p) \/ DeleteSource(p)) \/ Exit(p)
  <2>1. ~Exit(p)
    BY <1>12, ExitFrame DEF Idle, HoldsSnapshot
  <2>2. ~Start(p)
    BY <1>12, StartFrame DEF HoldsSnapshot
  <2> QED BY <1>12, <2>1, <2>2, EarlyStep DEF Step, Crash
<1> QED BY <1>6, <1>7, <1>8, <1>9, <1>10, <1>11, <1>12

\* A step of one process keeps ServeInv.
LEMMA StepServed ==
  ASSUME OneFinalizer, TypeInv, TypeInv', OrderInv, DraftInv, SoundInv, BindInv, ServeInv,
         NEW p \in Procs, Start(p) \/ Step(p) \/ Crash(p)
  PROVE  ServeInv'
<1>1. /\ \A k \in RegKey : receipt[k] # None => receipt'[k] # None
      /\ \A k \in RegKey : StaysConfirmed(k) => StaysConfirmed(k)'
      /\ replaced \subseteq replaced'
  BY Permanence
<1>2. /\ index # None => RetainedKeys(index.artifacts) \subseteq RegKey
      /\ inventory # None => inventory \subseteq RegKey
  BY RetainedKeysTyped DEF TypeInv, TypeOK, EvidenceIndex
<1>3. /\ Confirmed(job[p].snap) \subseteq RegKey /\ job[p] \in Job
      /\ Serves(job[p])
  BY DEF Confirmed, ServeInv, TypeInv, TypeOK
<1>4. CASE PublishInventory(p)
  <2>1. /\ inventory' = Confirmed(job[p].snap) /\ index' = index
        /\ job[p].pc = "inventory"
    BY <1>4 DEF PublishInventory
  <2>2. \A k \in inventory' : receipt'[k] # None
    BY <1>1, <1>3, <2>1, ListedReceived
  <2>3. inventory' # None
    BY <1>3, <2>1, DocumentsAssumption
  <2>4. index # None =>
          \A k \in RetainedKeys(index.artifacts) :
            k \in replaced \/ k \in Confirmed(job[p].snap)
    BY <1>3, <2>1 DEF Serves, HoldsSnapshot
  <2>5. index' # None =>
          \A k \in RetainedKeys(index'.artifacts) :
            /\ receipt'[k] # None
            /\ StaysConfirmed(k)'
            /\ k \in replaced' \/ (inventory' # None /\ k \in inventory')
    BY <1>1, <1>2, <2>1, <2>3, <2>4 DEF ServeInv
  <2> QED BY <2>2, <2>5, StepServes DEF ServeInv, RetainedKeys
<1>5. CASE PublishIndex(p)
  <2>1. /\ index'.artifacts = job[p].entries /\ inventory' = inventory
        /\ job[p].pc = "index" /\ inventory = Confirmed(job[p].snap)
    BY <1>5 DEF PublishIndex, OrderInv
  <2>2. inventory # None
    BY <1>3, <2>1, DocumentsAssumption
  <2>3. inventory' # None => \A k \in inventory' : receipt'[k] # None
    BY <1>1, <1>2, <2>1 DEF ServeInv
  <2>4. /\ RetainedKeys(job[p].entries) \subseteq Confirmed(job[p].snap)
        /\ \A k \in RetainedKeys(job[p].entries) : receipt[k] # None
        /\ \A k \in Confirmed(job[p].snap) : StaysConfirmed(k)
    BY <1>3, <2>1 DEF Serves, HoldsSnapshot
  <2>5. \A k \in RetainedKeys(index'.artifacts) :
            /\ receipt'[k] # None
            /\ StaysConfirmed(k)'
            /\ k \in replaced' \/ (inventory' # None /\ k \in inventory')
    BY <1>1, <1>3, <2>1, <2>2, <2>4
  <2> QED BY <2>3, <2>5, StepServes DEF ServeInv, RetainedKeys
<1>6. CASE ~PublishInventory(p) /\ ~PublishIndex(p)
  <2>1. inventory' = inventory /\ index' = index
    BY <1>6, OrderFrame, IndexFrame
  <2>2. inventory' # None => \A k \in inventory' : receipt'[k] # None
    BY <1>1, <1>2, <2>1 DEF ServeInv
  <2>3. index' # None =>
          \A k \in RetainedKeys(index'.artifacts) :
            /\ receipt'[k] # None
            /\ StaysConfirmed(k)'
            /\ k \in replaced' \/ (inventory' # None /\ k \in inventory')
    BY <1>1, <1>2, <2>1 DEF ServeInv
  <2> QED BY <2>2, <2>3, StepServes DEF ServeInv, RetainedKeys
<1> QED BY <1>4, <1>5, <1>6

\* Every step keeps ServeInv.
LEMMA NextServed ==
  ASSUME OneFinalizer, TypeInv, TypeInv', OrderInv, DraftInv, SoundInv, BindInv, ServeInv,
         [Next]_vars
  PROVE  ServeInv'
<1>1. CASE \E p \in Procs : Start(p) \/ Step(p) \/ Crash(p)
  BY <1>1, StepServed
<1>2. CASE UNCHANGED <<job, reg, replaced, receipt, index, inventory>>
  BY <1>2 DEF ServeInv, Serves, StaysConfirmed, Confirmed, RetainedKeys
<1> QED BY <1>1, <1>2 DEF Next, vars, VerifyRetained, Record, Rewrite

\* Nothing is published at the start.
LEMMA InitServed == Init => ServeInv
  BY DEF Init, ServeInv, Serves, Idle, HoldsSnapshot

\* Under one finalizer, for any number of uploads, receipts, rewrites and
\* killed finalizations: each retained artifact of the published index has its
\* receipt's path in the inventory beside it, and whatever receipt lies there,
\* the index's own or a later one, is for the same bytes under the same index
\* and of a version the object store holds.  A registration that a local one
\* replaced may be missing from the inventory.
THEOREM InventoryAlwaysServes == OneFinalizer => (Spec => []InventoryServes)
<1> SUFFICES ASSUME OneFinalizer PROVE Spec => []InventoryServes
  OBVIOUS
<1>1. Spec => []TypeInv
  BY InitTyped, NextTyped, PTL DEF Spec
<1>2. TypeInv /\ OrderInv /\ [Next]_vars => OrderInv'
  BY NextOrdered
<1>3. Spec => []OrderInv
  BY <1>1, <1>2, InitOrdered, PTL DEF Spec
<1>4. Spec => []DraftInv
  BY <1>1, InitDrafted, NextDrafted, PTL DEF Spec
<1>5. Spec => []SoundInv
  BY <1>1, InitSound, NextSound, PTL DEF Spec
<1>6. TypeInv /\ SoundInv /\ BindInv /\ [Next]_vars => BindInv'
  BY NextBound
<1>7. Spec => []BindInv
  BY <1>1, <1>5, <1>6, InitBound, PTL DEF Spec
<1>8. TypeInv /\ TypeInv' /\ OrderInv /\ DraftInv /\ SoundInv /\ BindInv /\ ServeInv
        /\ [Next]_vars => ServeInv'
  BY NextServed
<1>9. Spec => []ServeInv
  BY <1>1, <1>3, <1>4, <1>5, <1>7, <1>8, InitServed, PTL DEF Spec
<1>10. TypeInv /\ SoundInv /\ BindInv /\ ServeInv => InventoryServes
  <2> SUFFICES ASSUME TypeInv, SoundInv, BindInv, ServeInv PROVE InventoryServes
    OBVIOUS
  <2>1. inventory # None => \A k \in inventory : receipt[k] # None
    BY DEF ServeInv
  <2>2. ASSUME index # None, NEW e \in index.artifacts, e.storage = "retained",
               NEW k, k = <<e.index, e.sha>>
        PROVE  /\ k \in replaced \/ (inventory # None /\ k \in inventory)
               /\ receipt[k] # None
               /\ receipt[k].artifact.index = e.index
               /\ receipt[k].artifact.sha = e.sha
               /\ Retained(receipt[k].artifact)
    <3>1. k \in RetainedKeys(index.artifacts)
      BY <2>2 DEF RetainedKeys
    <3>2. k \in RegKey
      BY <2>2 DEF TypeInv, TypeOK, EvidenceIndex, Entry, RegKey
    <3>3. receipt[k] # None /\ (k \in replaced \/ (inventory # None /\ k \in inventory))
      BY <2>2, <3>1 DEF ServeInv
    <3>4. receipt[k].artifact.index = e.index /\ receipt[k].artifact.sha = e.sha
      BY <2>2, <3>2, <3>3 DEF BindInv, ReceiptPlaced
    <3>5. Retained(receipt[k].artifact)
      BY <3>2, <3>3 DEF SoundInv, ReceiptSound
    <3> QED BY <3>3, <3>4, <3>5
  <2> QED BY <2>1, <2>2 DEF InventoryServes
<1> QED BY <1>1, <1>5, <1>7, <1>9, <1>10, PTL
=============================================================================
