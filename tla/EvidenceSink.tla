----------------------------- MODULE EvidenceSink -----------------------------
(***************************************************************************)
(* The evidence sink: docker/evidence-sink/evidence-sink, with its two     *)
(* helpers receipt-inputs.py and retained-artifact.py.                     *)
(*                                                                         *)
(* Every command (watch, segment, artifact, receipt, finalize) is a        *)
(* separate operating-system process; they share nothing but files and the *)
(* versioned object store, and take no lock.  A step of a process below is *)
(* what lies between two accesses to shared state that another process can *)
(* separate.  A process may be killed between any two steps.               *)
(*                                                                         *)
(* Data is abstracted: bytes, and so their SHA-256, are members of         *)
(* Contents; all contents have the same size, the case in which no size    *)
(* comparison helps; media types, URIs and summaries are left out.  The    *)
(* state files that observe_spool maintains are disjoint from everything   *)
(* here and are the subject of module SpoolState.                          *)
(***************************************************************************)
EXTENDS Naturals, Sequences, FiniteSets

CONSTANTS
  Procs,         \* process slots in which commands are started
  Allowed,       \* Allowed[p]: the commands that slot p may run
  Modes,         \* values of EVIDENCE_MODE in use, out of "local" and "s3"
  Runs,          \* values of ROBOTICS_RUN_ID in use
  Segments,      \* paths of *.mcap files below the spool, in sort order
  Artifacts,     \* paths of the other registered files
  Indexes,       \* segment indexes
  IndexesOf,     \* IndexesOf[f]: the index in a segment's name, or the
                 \* indexes under which callers register an artifact
  Contents,      \* possible bytes of a file
  Admissible,    \* contents within the size, duration and compression policy
  DeleteConfirmed, \* EVIDENCE_DELETE_CONFIRMED_LOCAL
  MaxReceipts,   \* bound: receipts created
  MaxRewrites,   \* bound: times a file is rewritten from outside
  None

Files == Segments \cup Artifacts
Commands == {"watch", "segment", "artifact", "receipt", "finalize"}

ASSUME ConstantsAssumption ==
  /\ Files \subseteq Nat
  /\ Segments \cap Artifacts = {}
  /\ Indexes \subseteq Nat
  /\ IndexesOf \in [Files -> SUBSET Indexes]
  /\ \A f \in Files : IndexesOf[f] # {}
  /\ Allowed \in [Procs -> SUBSET Commands]
  /\ Modes \subseteq {"local", "s3"}
  /\ Admissible \subseteq Contents
  /\ DeleteConfirmed \in BOOLEAN
  /\ MaxReceipts \in Nat
  /\ MaxRewrites \in Nat

ASSUME NoneAssumption ==
  /\ None \notin Contents /\ None \notin Files
  /\ "absent" \notin Contents /\ "open" \notin Contents /\ "gone" \notin Contents

VARIABLES
  file,       \* file[f]: its bytes, or "absent" (not yet), "open" (an MCAP
              \* still being recorded) or "gone" (removed by finalize)
  reg,        \* reg[i, d]: the file ${registration_dir}/i-d.json
  remote,     \* remote[r, i, d, f]: the versions of one object key
  verified,   \* artifact-verification.v1 documents, never changed
  receipt,    \* receipt[i, d]: the file ${receipt_dir}/i-d.json
  inventory,  \* receipt-inventory.json: the keys k of the paths it lists,
              \* ${receipt_dir}/i-d.json
  index,      \* evidence-index.json
  job,        \* job[p]: the process in slot p
  receipts,   \* number of receipts created so far
  rewrites,   \* number of outside rewrites so far
  replaced    \* history: the keys under which a confirmed registration was
              \* replaced by a local one

vars == <<file, reg, remote, verified, receipt, inventory, index, job,
          receipts, rewrites, replaced>>

-----------------------------------------------------------------------------
(* The documents. *)

RegKey == Indexes \X Contents
ObjKey == Runs \X Indexes \X Contents \X Files

\* A registration.  receipt is the digest that receipt-inputs bind adds, 0
\* before that; version is 0 for a local registration.
Registration == [run : Runs, path : Files, status : {"local", "confirmed"},
                 version : Nat, receipt : Nat]

\* A descriptor names one version of one object and the digest it must have.
Descriptor == [run : Runs, index : Indexes, sha : Contents, path : Files,
               version : Nat]

\* A receipt file; id stands for its own digest (created_at makes it fresh).
Receipt == [artifact : Descriptor, id : Nat]

\* An artifact of the public index.
Entry == [index : Indexes, sha : Contents, path : Files,
          storage : {"local", "retained"}, version : Nat, receipt : Nat]

EvidenceIndex == [run : Runs, artifacts : SUBSET Entry]

ASSUME DocumentsAssumption ==
  /\ None \notin Registration /\ None \notin EvidenceIndex
  /\ None \notin Receipt /\ \A keys \in SUBSET RegKey : keys # None

DescriptorOf(k, r) ==
  [run |-> r.run, index |-> k[1], sha |-> k[2], path |-> r.path,
   version |-> r.version]

\* Version v of the object that d names exists and holds the bytes d claims.
Retained(d) ==
  LET key == <<d.run, d.index, d.sha, d.path>>
  IN  d.version \in 1..Len(remote[key]) /\ remote[key][d.version] = d.sha

\* The confirmed ones of a directory of registrations.
Confirmed(snap) == {k \in RegKey : snap[k] # None /\ snap[k].status = "confirmed"}

-----------------------------------------------------------------------------
(* A process: its program counter, its environment and its shell variables;
   due is a history of what finalize first listed, for NoSegmentLeftOut.    *)

Idle == [pc |-> "idle", cmd |-> None, mode |-> None, run |-> None,
         todo |-> {}, strict |-> FALSE, path |-> None, index |-> None,
         sha |-> None, version |-> 0, staged |-> None, newreg |-> None,
         snap |-> None, left |-> {}, entries |-> {}, due |-> {}]

Exit(p) == job' = [job EXCEPT ![p] = Idle]

\* One file is registered; the command goes on to the next one.
Registered(p) ==
  job' = [job EXCEPT ![p].pc = "scan", ![p].path = None, ![p].index = None,
                     ![p].sha = None, ![p].version = 0]

\* Present MCAP files, as find lists them.
Listing == {f \in Segments : file[f] \in Contents \cup {"open"}}

JobKey(p) == <<job[p].index, job[p].sha>>
JobObject(p) == <<job[p].run, job[p].index, job[p].sha, job[p].path>>

StatusOf(mode) == IF mode = "local" THEN "local" ELSE "confirmed"

\* registration_matches_selected, on a registration that exists.
Matches(p, r) ==
  /\ r.run = job[p].run
  /\ r.path = job[p].path
  /\ r.status = StatusOf(job[p].mode)

\* The registration write_registration produces.
NewRegistration(p) ==
  [run |-> job[p].run, path |-> job[p].path, status |-> StatusOf(job[p].mode),
   version |-> job[p].version, receipt |-> 0]

-----------------------------------------------------------------------------
(* Starting a command: the dispatch at the end of the script. *)

StartWatch(p, m, r) ==
  /\ job' = [job EXCEPT ![p] = [Idle EXCEPT !.pc = "scan", !.cmd = "watch",
                                !.mode = m, !.run = r, !.todo = Listing]]
  /\ UNCHANGED receipts

StartSegment(p, m, r) ==
  /\ \E f \in Listing :
       job' = [job EXCEPT ![p] = [Idle EXCEPT !.pc = "scan", !.cmd = "segment",
                                  !.mode = m, !.run = r, !.todo = {f}]]
  /\ UNCHANGED receipts

\* register_artifact up to its digest; in local mode write_registration alone
\* looks for an earlier registration.
StartArtifact(p, m, r) ==
  /\ \E f \in Artifacts : \E i \in IndexesOf[f] :
       /\ file[f] \in Contents
       /\ job' = [job EXCEPT ![p] =
                    [Idle EXCEPT !.pc = IF m = "local" THEN "write" ELSE "match",
                                 !.cmd = "artifact", !.mode = m, !.run = r,
                                 !.path = f, !.index = i, !.sha = file[f]]]
  /\ UNCHANGED receipts

\* register_receipt up to the staged receipt.  The caller supplies the source
\* and a verification document; contracts refuses a verification of other
\* bytes than the source holds.
StartReceipt(p, m, r) ==
  /\ receipts < MaxReceipts
  /\ \E d \in verified : \E f \in Files : \E i \in IndexesOf[f] :
       /\ file[f] = d.sha
       /\ reg[<<i, file[f]>>] # None
       /\ reg[<<i, file[f]>>].run = r
       /\ reg[<<i, file[f]>>].status = "confirmed"
       /\ job' = [job EXCEPT ![p] =
                    [Idle EXCEPT !.pc = "bind", !.cmd = "receipt", !.mode = m,
                                 !.run = r, !.path = f, !.index = i,
                                 !.sha = file[f],
                                 !.staged = [artifact |-> d, id |-> receipts + 1]]]
  /\ receipts' = receipts + 1

StartFinalize(p, m, r) ==
  /\ job' = [job EXCEPT ![p] = [Idle EXCEPT !.pc = "scan", !.cmd = "finalize",
                                !.mode = m, !.run = r, !.todo = Listing,
                                !.due = Listing]]
  /\ UNCHANGED receipts

Start(p) ==
  /\ job[p].pc = "idle"
  /\ \E m \in Modes, r \in Runs :
       \/ "watch" \in Allowed[p] /\ StartWatch(p, m, r)
       \/ "segment" \in Allowed[p] /\ StartSegment(p, m, r)
       \/ "artifact" \in Allowed[p] /\ StartArtifact(p, m, r)
       \/ "receipt" \in Allowed[p] /\ StartReceipt(p, m, r)
       \/ "finalize" \in Allowed[p] /\ StartFinalize(p, m, r)
  /\ UNCHANGED <<file, reg, remote, verified, receipt, inventory, index,
                 rewrites, replaced>>
-----------------------------------------------------------------------------
(* scan_segments and process_segment. *)

\* The file the scan reaches next; find's output is sorted.
IsNext(p, f) == f \in job[p].todo /\ \A g \in job[p].todo : f <= g

\* A segment that mcap doctor accepts and the policy admits is hashed.
HashSegment(p) ==
  /\ job[p].pc = "scan"
  /\ \E f \in Segments : \E i \in IndexesOf[f] :
       /\ IsNext(p, f)
       /\ file[f] \in Admissible
       /\ job' = [job EXCEPT ![p].pc = "match", ![p].todo = @ \ {f},
                             ![p].path = f, ![p].index = i, ![p].sha = file[f]]
  /\ UNCHANGED <<file, reg, remote, verified, receipt, inventory, index,
                 receipts, rewrites, replaced>>

\* Mutant: the strict pass of finalize skips unclosed segments too.
SkipUnclosedAlways(p) ==
  /\ job[p].pc = "scan"
  /\ \E f \in Segments :
       /\ IsNext(p, f)
       /\ file[f] = "open"
       /\ job' = [job EXCEPT ![p].todo = @ \ {f}]
  /\ UNCHANGED <<file, reg, remote, verified, receipt, inventory, index,
                 receipts, rewrites, replaced>>

\* Status 75: an unclosed segment is skipped by a scan, and ends any other
\* caller of process_segment.
SkipUnclosed(p) ==
  /\ job[p].pc = "scan"
  /\ \E f \in Segments :
       /\ IsNext(p, f)
       /\ file[f] = "open"
       /\ IF job[p].cmd \in {"watch", "finalize"} /\ ~job[p].strict
            THEN job' = [job EXCEPT ![p].todo = @ \ {f}]
            ELSE Exit(p)
  /\ UNCHANGED <<file, reg, remote, verified, receipt, inventory, index,
                 receipts, rewrites, replaced>>

\* A segment that vanished since it was listed, or breaks the policy, ends
\* the whole command.
RejectSegment(p) ==
  /\ job[p].pc = "scan"
  /\ \E f \in Segments :
       IsNext(p, f) /\ file[f] \notin Admissible \cup {"open"}
  /\ Exit(p)
  /\ UNCHANGED <<file, reg, remote, verified, receipt, inventory, index,
                 receipts, rewrites, replaced>>

\* Mutant: watch lists the spool only once.
ScanOnce(p) ==
  /\ job[p].pc = "scan"
  /\ job[p].todo = {}
  /\ job[p].cmd = "watch"
  /\ UNCHANGED vars

\* The list is done: watch waits and lists again, finalize lists again for its
\* strict pass and then goes on to its snapshot, segment and artifact succeed.
ScanDone(p) ==
  /\ job[p].pc = "scan"
  /\ job[p].todo = {}
  /\ \/ job[p].cmd = "watch" /\ job' = [job EXCEPT ![p].todo = Listing]
     \/ /\ job[p].cmd = "finalize" /\ ~job[p].strict
        /\ job' = [job EXCEPT ![p].todo = Listing, ![p].strict = TRUE]
     \/ /\ job[p].cmd = "finalize" /\ job[p].strict
        /\ job' = [job EXCEPT ![p].pc = "snapshot"]
     \/ job[p].cmd \in {"segment", "artifact"} /\ Exit(p)
  /\ UNCHANGED <<file, reg, remote, verified, receipt, inventory, index,
                 receipts, rewrites, replaced>>

\* registration_matches_selected before an upload: an equal registration is
\* reused, a different one under the same name ends the command.
MatchRegistration(p) ==
  /\ job[p].pc = "match"
  /\ LET r == reg[JobKey(p)]
     IN  \/ r = None /\ job' = [job EXCEPT ![p].pc =
                                  IF job[p].mode = "local" THEN "write" ELSE "copy"]
         \/ r # None /\ Matches(p, r) /\ Registered(p)
         \/ r # None /\ ~Matches(p, r) /\ Exit(p)
  /\ UNCHANGED <<file, reg, remote, verified, receipt, inventory, index,
                 receipts, rewrites, replaced>>

-----------------------------------------------------------------------------
(* upload_artifact. *)

Latest(k) == remote[k][Len(remote[k])]

\* rclone copy --immutable --checksum compares source and destination: an
\* absent object is uploaded, an equal one left alone, a different one refused.
RcloneCompare(p) ==
  /\ job[p].pc = "copy"
  /\ LET k == JobObject(p)
     IN  \/ /\ remote[k] = <<>> /\ file[job[p].path] \in Contents
            /\ job' = [job EXCEPT ![p].pc = "put"]
         \/ /\ remote[k] # <<>> /\ Latest(k) = file[job[p].path]
            /\ job' = [job EXCEPT ![p].pc = "check"]
         \/ /\ \/ remote[k] # <<>> /\ Latest(k) # file[job[p].path]
               \/ file[job[p].path] \notin Contents
            /\ Exit(p)
  /\ UNCHANGED <<file, reg, remote, verified, receipt, inventory, index,
                 receipts, rewrites, replaced>>

\* ... and uploads whatever the file holds by then, as one more version.
RclonePut(p) ==
  /\ job[p].pc = "put"
  /\ IF file[job[p].path] \in Contents
       THEN /\ remote' = [remote EXCEPT ![JobObject(p)] =
                                          Append(@, file[job[p].path])]
            /\ job' = [job EXCEPT ![p].pc = "check"]
       ELSE Exit(p) /\ UNCHANGED remote
  /\ UNCHANGED <<file, reg, verified, receipt, inventory, index, receipts,
                 rewrites, replaced>>

\* rclone check compares the latest version with the file.
RcloneCheck(p) ==
  /\ job[p].pc = "check"
  /\ IF Latest(JobObject(p)) = file[job[p].path]
       THEN job' = [job EXCEPT ![p].pc = "head"]
       ELSE Exit(p)
  /\ UNCHANGED <<file, reg, remote, verified, receipt, inventory, index,
                 receipts, rewrites, replaced>>

\* head-object names the latest version.  Its sha256 metadata is what the
\* uploader claimed under this key, so that comparison always agrees.
HeadObject(p) ==
  /\ job[p].pc = "head"
  /\ job' = [job EXCEPT ![p].pc = "write", ![p].version = Len(remote[JobObject(p)])]
  /\ UNCHANGED <<file, reg, remote, verified, receipt, inventory, index,
                 receipts, rewrites, replaced>>

-----------------------------------------------------------------------------
(* write_registration: it looks before it publishes, without a lock. *)

SameIndex(i) == {k \in RegKey : k[1] = i /\ reg[k] # None}

CheckRegistration(p) ==
  /\ job[p].pc = "write"
  /\ LET r == reg[JobKey(p)]
     IN  \/ r # None /\ Matches(p, r) /\ Registered(p)
         \/ /\ SameIndex(job[p].index) = {}
            /\ job' = [job EXCEPT ![p].pc = "publish"]
         \/ /\ SameIndex(job[p].index) # {}
            /\ ~(r # None /\ Matches(p, r))
            /\ Exit(p)
  /\ UNCHANGED <<file, reg, remote, verified, receipt, inventory, index,
                 receipts, rewrites, replaced>>

PublishRegistration(p) ==
  /\ job[p].pc = "publish"
  /\ reg' = [reg EXCEPT ![JobKey(p)] = NewRegistration(p)]
  /\ replaced' = IF JobKey(p) \in Confirmed(reg) /\ job[p].mode = "local"
                   THEN replaced \cup {JobKey(p)} ELSE replaced
  /\ Registered(p)
  /\ UNCHANGED <<file, remote, verified, receipt, inventory, index, receipts,
                 rewrites>>

-----------------------------------------------------------------------------
(* Verification and receipts. *)

\* Mutant: the verification trusts the upload and downloads nothing.
VerifyWithoutDownload(k) ==
  /\ reg[k] # None
  /\ reg[k].status = "confirmed"
  /\ verified' = verified \cup {DescriptorOf(k, reg[k])}
  /\ UNCHANGED <<file, reg, remote, receipt, inventory, index, job, receipts,
                 rewrites, replaced>>

\* retained-artifact verify: downloads exactly the registered version and
\* compares its bytes with the registered digest.  The signature over the same
\* descriptor is taken to be there.
VerifyRetained(k) ==
  /\ reg[k] # None
  /\ reg[k].status = "confirmed"
  /\ Retained(DescriptorOf(k, reg[k]))
  /\ verified' = verified \cup {DescriptorOf(k, reg[k])}
  /\ UNCHANGED <<file, reg, remote, receipt, inventory, index, job, receipts,
                 rewrites, replaced>>

\* receipt_matches_registration, then receipt-inputs bind, on the registration
\* as it is now.
BindReceipt(p) ==
  /\ job[p].pc = "bind"
  /\ LET r == reg[JobKey(p)]
     IN  IF r # None /\ DescriptorOf(JobKey(p), r) = job[p].staged.artifact
           THEN job' = [job EXCEPT ![p].pc = "bound", ![p].newreg =
                          [r EXCEPT !.receipt = job[p].staged.id]]
           ELSE Exit(p)
  /\ UNCHANGED <<file, reg, remote, verified, receipt, inventory, index,
                 receipts, rewrites, replaced>>

\* The registration is replaced first, the receipt published second.
PublishBinding(p) ==
  /\ job[p].pc = "bound"
  /\ reg' = [reg EXCEPT ![JobKey(p)] = job[p].newreg]
  /\ job' = [job EXCEPT ![p].pc = "receipt"]
  /\ UNCHANGED <<file, remote, verified, receipt, inventory, index, receipts,
                 rewrites, replaced>>

PublishReceipt(p) ==
  /\ job[p].pc = "receipt"
  /\ receipt' = [receipt EXCEPT ![JobKey(p)] = job[p].staged]
  /\ Exit(p)
  /\ UNCHANGED <<file, reg, remote, verified, inventory, index, receipts,
                 rewrites, replaced>>
-----------------------------------------------------------------------------
(* finalize_index, after its two scans. *)

\* Mutant: no test for two registrations with one segment_index.
SnapshotUnchecked(p) ==
  /\ job[p].pc = "snapshot"
  /\ LET keys == {k \in RegKey : reg[k] # None}
     IN  IF keys # {}
           THEN job' = [job EXCEPT ![p].pc = "add", ![p].snap = reg,
                                   ![p].left = keys]
           ELSE Exit(p)
  /\ UNCHANGED <<file, reg, remote, verified, receipt, inventory, index,
                 receipts, rewrites, replaced>>

\* The registrations are read once, into registrations.jsonl; none, or two
\* with one segment_index, end the command.
TakeSnapshot(p) ==
  /\ job[p].pc = "snapshot"
  /\ LET keys == {k \in RegKey : reg[k] # None}
     IN  IF keys # {} /\ \A k, l \in keys : k[1] = l[1] => k = l
           THEN job' = [job EXCEPT ![p].pc = "add", ![p].snap = reg,
                                   ![p].left = keys]
           ELSE Exit(p)
  /\ UNCHANGED <<file, reg, remote, verified, receipt, inventory, index,
                 receipts, rewrites, replaced>>

IsFirst(p, k) == k \in job[p].left /\ \A l \in job[p].left : k[1] <= l[1]

\* What add_registered_artifact requires of registration r before it adds it:
\* this run, the registered bytes still at the source and, for an upload, S3
\* mode and a receipt for exactly that upload.
Addable(p, k, r) ==
  /\ r.run = job[p].run
  /\ file[r.path] = k[2]
  /\ r.status = "confirmed" =>
       /\ job[p].mode = "s3"
       /\ receipt[k] # None
       /\ receipt[k].artifact = DescriptorOf(k, r)

EntryOf(k, r) ==
  [index |-> k[1], sha |-> k[2], path |-> r.path,
   storage |-> IF r.status = "local" THEN "local" ELSE "retained",
   version |-> r.version,
   receipt |-> IF r.status = "local" THEN 0 ELSE receipt[k].id]

AddArtifact(p) ==
  /\ job[p].pc = "add"
  /\ \E k \in RegKey :
       /\ IsFirst(p, k)
       /\ LET r == job[p].snap[k]
          IN  IF Addable(p, k, r)
                THEN job' = [job EXCEPT ![p].left = @ \ {k},
                                        ![p].entries = @ \cup {EntryOf(k, r)}]
                ELSE Exit(p)
  /\ UNCHANGED <<file, reg, remote, verified, receipt, inventory, index,
                 receipts, rewrites, replaced>>

ReceiptsOf(entries) == {e.receipt : e \in {x \in entries : x.storage = "retained"}}

\* Mutant: the index is published before the inventory.
CollectIndexFirst(p) ==
  /\ job[p].pc = "add"
  /\ job[p].left = {}
  /\ job' = [job EXCEPT ![p].pc = "index"]
  /\ UNCHANGED <<file, reg, remote, verified, receipt, inventory, index,
                 receipts, rewrites, replaced>>

\* receipt-inputs inventory: the receipts on disk are still the registered
\* ones, and exactly those the new index names.  Their paths are written down.
CollectInventory(p) ==
  /\ job[p].pc = "add"
  /\ job[p].left = {}
  /\ LET snap == job[p].snap
         expected == ReceiptsOf(job[p].entries)
     IN  IF /\ \A k \in Confirmed(snap) : /\ receipt[k].id = snap[k].receipt
                                          /\ receipt[k].id \in expected
            /\ {snap[k].receipt : k \in Confirmed(snap)} = expected
           THEN job' = [job EXCEPT ![p].pc = "inventory"]
           ELSE Exit(p)
  /\ UNCHANGED <<file, reg, remote, verified, receipt, inventory, index,
                 receipts, rewrites, replaced>>

\* Mutant: confirmed sources are removed before the index is published.
DeleteBeforeIndex(p) ==
  /\ job[p].pc = "inventory"
  /\ inventory' = Confirmed(job[p].snap)
  /\ job' = [job EXCEPT ![p].pc = "delete", ![p].left = Confirmed(job[p].snap)]
  /\ UNCHANGED <<file, reg, remote, verified, receipt, index, receipts,
                 rewrites, replaced>>

PublishInventory(p) ==
  /\ job[p].pc = "inventory"
  /\ inventory' = Confirmed(job[p].snap)
  /\ job' = [job EXCEPT ![p].pc = "index"]
  /\ UNCHANGED <<file, reg, remote, verified, receipt, index, receipts,
                 rewrites, replaced>>

PublishIndex(p) ==
  /\ job[p].pc = "index"
  /\ index' = [run |-> job[p].run, artifacts |-> job[p].entries]
  /\ IF DeleteConfirmed
       THEN job' = [job EXCEPT ![p].pc = "delete",
                               ![p].left = Confirmed(job[p].snap)]
       ELSE Exit(p)
  /\ UNCHANGED <<file, reg, remote, verified, receipt, inventory, receipts,
                 rewrites, replaced>>

\* rm of each confirmed source, in index order; a missing file ends it.
DeleteSource(p) ==
  /\ job[p].pc = "delete"
  /\ \/ job[p].left = {} /\ Exit(p) /\ UNCHANGED file
     \/ \E k \in RegKey :
          /\ IsFirst(p, k)
          /\ LET f == job[p].snap[k].path
             IN  IF file[f] \in Contents
                   THEN /\ file' = [file EXCEPT ![f] = "gone"]
                        /\ job' = [job EXCEPT ![p].left = @ \ {k}]
                   ELSE Exit(p) /\ UNCHANGED file
  /\ UNCHANGED <<reg, remote, verified, receipt, inventory, index, receipts,
                 rewrites, replaced>>

-----------------------------------------------------------------------------
(* The environment: the recorder, outside writers, crashes. *)

\* The recorder opens a segment and later closes it with some bytes.
Record(f) ==
  /\ \/ file[f] = "absent" /\ file' = [file EXCEPT ![f] = "open"]
     \/ file[f] = "open" /\ \E c \in Contents : file' = [file EXCEPT ![f] = c]
  /\ UNCHANGED <<reg, remote, verified, receipt, inventory, index, job,
                 receipts, rewrites, replaced>>

\* A finished file is rewritten, or a removed one restored, from outside.
Rewrite(f) ==
  /\ rewrites < MaxRewrites
  /\ file[f] \in Contents \cup {"gone"}
  /\ \E c \in Contents \ {file[f]} : file' = [file EXCEPT ![f] = c]
  /\ rewrites' = rewrites + 1
  /\ UNCHANGED <<reg, remote, verified, receipt, inventory, index, job,
                 receipts, replaced>>

\* The process is killed.  What it published stays.
Crash(p) ==
  /\ job[p].pc # "idle"
  /\ Exit(p)
  /\ UNCHANGED <<file, reg, remote, verified, receipt, inventory, index,
                 receipts, rewrites, replaced>>

-----------------------------------------------------------------------------
Init ==
  /\ file \in [Files -> Contents \cup {"absent"}]
  /\ \A f \in Files : file[f] = "absent" <=> f \in Segments
  /\ reg = [k \in RegKey |-> None]
  /\ remote = [k \in ObjKey |-> <<>>]
  /\ verified = {}
  /\ receipt = [k \in RegKey |-> None]
  /\ inventory = None
  /\ index = None
  /\ job = [p \in Procs |-> Idle]
  /\ receipts = 0
  /\ rewrites = 0
  /\ replaced = {}

Step(p) ==
  \/ HashSegment(p) \/ SkipUnclosed(p) \/ RejectSegment(p) \/ ScanDone(p)
  \/ MatchRegistration(p)
  \/ RcloneCompare(p) \/ RclonePut(p) \/ RcloneCheck(p) \/ HeadObject(p)
  \/ CheckRegistration(p) \/ PublishRegistration(p)
  \/ BindReceipt(p) \/ PublishBinding(p) \/ PublishReceipt(p)
  \/ TakeSnapshot(p) \/ AddArtifact(p) \/ CollectInventory(p)
  \/ PublishInventory(p) \/ PublishIndex(p) \/ DeleteSource(p)

Next ==
  \/ \E p \in Procs : Start(p) \/ Step(p) \/ Crash(p)
  \/ \E k \in RegKey : VerifyRetained(k)
  \/ \E f \in Segments : Record(f)
  \/ \E f \in Files : Rewrite(f)

Spec == Init /\ [][Next]_vars

\* A watch process that is not killed keeps scanning: inotifywait returns at
\* least every EVIDENCE_RESCAN_INTERVAL_SEC.
FairSpec == Spec /\ \A p \in Procs : WF_vars(Step(p))

-----------------------------------------------------------------------------
(* Properties. *)

Phases == {"idle", "scan", "match", "copy", "put", "check", "head", "write",
           "publish", "bind", "bound", "receipt", "snapshot", "add",
           "inventory", "index", "delete"}

Snapshot == [RegKey -> Registration \cup {None}]

Job == [pc : Phases, cmd : Commands \cup {None},
        mode : {"local", "s3", None}, run : Runs \cup {None},
        todo : SUBSET Files, strict : BOOLEAN, path : Files \cup {None},
        index : Indexes \cup {None}, sha : Contents \cup {None},
        version : Nat, staged : Receipt \cup {None},
        newreg : Registration \cup {None}, snap : Snapshot \cup {None},
        left : SUBSET RegKey, entries : SUBSET Entry, due : SUBSET Files]

\* Every variable holds a document of its kind.
TypeOK ==
  /\ file \in [Files -> Contents \cup {"absent", "open", "gone"}]
  /\ reg \in Snapshot
  /\ remote \in [ObjKey -> Seq(Contents)]
  /\ verified \subseteq Descriptor
  /\ receipt \in [RegKey -> Receipt \cup {None}]
  /\ inventory \in (SUBSET RegKey) \cup {None}
  /\ index \in EvidenceIndex \cup {None}
  /\ job \in [Procs -> Job]
  /\ receipts \in Nat
  /\ rewrites \in Nat
  /\ replaced \subseteq RegKey

\* The published index names each segment index once, although two racing
\* write_registration calls can leave two registrations for one index.
UniqueIndexes ==
  index # None =>
    \A e1, e2 \in index.artifacts : e1.index = e2.index => e1 = e2

EntryDescriptor(run, e) ==
  [run |-> run, index |-> e.index, sha |-> e.sha, path |-> e.path,
   version |-> e.version]

\* Every artifact the index calls retained has, in the object version the index
\* names, the bytes of the digest the index names: for this run, whatever was
\* rewritten during an upload and whichever upload won a race.
RetainedVerified ==
  index # None =>
    \A e \in index.artifacts :
      e.storage = "retained" => Retained(EntryDescriptor(index.run, e))

\* Whoever finds an index finds the receipts of its retained artifacts through
\* the inventory beside it, also when a finalization was killed between the two
\* and the inventory is the newer one, and whatever is received meanwhile: each
\* one's path is listed, and there lies a receipt for these bytes under this
\* index, of a version that is retained.  (It may be a later one than the index
\* names by digest.)  The exception is a registration that was replaced by a
\* local one in a race of two modes.
InventoryServes ==
  /\ inventory # None => \A k \in inventory : receipt[k] # None
  /\ index # None =>
       \A e \in index.artifacts :
         e.storage = "retained" =>
           LET k == <<e.index, e.sha>>
           IN  /\ k \in replaced \/ (inventory # None /\ k \in inventory)
               /\ receipt[k] # None
               /\ receipt[k].artifact.index = e.index
               /\ receipt[k].artifact.sha = e.sha
               /\ Retained(receipt[k].artifact)

\* A local source disappears only when the published index already names it as
\* retained and the object store holds the registered bytes.
DeletedOnlyRetained ==
  [][\A f \in Files :
       file[f] \in Contents /\ file'[f] = "gone" =>
         /\ index # None
         /\ \E e \in index.artifacts :
              /\ e.path = f
              /\ e.storage = "retained"
              /\ Retained(EntryDescriptor(index.run, e))]_vars

\* A finalization publishes no index that leaves out the index of a segment
\* that was in the spool when it began, closed or not.
NoSegmentLeftOut ==
  \A p \in Procs :
    job[p].pc = "index" =>
      \A f \in job[p].due : \E e \in job[p].entries : e.index \in IndexesOf[f]

\* A closed, admissible segment is registered under its index in the end, unless
\* every watch process stops; an unclosed one before it does not hold it up.
WatchRegisters ==
  \A p \in Procs, f \in Segments :
    job[p].cmd = "watch" /\ file[f] \in Admissible
      ~> \/ \E i \in IndexesOf[f] : SameIndex(i) # {}
         \/ job[p].cmd # "watch"
=============================================================================
