------------------------------ MODULE SpoolState ------------------------------
(***************************************************************************)
(* The two high-water marks of the evidence sink: observe_spool and        *)
(* update_max_state in docker/evidence-sink/evidence-sink.  Each is a file *)
(* that any scanning process reads, compares and replaces, with no lock.   *)
(***************************************************************************)
EXTENDS Integers, FiniteSets, FiniteSetsExt

CONSTANTS
  Procs,     \* processes that scan: watch, and finalize
  Files,     \* MCAP files of the spool
  Sizes,     \* sizes a file may have
  MaxTime,   \* bound: the wall clock in whole seconds
  S3         \* whether EVIDENCE_MODE is s3; only then is the lag observed

Marks == {"upload-lag-max-sec", "spool-peak-size-bytes"}

VARIABLES
  now,      \* the wall clock
  mtime,    \* mtime[f], or -1 while f does not exist
  size,     \* size[f]
  mark,     \* the state files
  largest,  \* history: the largest value a state file has ever held
  scan      \* scan[p]: the shell variables of a scanning process

vars == <<now, mtime, size, mark, largest, scan>>

Idle == [pc |-> "idle", now |-> 0, todo |-> {}, total |-> 0,
         name |-> "spool-peak-size-bytes", candidate |-> 0]

Init ==
  /\ now = 0
  /\ mtime = [f \in Files |-> -1]
  /\ size = [f \in Files |-> 0]
  /\ mark = [n \in Marks |-> 0]
  /\ largest = [n \in Marks |-> 0]
  /\ scan = [p \in Procs |-> Idle]

\* The clock advances; the recorder writes a file.
Tick ==
  /\ now < MaxTime
  /\ now' = now + 1
  /\ UNCHANGED <<mtime, size, mark, largest, scan>>

Write(f) ==
  /\ \E s \in Sizes : size' = [size EXCEPT ![f] = s]
  /\ mtime' = [mtime EXCEPT ![f] = now]
  /\ UNCHANGED <<now, mark, largest, scan>>

\* observe_spool reads the clock once, then lists the files.
Begin(p) ==
  /\ scan[p].pc = "idle"
  /\ scan' = [scan EXCEPT ![p] = [Idle EXCEPT !.pc = "observe", !.now = now,
                                  !.todo = {f \in Files : mtime[f] >= 0}]]
  /\ UNCHANGED <<now, mtime, size, mark, largest>>

\* The age of a file that was written after the clock was read is zero.
Age(p, f) == Max({scan[p].now - mtime[f], 0})

\* update_max_state goes on to replace the file.
Compares(n, candidate) == candidate > mark[n]

\* Adds the size of the next file and, for S3, compares its age with the mark.
Observe(p) ==
  /\ scan[p].pc = "observe"
  /\ \E f \in scan[p].todo :
       scan' = [scan EXCEPT ![p].todo = @ \ {f},
                            ![p].total = @ + size[f],
                            ![p].name = "upload-lag-max-sec",
                            ![p].candidate = Age(p, f),
                            ![p].pc = IF S3 /\ Compares("upload-lag-max-sec", Age(p, f))
                                        THEN "replace" ELSE "observe"]
  /\ UNCHANGED <<now, mtime, size, mark, largest>>

\* The total size is compared after the last file.
ObserveTotal(p) ==
  /\ scan[p].pc = "observe"
  /\ scan[p].todo = {}
  /\ IF Compares("spool-peak-size-bytes", scan[p].total)
       THEN scan' = [scan EXCEPT ![p].name = "spool-peak-size-bytes",
                                 ![p].candidate = scan[p].total,
                                 ![p].pc = "finish"]
       ELSE scan' = [scan EXCEPT ![p] = Idle]
  /\ UNCHANGED <<now, mtime, size, mark, largest>>

\* mv of the temporary file over the mark.
Replace(p) ==
  /\ scan[p].pc \in {"replace", "finish"}
  /\ mark' = [mark EXCEPT ![scan[p].name] = scan[p].candidate]
  /\ largest' = [largest EXCEPT ![scan[p].name] = Max({@, scan[p].candidate})]
  /\ scan' = [scan EXCEPT ![p] = IF scan[p].pc = "finish" THEN Idle
                                 ELSE [@ EXCEPT !.pc = "observe"]]
  /\ UNCHANGED <<now, mtime, size>>

\* The process is killed.
Crash(p) ==
  /\ scan[p].pc # "idle"
  /\ scan' = [scan EXCEPT ![p] = Idle]
  /\ UNCHANGED <<now, mtime, size, mark, largest>>

Next ==
  \/ Tick
  \/ \E f \in Files : Write(f)
  \/ \E p \in Procs : Begin(p) \/ Observe(p) \/ ObserveTotal(p) \/ Replace(p) \/ Crash(p)

Spec == Init /\ [][Next]_vars

-----------------------------------------------------------------------------
\* The state files hold the largest value a scan has ever put into them: the
\* "largest whole-second age of any MCAP spool file observed during a sink
\* scan" and the peak size of the spool.
LargestKept == mark = largest
=============================================================================
