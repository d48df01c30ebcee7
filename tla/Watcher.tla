------------------------------- MODULE Watcher -------------------------------
(***************************************************************************)
(* watcher/loop.go: one process that scans the chain in windows of blocks, *)
(* Lag blocks behind the head, posts what it finds to /internal/events and *)
(* keeps its progress in a state file.  It may crash at any point; a POST  *)
(* it gave up on may still be committed by the API later.                  *)
(***************************************************************************)
EXTENDS Intake

CONSTANTS
  MaxBlocks,   \* MAX_BLOCKS, the blocks of one eth_getLogs call
  MaxBatch,    \* the events of one POST
  MaxLate,     \* bound: POSTs given up on and still in progress
  NoFile       \* there is no state file yet

ASSUME WindowAssumption ==
  /\ MaxBlocks \in Nat \ {0} /\ MaxBatch \in Nat \ {0} /\ MaxLate \in Nat
  /\ NoFile \notin Nat

VARIABLES
  file,    \* the state file's last_block
  watch,   \* the process: its own last, the poll's target, the open window
  late,    \* batches of POSTs the process gave up on, not yet committed
  since    \* history: the height the very first start began at

watchVars == <<file, watch, late, since>>

\* A transfer as eth_getLogs showed it.
Transfer == [log : Logs, block : Nat, fork : Nat]

Down == [pc |-> "down", last |-> 0, target |-> 0, to |-> 0, found |-> {}]

\* Between two ticks only last is kept.
Resting(last) == [Down EXCEPT !.pc = "idle", !.last = last]

WatchTypeOK ==
  /\ file \in Nat \cup {NoFile}
  /\ watch \in [pc : {"down", "idle", "scan", "post"}, last : Nat, target : Nat,
                to : Nat, found : SUBSET Transfer]
  /\ late \subseteq SUBSET Transfer
  /\ since \in Nat

WatchInit == file = NoFile /\ watch = Down /\ late = {} /\ since = 0

\* No state file: begin at the head, and save it before anything else.
FirstStart ==
  /\ watch.pc = "down"
  /\ file = NoFile
  /\ file' = head
  /\ since' = head
  /\ watch' = Resting(head)
  /\ UNCHANGED <<late, chainVars, tables>>

\* Mutant: a missing file is not told from an empty one.
RestartAnyway ==
  /\ watch.pc = "down"
  /\ watch' = Resting(file)
  /\ UNCHANGED <<file, late, since, chainVars, tables>>

\* Mutant: every start begins at the head.
RestartAtHead ==
  /\ watch.pc = "down"
  /\ file # NoFile
  /\ watch' = Resting(head)
  /\ UNCHANGED <<file, late, since, chainVars, tables>>

Restart ==
  /\ watch.pc = "down"
  /\ file # NoFile
  /\ watch' = Resting(file)
  /\ UNCHANGED <<file, late, since, chainVars, tables>>

\* Mutant: the head itself is scanned.
TargetHead == head

\* How far a poll may scan.
Target == IF head > Lag THEN head - Lag ELSE head

\* A tick that finds new blocks; without any, or without a height, it is over.
Poll ==
  /\ watch.pc = "idle"
  /\ Target > watch.last
  /\ watch' = [watch EXCEPT !.pc = "scan", !.target = Target]
  /\ UNCHANGED <<file, late, since, chainVars, tables>>

\* Mutant: the last window is not cut at the target.
WindowEndUncut == watch.last + MaxBlocks

WindowEnd ==
  IF watch.last + MaxBlocks > watch.target THEN watch.target ELSE watch.last + MaxBlocks

\* Mutant: the first block of a window is taken for the last of the one before.
LogsAfter(from, to) ==
  {[log |-> l, block |-> onChain[l].block, fork |-> onChain[l].fork] :
     l \in {k \in Logs : onChain[k].block \in (from + 1)..to}}

\* eth_getLogs over blocks from..to.
LogsBetween(from, to) ==
  {[log |-> l, block |-> onChain[l].block, fork |-> onChain[l].fork] :
     l \in {k \in Logs : onChain[k].block \in from..to}}

FetchWindow ==
  /\ watch.pc = "scan"
  /\ watch' = [watch EXCEPT !.pc = "post", !.to = WindowEnd,
                            !.found = LogsBetween(watch.last + 1, WindowEnd)]
  /\ UNCHANGED <<file, late, since, chainVars, tables>>

\* The next batch of the window, in block order.
NextBatch(batch) ==
  /\ watch.pc = "post"
  /\ batch \subseteq watch.found
  /\ batch # {}
  /\ \/ Cardinality(batch) = MaxBatch
     \/ Cardinality(batch) < MaxBatch /\ batch = watch.found
  /\ \A s \in batch, t \in watch.found \ batch : s.block <= t.block

\* Mutant: zero-value transfers are taken.
IngestAnything(batch) ==
  /\ events' = [l \in Logs |->
       IF events[l].status = "absent" /\ \E t \in batch : t.log = l
         THEN LET t == CHOOSE t \in batch : t.log = l
              IN [status |-> "pending", block |-> t.block, fork |-> t.fork]
         ELSE events[l]]
  /\ UNCHANGED <<invoices, overdue, payments, deliveries>>

\* ingest_events() commits the batch, whatever the chain is by then.
Ingest(batch) ==
  /\ \A t \in batch : Value[t.log] > 0
  /\ events' = [l \in Logs |->
       IF events[l].status = "absent" /\ \E t \in batch : t.log = l
         THEN LET t == CHOOSE t \in batch : t.log = l
              IN [status |-> "pending", block |-> t.block, fork |-> t.fork]
         ELSE events[l]]
  /\ UNCHANGED <<invoices, overdue, payments, deliveries>>

\* A POST that is answered 2xx: get_db() commits before the answer.
PostBatch(batch) ==
  /\ NextBatch(batch)
  /\ Ingest(batch)
  /\ watch' = [watch EXCEPT !.found = @ \ batch]
  /\ UNCHANGED <<file, late, since, chainVars>>

\* A POST whose answer does not come in time, or reaches no one.
PostUnanswered(batch) ==
  /\ NextBatch(batch)
  /\ Cardinality(late \cup {batch}) <= MaxLate
  /\ late' = late \cup {batch}
  /\ watch' = Resting(watch.last)
  /\ UNCHANGED <<file, since, chainVars, tables>>

\* eth_getLogs or a POST fails (422, 500, no connection): the tick is over,
\* and the next one starts from the windows done so far.
GiveUp ==
  /\ watch.pc \in {"scan", "post"}
  /\ watch' = Resting(watch.last)
  /\ UNCHANGED <<file, late, since, chainVars, tables>>

\* All batches of the window were accepted.  A save that fails is only logged.
SaveWindow(saved) ==
  /\ watch.pc = "post"
  /\ watch.found = {}
  /\ file' = IF saved THEN watch.to ELSE file
  /\ watch' = IF watch.to < watch.target
                 THEN [watch EXCEPT !.pc = "scan", !.last = watch.to, !.to = 0]
                 ELSE Resting(watch.to)
  /\ UNCHANGED <<late, since, chainVars, tables>>

CrashWatcher ==
  /\ watch.pc # "down"
  /\ watch' = Down
  /\ UNCHANGED <<file, late, since, chainVars, tables>>

\* The API ends a POST nobody waits for, in a commit or a rollback.
CommitLate(batch) ==
  /\ batch \in late
  /\ Ingest(batch)
  /\ late' = late \ {batch}
  /\ UNCHANGED <<file, watch, since, chainVars>>

DropLate(batch) ==
  /\ batch \in late
  /\ late' = late \ {batch}
  /\ UNCHANGED <<file, watch, since, chainVars, tables>>

Watching ==
  \/ FirstStart
  \/ Restart
  \/ Poll
  \/ FetchWindow
  \/ \E batch \in SUBSET watch.found : PostBatch(batch) \/ PostUnanswered(batch)
  \/ GiveUp
  \/ \E saved \in BOOLEAN : SaveWindow(saved)
  \/ CrashWatcher
  \/ \E batch \in late : CommitLate(batch) \/ DropLate(batch)

WatchNext == (ChainNext /\ UNCHANGED watchVars) \/ Watching

allVars   == <<tables, chainVars, watchVars>>
AllInit   == StoreInit /\ ChainInit /\ WatchInit
WatchSpec == AllInit /\ [][WatchNext]_allVars
-----------------------------------------------------------------------------
(***************************************************************************)
(* Properties.  They are about a chain whose reorganisations are at most   *)
(* Lag blocks deep, the assumption CONFIRMATIONS stands for.  While the    *)
(* head is not above Lag the code scans without a lag, so the blocks up to *)
(* Lag are outside the promise, and so is all up to the first start.       *)
(***************************************************************************)
ShallowReorgs == MaxDepth <= Lag

Recorded(l) == events[l].status # "absent"

\* The checkpoint never passes a transfer that is not in the database,
\* wherever the process crashed, whatever save failed and whichever POST was
\* lost, repeated or committed after its caller had given up.
CheckpointCovers ==
  ShallowReorgs /\ file # NoFile =>
    \A l \in Logs :
      onChain[l].block > since /\ onChain[l].block > Lag /\ onChain[l].block <= file
        => Recorded(l)

\* A recorded transfer is still mined in the block it was recorded with: the
\* lag, not the reconciler, keeps replaced blocks out of the database.
RecordsAreFinal ==
  ShallowReorgs /\ since >= Lag =>
    \A l \in Logs :
      Recorded(l) => onChain[l] = [block |-> events[l].block, fork |-> events[l].fork]

\* What the API commits for the watcher, a late POST included, is what Intake
\* lets the engine see: valid transfers of scanned blocks, as mined now.
PostsAreIngests ==
  [][ShallowReorgs /\ since >= Lag /\ events' # events =>
       \E batch \in SUBSET Scanned : IngestEvents(batch)]_allVars

(***************************************************************************)
(* Progress.  The process is restarted, its ticker goes on after every     *)
(* failed poll, and every HTTP call ends, by its timeout at the latest.    *)
(* Of the windows that got equally far some get further: RPC, API and disk *)
(* do not fail at each of them.                                            *)
(***************************************************************************)
Posting == \E batch \in SUBSET watch.found : PostBatch(batch)

WatchFairness ==
  /\ WF_allVars(FirstStart \/ Restart)
  /\ WF_allVars(GiveUp \/ FetchWindow \/ Posting \/ SaveWindow(TRUE))
  /\ SF_allVars(Poll)
  /\ SF_allVars(FetchWindow)
  /\ \A n \in 1..Cardinality(Logs) : SF_allVars(Cardinality(watch.found) = n /\ Posting)
  /\ SF_allVars(SaveWindow(TRUE))

\* A transfer the lag has passed, above the checkpoint and not yet recorded.
Awaited(l) ==
  /\ file # NoFile
  /\ onChain[l].block > file
  /\ onChain[l].block > Lag
  /\ onChain[l].block + Lag <= head
  /\ ~Recorded(l)

\* A zero-value transfer the API refuses lies between the checkpoint and the
\* end of the last window that could hold l.
Blocked(l) ==
  /\ file # NoFile
  /\ \E k \in Logs :
       Value[k] = 0 /\ onChain[k].block \in (file + 1)..(onChain[l].block + MaxBlocks - 1)

\* Every such transfer is recorded, unless a refused one blocks its window.
StableTransfersRecorded ==
  \A l \in {k \in Logs : Value[k] > 0} : Awaited(l) ~> Recorded(l) \/ Blocked(l)
=============================================================================
