------------------------------ MODULE WatcherInv ------------------------------
(***************************************************************************)
(* The inductive invariant behind the watcher's checkpoint: what the       *)
(* process has in memory, and the POSTs nobody waits for, must still be    *)
(* true of the chain when they reach the state file and the database.      *)
(***************************************************************************)
EXTENDS Watcher

\* Before the very first start nothing has happened.
Untouched ==
  file = NoFile =>
    /\ watch = Down /\ late = {} /\ since = 0
    /\ \A l \in Logs : ~Recorded(l)

\* The file is behind the process, which is behind the window it scans.  The
\* target was Lag blocks deep, or the head itself while that was at most Lag.
InOrder ==
  /\ file # NoFile => since <= file
  /\ watch.pc # "down" => file # NoFile /\ file <= watch.last
  /\ watch.pc \in {"scan", "post"} =>
       /\ watch.last < watch.target
       /\ watch.target <= Lag \/ watch.target + Lag <= head
  /\ watch.pc = "post" => watch.last < watch.to /\ watch.to <= watch.target
  /\ watch.pc \in {"down", "idle"} => watch.found = {}

\* Nothing the watcher answers for can enter or leave the blocks up to n.
Settled(n) == n <= since \/ n <= Lag \/ n + Lag <= head

\* The transfers the watcher answers for in the blocks up to n.
Answerable(n) ==
  {l \in Logs : onChain[l].block > since /\ onChain[l].block > Lag /\ onChain[l].block <= n}

\* What the process has passed is recorded; what the open window still has
\* to be given is recorded or among what was found in it.
Progressed ==
  /\ file # NoFile =>
       Settled(file) /\ \A l \in Answerable(file) : Recorded(l)
  /\ watch.pc # "down" =>
       Settled(watch.last) /\ \A l \in Answerable(watch.last) : Recorded(l)
  /\ watch.pc = "post" =>
       \A l \in Answerable(watch.to) : Recorded(l) \/ \E t \in watch.found : t.log = l

\* Mined where t says, as deep as the lag.
Final(t) ==
  /\ t.block > 0 /\ t.block + Lag <= head
  /\ onChain[t.log] = [block |-> t.block, fork |-> t.fork]

\* If the first start was above Lag, whatever was read from the chain since
\* is final: found, on its way in a POST, or recorded.
AllFinal ==
  since >= Lag =>
    /\ \A t \in watch.found : Final(t)
    /\ \A batch \in late : \A t \in batch : Final(t)
    /\ \A l \in Logs :
         Recorded(l) => Final([log |-> l, block |-> events[l].block, fork |-> events[l].fork])

\* The checkpoint, the process, the POSTs and the database agree with a chain
\* that loses no more than its last Lag blocks.
WInv ==
  /\ ChainTypeOK
  /\ WatchTypeOK
  /\ Untouched
  /\ InOrder
  /\ ShallowReorgs => Progressed /\ AllFinal
=============================================================================
