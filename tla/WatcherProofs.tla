---------------------------- MODULE WatcherProofs ----------------------------
(***************************************************************************)
(* The watcher's checkpoint covers the chain and its records are final,    *)
(* for any chain, lag, window and batch sizes and however often it crashes.*)
(***************************************************************************)
EXTENDS WatcherInv, TLAPS

USE DEF NoBlock

\* A chain step keeps the types of the chain.
LEMMA ChainTyped == ChainTypeOK /\ ChainNext => ChainTypeOK'
<1> SUFFICES ASSUME ChainTypeOK, ChainNext PROVE ChainTypeOK'
  OBVIOUS
<1>1. ASSUME NEW S \in SUBSET Logs, MineBlock(S) PROVE ChainTypeOK'
  BY <1>1 DEF ChainTypeOK, MineBlock
<1>2. ASSUME NEW b \in 1..head, NEW place \in [Movable(b) -> {NoBlock} \cup b..head],
             Reorg(b, place)
      PROVE ChainTypeOK'
  <2>1. \A l \in Movable(b) : place[l] \in Nat
    BY DEF ChainTypeOK
  <2>2. head' \in Nat /\ fork' \in Nat
    BY <1>2 DEF Reorg, ChainTypeOK
  <2>3. \A l \in Logs :
          (IF l \notin Movable(b) THEN onChain[l]
           ELSE IF place[l] = NoBlock THEN Unmined
           ELSE [block |-> place[l], fork |-> fork']) \in [block : Nat, fork : Nat]
    BY <2>1, <2>2 DEF ChainTypeOK, Unmined
  <2> QED
    BY <1>2, <2>2, <2>3 DEF Reorg, ChainTypeOK
<1> QED
  BY <1>1, <1>2 DEF ChainNext

\* A chain that loses at most its last Lag blocks leaves the others as they
\* are: no transfer enters or leaves them.
LEMMA DeepBlocksStay ==
  ASSUME ChainTypeOK, ChainNext, ShallowReorgs
  PROVE  /\ head <= head'
         /\ \A l \in Logs :
              /\ onChain[l].block > 0 /\ onChain[l].block + Lag <= head
                   => onChain'[l] = onChain[l]
              /\ onChain'[l].block > 0 /\ onChain'[l].block + Lag <= head
                   => onChain'[l] = onChain[l]
<1> DEFINE Stays ==
      /\ head <= head'
      /\ \A l \in Logs :
           /\ onChain[l].block > 0 /\ onChain[l].block + Lag <= head
                => onChain'[l] = onChain[l]
           /\ onChain'[l].block > 0 /\ onChain'[l].block + Lag <= head
                => onChain'[l] = onChain[l]
<1>0. head \in Nat /\ Lag \in Nat /\ MaxDepth \in Nat
  BY ChainAssumption, LagAssumption DEF ChainTypeOK
<1>1. ASSUME NEW S \in SUBSET {l \in Logs : onChain[l] = Unmined}, MineBlock(S)
      PROVE Stays
  BY <1>0, <1>1 DEF MineBlock, ChainTypeOK, Unmined
<1>2. ASSUME NEW b \in 1..head, NEW place \in [Movable(b) -> {NoBlock} \cup b..head],
             Reorg(b, place)
      PROVE Stays
  <2>1. head < b + Lag
    BY <1>0, <1>2 DEF Reorg, ShallowReorgs
  <2>2. ASSUME NEW l \in Logs
        PROVE /\ onChain[l].block > 0 /\ onChain[l].block + Lag <= head
                   => onChain'[l] = onChain[l]
              /\ onChain'[l].block > 0 /\ onChain'[l].block + Lag <= head
                   => onChain'[l] = onChain[l]
    <3>1. CASE l \notin Movable(b)
      BY <3>1, <1>2 DEF Reorg
    <3>2. CASE l \in Movable(b)
      <4>1. ~(onChain[l].block > 0 /\ onChain[l].block + Lag <= head)
        BY <3>2, <2>1, <1>0 DEF Movable, ChainTypeOK
      <4>2. onChain'[l] = IF place[l] = NoBlock THEN Unmined
                          ELSE [block |-> place[l], fork |-> fork']
        BY <3>2, <1>2 DEF Reorg
      <4>3. place[l] \in {NoBlock} \cup b..head
        BY <3>2
      <4>4. ~(onChain'[l].block > 0 /\ onChain'[l].block + Lag <= head)
        BY <4>2, <4>3, <2>1, <1>0 DEF Unmined
      <4> QED
        BY <4>1, <4>4
    <3> QED
      BY <3>1, <3>2
  <2>3. head' = head
    BY <1>2 DEF Reorg
  <2> QED
    BY <2>2, <2>3, <1>0
<1> QED
  BY <1>1, <1>2 DEF ChainNext

\* A chain step leaves the tables alone.
LEMMA ChainKeepsTables == ChainNext => UNCHANGED tables
BY DEF ChainNext, MineBlock, Reorg

\* The chain moves and the watcher does not.
LEMMA ChainKeeps == WInv /\ ChainNext /\ UNCHANGED watchVars => WInv'
<1> SUFFICES ASSUME WInv, ChainNext, UNCHANGED watchVars PROVE WInv'
  OBVIOUS
<1> USE DEF watchVars
<1>1. ChainTypeOK'
  BY ChainTyped DEF WInv
<1>2. WatchTypeOK'
  BY DEF WInv, WatchTypeOK, Transfer
<1>3. events' = events
  BY ChainKeepsTables DEF tables
<1>4. Untouched'
  BY <1>3 DEF WInv, Untouched, Recorded
<1>5. head <= head' /\ head \in Nat /\ head' \in Nat
  <2>1. CASE ShallowReorgs
    BY <2>1, <1>1, DeepBlocksStay DEF WInv, ChainTypeOK
  <2>2. head <= head'
    BY DEF ChainNext, MineBlock, Reorg, WInv, ChainTypeOK
  <2> QED
    BY <2>2, <1>1 DEF WInv, ChainTypeOK
<1>6. InOrder'
  BY <1>5, LagAssumption DEF WInv, InOrder, WatchTypeOK
<1>7. ASSUME ShallowReorgs PROVE Progressed' /\ AllFinal'
  <2>1. ASSUME NEW n \in Nat, Settled(n)
        PROVE Settled(n)' /\ Answerable(n)' = Answerable(n)
    <3>1. Settled(n)'
      BY <2>1, <1>5, LagAssumption DEF Settled
    <3>2. ASSUME NEW l \in Logs PROVE l \in Answerable(n)' <=> l \in Answerable(n)
      <4>1. onChain[l].block \in Nat /\ onChain'[l].block \in Nat
        BY <1>1 DEF WInv, ChainTypeOK
      <4>2. since \in Nat /\ since' = since
        BY DEF WInv, WatchTypeOK
      <4> QED
        BY <4>1, <4>2, <2>1, <1>5, <1>7, DeepBlocksStay, LagAssumption
           DEF Answerable, Settled, WInv
    <3> QED
      BY <3>1, <3>2 DEF Answerable
  <2>2. ASSUME NEW t, Final(t), t.log \in Logs, t.block \in Nat PROVE Final(t)'
    <3>1. onChain'[t.log] = onChain[t.log]
      BY <2>2, <1>7, DeepBlocksStay DEF Final, WInv
    <3> QED
      BY <3>1, <2>2, <1>5, LagAssumption DEF Final
  <2>3. Progressed'
    <3>1. Progressed
      BY <1>7 DEF WInv
    <3>2. file # NoFile => file \in Nat
      BY DEF WInv, WatchTypeOK
    <3>3. watch.last \in Nat /\ watch.to \in Nat
      BY DEF WInv, WatchTypeOK
    <3>4. watch.pc = "post" => Settled(watch.to)
      BY <3>3, <1>5, LagAssumption DEF WInv, InOrder, Settled, WatchTypeOK
    <3>5. \A l \in Logs : Recorded(l)' <=> Recorded(l)
      BY <1>3 DEF Recorded
    <3> QED
      BY <3>1, <3>2, <3>3, <3>4, <3>5, <2>1 DEF Progressed, Answerable
  <2>4. AllFinal'
    <3>1. AllFinal
      BY <1>7 DEF WInv
    <3>2. SUFFICES ASSUME since >= Lag PROVE AllFinal'
      BY DEF AllFinal
    <3>3. \A t \in watch.found : Final(t)'
      BY <3>1, <3>2, <2>2 DEF AllFinal, WInv, WatchTypeOK, Transfer
    <3>4. \A batch \in late : \A t \in batch : Final(t)'
      BY <3>1, <3>2, <2>2 DEF AllFinal, WInv, WatchTypeOK, Transfer
    <3>5. ASSUME NEW l \in Logs, Recorded(l)
          PROVE Final([log |-> l, block |-> events[l].block, fork |-> events[l].fork])'
      <4>1. PICK t : t = [log |-> l, block |-> events[l].block, fork |-> events[l].fork]
        OBVIOUS
      <4>2. Final(t)
        BY <4>1, <3>1, <3>2, <3>5 DEF AllFinal
      <4>3. t.log \in Logs /\ t.block = onChain[l].block
        BY <4>1, <4>2 DEF Final
      <4>4. t.block \in Nat
        BY <4>3 DEF WInv, ChainTypeOK
      <4>5. Final(t)'
        BY <4>2, <4>3, <4>4, <2>2
      <4> QED
        BY <4>1, <4>5, <1>3
    <3> QED
      BY <3>3, <3>4, <3>5, <1>3 DEF AllFinal, Recorded
  <2> QED
    BY <2>3, <2>4
<1> QED
  BY <1>1, <1>2, <1>4, <1>6, <1>7 DEF WInv, ShallowReorgs

-----------------------------------------------------------------------------
(***************************************************************************)
(* The watcher moves and the chain does not.                               *)
(***************************************************************************)

\* What a committed batch does to the records.
LEMMA BatchRecorded ==
  ASSUME NEW batch \in SUBSET Transfer, Ingest(batch)
  PROVE  /\ \A l \in Logs : Recorded(l) => events'[l] = events[l]
         /\ \A l \in Logs : Recorded(l) => Recorded(l)'
         /\ \A t \in batch : Recorded(t.log)'
         /\ \A l \in Logs : Recorded(l)' /\ ~Recorded(l) =>
              \E t \in batch :
                /\ t.log = l
                /\ events'[l] = [status |-> "pending", block |-> t.block, fork |-> t.fork]
<1>1. \A t \in batch : t.log \in Logs
  BY DEF Transfer
<1>2. ASSUME NEW l \in Logs
      PROVE events'[l] =
        IF events[l].status = "absent" /\ \E t \in batch : t.log = l
          THEN LET t == CHOOSE t \in batch : t.log = l
               IN [status |-> "pending", block |-> t.block, fork |-> t.fork]
          ELSE events[l]
  BY DEF Ingest
<1>3. ASSUME NEW l \in Logs, ~Recorded(l), \E t \in batch : t.log = l
      PROVE \E t \in batch :
              /\ t.log = l
              /\ events'[l] = [status |-> "pending", block |-> t.block, fork |-> t.fork]
  <2> DEFINE c == CHOOSE t \in batch : t.log = l
  <2>1. c \in batch /\ c.log = l
    BY <1>3
  <2>2. events'[l] = [status |-> "pending", block |-> c.block, fork |-> c.fork]
    BY <1>2, <1>3 DEF Recorded
  <2> QED
    BY <2>1, <2>2
<1>4. \A l \in Logs : Recorded(l) => events'[l] = events[l]
  BY <1>2 DEF Recorded
<1>5. \A l \in Logs : Recorded(l) => Recorded(l)'
  BY <1>4 DEF Recorded
<1>6. \A l \in Logs : Recorded(l)' /\ ~Recorded(l) => \E t \in batch : t.log = l
  BY <1>2 DEF Recorded
<1>7. \A t \in batch : Recorded(t.log)'
  <2> SUFFICES ASSUME NEW t \in batch, ~Recorded(t.log) PROVE Recorded(t.log)'
    BY <1>1, <1>5
  <2>1. t.log \in Logs /\ \E u \in batch : u.log = t.log
    BY <1>1
  <2>2. PICK u \in batch :
          events'[t.log] = [status |-> "pending", block |-> u.block, fork |-> u.fork]
    BY <2>1, <1>3
  <2>3. events'[t.log].status = "pending"
    BY <2>2
  <2> QED
    BY <2>3 DEF Recorded
<1> QED
  BY <1>3, <1>4, <1>5, <1>6, <1>7

\* The first start and a restart resume from the state file.
LEMMA StartKeeps == WInv /\ (FirstStart \/ Restart) => WInv'
<1> SUFFICES ASSUME WInv, FirstStart \/ Restart PROVE WInv'
  OBVIOUS
<1> USE DEF tables, chainVars, Resting, Down
<1>0. head \in Nat /\ NoFile \notin Nat
  BY WindowAssumption DEF WInv, ChainTypeOK
<1>1. ChainTypeOK' /\ events' = events /\ onChain' = onChain /\ head' = head /\ late' = late
  BY DEF WInv, ChainTypeOK, FirstStart, Restart
<1>2. watch'.pc = "idle" /\ watch'.last = file' /\ watch'.found = {} /\ file' # NoFile
  BY <1>0 DEF FirstStart, Restart
<1>3. WatchTypeOK'
  <2>1. file' \in Nat /\ since' \in Nat
    BY <1>0 DEF WInv, WatchTypeOK, FirstStart, Restart
  <2>2. watch' = [pc |-> "idle", last |-> file', target |-> 0, to |-> 0, found |-> {}]
    BY DEF FirstStart, Restart
  <2> QED
    BY <2>1, <2>2, <1>1 DEF WInv, WatchTypeOK
<1>4. Untouched'
  BY <1>2 DEF Untouched
<1>5. file' \in Nat /\ since' \in Nat /\ since' <= file'
  BY <1>0, <1>2, <1>3 DEF WInv, WatchTypeOK, InOrder, FirstStart, Restart
<1>6. InOrder'
  BY <1>2, <1>5 DEF InOrder
<1>7. CASE FirstStart
  <2>1. since' = file' /\ late = {} /\ \A l \in Logs : ~Recorded(l)
    BY <1>7 DEF FirstStart, WInv, Untouched
  <2>2. Settled(file)' /\ Answerable(file)' = {}
    BY <1>1, <1>5, <2>1 DEF Settled, Answerable, ChainTypeOK
  <2>3. Progressed'
    BY <1>2, <2>2 DEF Progressed, Settled, Answerable
  <2>4. AllFinal'
    BY <1>1, <1>2, <2>1 DEF AllFinal, Recorded
  <2> QED
    BY <1>1, <1>3, <1>4, <1>6, <2>3, <2>4 DEF WInv
<1>8. CASE Restart
  <2>1. since' = since /\ file' = file
    BY <1>8 DEF Restart
  <2>2. ShallowReorgs => Progressed'
    BY <1>1, <1>2, <2>1 DEF WInv, Progressed, Settled, Answerable, Recorded
  <2>3. ShallowReorgs => AllFinal'
    BY <1>1, <1>2, <2>1 DEF WInv, AllFinal, Final, Recorded
  <2> QED
    BY <1>1, <1>3, <1>4, <1>6, <2>2, <2>3 DEF WInv, ShallowReorgs
<1> QED
  BY <1>7, <1>8

\* A failed tick, a crash and a POST that is lost forget only what was found.
LEMMA FailureKeeps ==
  WInv /\ (GiveUp \/ CrashWatcher \/ \E batch \in late : DropLate(batch)) => WInv'
<1> SUFFICES ASSUME WInv, GiveUp \/ CrashWatcher \/ \E batch \in late : DropLate(batch)
             PROVE WInv'
  OBVIOUS
<1> USE DEF tables, chainVars, Resting, Down
<1>1. /\ ChainTypeOK' /\ events' = events /\ onChain' = onChain /\ head' = head
      /\ file' = file /\ since' = since /\ late' \subseteq late
  BY DEF WInv, ChainTypeOK, GiveUp, CrashWatcher, DropLate
<1>2. \/ watch' = watch
      \/ watch' = [pc |-> "down", last |-> 0, target |-> 0, to |-> 0, found |-> {}]
      \/ /\ watch.pc # "down"
         /\ watch' = [pc |-> "idle", last |-> watch.last, target |-> 0, to |-> 0, found |-> {}]
  <2>1. CASE GiveUp
    BY <2>1 DEF GiveUp
  <2>2. CASE CrashWatcher
    BY <2>2 DEF CrashWatcher
  <2>3. CASE \E batch \in late : DropLate(batch)
    BY <2>3 DEF DropLate
  <2> QED
    BY <2>1, <2>2, <2>3
<1>3. WatchTypeOK'
  <2>1. watch.last \in Nat
    BY DEF WInv, WatchTypeOK
  <2> QED
    BY <2>1, <1>1, <1>2 DEF WInv, WatchTypeOK
<1>4. Untouched'
  BY <1>1 DEF WInv, Untouched, Recorded, GiveUp, CrashWatcher, DropLate
<1>5. InOrder'
  BY <1>1, <1>2 DEF WInv, InOrder
<1>6. ShallowReorgs => Progressed'
  BY <1>1, <1>2 DEF WInv, Progressed, Settled, Answerable, Recorded
<1>7. ShallowReorgs => AllFinal'
  BY <1>1, <1>2 DEF WInv, AllFinal, Final, Recorded
<1> QED
  BY <1>1, <1>3, <1>4, <1>5, <1>6, <1>7 DEF WInv, ShallowReorgs

\* A poll opens windows only on blocks that are settled.
LEMMA PollKeeps == WInv /\ Poll => WInv'
<1> SUFFICES ASSUME WInv, Poll PROVE WInv'
  OBVIOUS
<1>0. head \in Nat /\ Lag \in Nat
  BY LagAssumption DEF WInv, ChainTypeOK
<1>1. /\ ChainTypeOK' /\ events' = events /\ onChain' = onChain /\ head' = head
      /\ file' = file /\ since' = since /\ late' = late
  BY DEF WInv, ChainTypeOK, Poll, chainVars, tables
<1>2. /\ watch.pc = "idle" /\ watch'.pc = "scan" /\ watch'.last = watch.last
      /\ watch'.target = Target /\ watch.last < Target /\ watch'.found = watch.found
  BY DEF Poll, WInv, WatchTypeOK
<1>3. Target \in Nat /\ (Target <= Lag \/ Target + Lag <= head)
  BY <1>0 DEF Target
<1>4. WatchTypeOK'
  BY <1>1, <1>3 DEF WInv, WatchTypeOK, Poll
<1>5. Untouched'
  BY <1>1, <1>2 DEF WInv, Untouched, Down
<1>6. InOrder'
  BY <1>1, <1>2, <1>3 DEF WInv, InOrder
<1>7. ShallowReorgs => Progressed'
  BY <1>1, <1>2 DEF WInv, Progressed, Settled, Answerable, Recorded
<1>8. ShallowReorgs => AllFinal'
  BY <1>1, <1>2 DEF WInv, AllFinal, Final, Recorded
<1> QED
  BY <1>1, <1>4, <1>5, <1>6, <1>7, <1>8 DEF WInv, ShallowReorgs

\* What a window finds is final if the window is above Lag.
LEMMA FetchKeeps == WInv /\ FetchWindow => WInv'
<1> SUFFICES ASSUME WInv, FetchWindow PROVE WInv'
  OBVIOUS
<1>0. head \in Nat /\ Lag \in Nat /\ MaxBlocks \in Nat \ {0} /\ NoFile \notin Nat
  BY LagAssumption, WindowAssumption DEF WInv, ChainTypeOK
<1>1. /\ ChainTypeOK' /\ events' = events /\ onChain' = onChain /\ head' = head
      /\ file' = file /\ since' = since /\ late' = late
  BY DEF WInv, ChainTypeOK, FetchWindow, chainVars, tables
<1>2. /\ watch.pc = "scan" /\ watch'.pc = "post" /\ watch'.last = watch.last
      /\ watch'.target = watch.target /\ watch'.to = WindowEnd
      /\ watch'.found = LogsBetween(watch.last + 1, WindowEnd)
  BY DEF FetchWindow, WInv, WatchTypeOK
<1>3. watch.last \in Nat /\ watch.target \in Nat /\ watch.last < watch.target
  BY <1>2 DEF WInv, WatchTypeOK, InOrder
<1>4. WindowEnd \in Nat /\ watch.last < WindowEnd /\ WindowEnd <= watch.target
  BY <1>0, <1>3 DEF WindowEnd
<1>5. LogsBetween(watch.last + 1, WindowEnd) \subseteq Transfer
  BY DEF LogsBetween, Transfer, WInv, ChainTypeOK
<1>6. WatchTypeOK'
  BY <1>1, <1>4, <1>5 DEF WInv, WatchTypeOK, FetchWindow
<1>7. Untouched'
  BY <1>1, <1>2 DEF WInv, Untouched, Down
<1>8. InOrder'
  BY <1>1, <1>2, <1>4 DEF WInv, InOrder
<1>9. ASSUME ShallowReorgs PROVE Progressed'
  <2>1. Progressed
    BY <1>9 DEF WInv
  <2>2. ASSUME NEW l \in Answerable(WindowEnd)
        PROVE Recorded(l) \/ \E t \in LogsBetween(watch.last + 1, WindowEnd) : t.log = l
    <3>1. l \in Logs /\ onChain[l].block \in Nat /\ onChain[l].block <= WindowEnd
      BY DEF Answerable, WInv, ChainTypeOK
    <3>2. CASE onChain[l].block <= watch.last
      BY <3>2, <2>1, <1>2 DEF Progressed, Answerable
    <3>3. CASE onChain[l].block > watch.last
      <4>1. onChain[l].block \in (watch.last + 1)..WindowEnd
        BY <3>1, <3>3, <1>3, <1>4
      <4>2. [log |-> l, block |-> onChain[l].block, fork |-> onChain[l].fork]
              \in LogsBetween(watch.last + 1, WindowEnd)
        BY <3>1, <4>1 DEF LogsBetween
      <4> QED
        BY <4>2
    <3> QED
      BY <3>1, <3>2, <3>3, <1>3
  <2> QED
    BY <2>1, <2>2, <1>1, <1>2 DEF Progressed, Settled, Answerable, Recorded
<1>10. ASSUME ShallowReorgs PROVE AllFinal'
  <2> SUFFICES ASSUME since >= Lag PROVE AllFinal'
    BY <1>1 DEF AllFinal
  <2>1. AllFinal /\ since \in Nat
    BY <1>10 DEF WInv, WatchTypeOK
  <2>2. since <= watch.last
    BY <1>2, <1>3, <2>1 DEF WInv, InOrder, WatchTypeOK
  <2>3. WindowEnd + Lag <= head
    BY <2>1, <2>2, <1>0, <1>2, <1>3, <1>4 DEF WInv, InOrder
  <2>4. ASSUME NEW t \in LogsBetween(watch.last + 1, WindowEnd) PROVE Final(t)
    <3>1. PICK l \in Logs :
            /\ onChain[l].block \in (watch.last + 1)..WindowEnd
            /\ t = [log |-> l, block |-> onChain[l].block, fork |-> onChain[l].fork]
      BY <2>4 DEF LogsBetween
    <3>2. onChain[l] = [block |-> onChain[l].block, fork |-> onChain[l].fork]
      BY DEF WInv, ChainTypeOK
    <3> QED
      BY <3>1, <3>2, <2>3, <1>0, <1>3, <1>4 DEF Final
  <2> QED
    BY <2>1, <2>4, <1>1, <1>2 DEF AllFinal, Final, Recorded
<1> QED
  BY <1>1, <1>6, <1>7, <1>8, <1>9, <1>10 DEF WInv, ShallowReorgs

\* A window is passed when nothing found in it is left to post.
LEMMA SaveKeeps == WInv /\ (\E saved \in BOOLEAN : SaveWindow(saved)) => WInv'
<1> SUFFICES ASSUME WInv, NEW saved \in BOOLEAN, SaveWindow(saved) PROVE WInv'
  OBVIOUS
<1>0. Lag \in Nat /\ head \in Nat /\ NoFile \notin Nat
  BY LagAssumption, WindowAssumption DEF WInv, ChainTypeOK
<1>1. /\ ChainTypeOK' /\ events' = events /\ onChain' = onChain /\ head' = head
      /\ since' = since /\ late' = late
  BY DEF WInv, ChainTypeOK, SaveWindow, chainVars, tables
<1>2. /\ watch.pc = "post" /\ watch.found = {} /\ file # NoFile /\ file \in Nat
      /\ watch.last \in Nat /\ watch.to \in Nat /\ watch.target \in Nat /\ since \in Nat
  BY DEF SaveWindow, WInv, WatchTypeOK, InOrder
<1>3. /\ since <= file /\ file <= watch.last /\ watch.last < watch.to
      /\ watch.to <= watch.target
      /\ watch.target <= Lag \/ watch.target + Lag <= head
  BY <1>2 DEF WInv, InOrder
<1>4. file' \in {file, watch.to}
  BY DEF SaveWindow
<1>5. ASSUME watch.to < watch.target
      PROVE /\ WatchTypeOK' /\ watch'.last = watch.to /\ watch'.found = {}
            /\ watch'.pc = "scan" /\ watch'.target = watch.target
  <2>1. watch' = [watch EXCEPT !.pc = "scan", !.last = watch.to, !.to = 0]
    BY <1>5 DEF SaveWindow
  <2> QED
    BY <2>1, <1>1, <1>2, <1>4 DEF WInv, WatchTypeOK
<1>6. ASSUME ~(watch.to < watch.target)
      PROVE /\ WatchTypeOK' /\ watch'.last = watch.to /\ watch'.found = {}
            /\ watch'.pc = "idle"
  <2>1. watch' = [pc |-> "idle", last |-> watch.to, target |-> 0, to |-> 0, found |-> {}]
    BY <1>6 DEF SaveWindow, Resting, Down
  <2> QED
    BY <2>1, <1>1, <1>2, <1>4 DEF WInv, WatchTypeOK
<1>7. /\ WatchTypeOK' /\ watch'.last = watch.to /\ watch'.found = {}
      /\ \/ watch'.pc = "idle"
         \/ watch'.pc = "scan" /\ watch'.target = watch.target /\ watch.to < watch.target
  BY <1>5, <1>6
<1>8. Untouched'
  BY <1>0, <1>2, <1>4 DEF Untouched
<1>9. InOrder'
  BY <1>0, <1>1, <1>2, <1>3, <1>4, <1>7 DEF InOrder
<1>10. ASSUME ShallowReorgs PROVE Progressed'
  <2>1. Progressed
    BY <1>10 DEF WInv
  <2>2. Settled(watch.to)
    BY <1>0, <1>2, <1>3 DEF Settled
  <2>3. \A l \in Answerable(watch.to) : Recorded(l)
    BY <2>1, <1>2 DEF Progressed
  <2> QED
    BY <2>1, <2>2, <2>3, <1>1, <1>2, <1>4, <1>7 DEF Progressed, Settled, Answerable, Recorded
<1>11. ShallowReorgs => AllFinal'
  BY <1>1, <1>7 DEF WInv, AllFinal, Final, Recorded
<1> QED
  BY <1>1, <1>7, <1>8, <1>9, <1>10, <1>11 DEF WInv, ShallowReorgs

\* Records made of final transfers are final.
LEMMA FinalRecords ==
  ASSUME WatchTypeOK, AllFinal, since >= Lag, UNCHANGED chainVars,
         NEW batch \in SUBSET Transfer, Ingest(batch), \A t \in batch : Final(t)
  PROVE  \A l \in Logs : Recorded(l)' =>
           /\ events'[l].block > 0 /\ events'[l].block + Lag <= head'
           /\ onChain'[l] = [block |-> events'[l].block, fork |-> events'[l].fork]
<1> SUFFICES ASSUME NEW l \in Logs, Recorded(l)'
             PROVE  /\ events'[l].block > 0 /\ events'[l].block + Lag <= head'
                    /\ onChain'[l] = [block |-> events'[l].block, fork |-> events'[l].fork]
  OBVIOUS
<1>1. onChain' = onChain /\ head' = head
  BY DEF chainVars
<1>2. CASE Recorded(l)
  <2>1. events'[l] = events[l]
    BY <1>2, BatchRecorded
  <2> QED
    BY <1>1, <1>2, <2>1 DEF AllFinal, Final
<1>3. CASE ~Recorded(l)
  <2>1. PICK t \in batch :
          /\ t.log = l
          /\ events'[l] = [status |-> "pending", block |-> t.block, fork |-> t.fork]
    BY <1>3, BatchRecorded
  <2> QED
    BY <1>1, <2>1 DEF Final
<1> QED
  BY <1>2, <1>3

\* A batch the API commits moves from the process to the records.
LEMMA PostKeeps ==
  WInv /\ (\E batch \in SUBSET watch.found : PostBatch(batch)) => WInv'
<1> SUFFICES ASSUME WInv, NEW batch \in SUBSET watch.found, PostBatch(batch) PROVE WInv'
  OBVIOUS
<1>1. /\ ChainTypeOK' /\ UNCHANGED chainVars /\ onChain' = onChain /\ head' = head
      /\ file' = file /\ since' = since /\ late' = late
  BY DEF WInv, ChainTypeOK, PostBatch, chainVars
<1>2. /\ watch.pc = "post" /\ batch \in SUBSET Transfer /\ Ingest(batch)
      /\ watch' = [watch EXCEPT !.found = @ \ batch]
  BY DEF PostBatch, NextBatch, WInv, WatchTypeOK
<1>3. /\ watch'.pc = watch.pc /\ watch'.last = watch.last /\ watch'.to = watch.to
      /\ watch'.target = watch.target /\ watch'.found = watch.found \ batch
  BY <1>2 DEF WInv, WatchTypeOK
<1>4. WatchTypeOK'
  BY <1>1, <1>2 DEF WInv, WatchTypeOK
<1>5. Untouched'
  BY <1>1, <1>2 DEF WInv, Untouched, Down
<1>6. InOrder'
  BY <1>1, <1>2, <1>3 DEF WInv, InOrder
<1>7. ASSUME ShallowReorgs PROVE Progressed'
  <2>1. Progressed
    BY <1>7 DEF WInv
  <2>2. \A l \in Logs : Recorded(l) => Recorded(l)'
    BY <1>2, BatchRecorded
  <2>3. \A t \in batch : Recorded(t.log)'
    BY <1>2, BatchRecorded
  <2>4. \A n : Answerable(n)' = Answerable(n) /\ (Settled(n)' <=> Settled(n))
    BY <1>1 DEF Answerable, Settled
  <2>5. \A n : Answerable(n) \subseteq Logs
    BY DEF Answerable
  <2>6. ASSUME NEW l \in Answerable(watch.to)
        PROVE Recorded(l)' \/ \E t \in watch'.found : t.log = l
    BY <2>1, <2>2, <2>3, <2>5, <1>2, <1>3 DEF Progressed
  <2>7. file' # NoFile =>
          Settled(file)' /\ \A l \in Answerable(file)' : Recorded(l)'
    BY <2>1, <2>2, <2>5, <1>1 DEF Progressed, Settled, Answerable
  <2>8. Settled(watch.last)' /\ \A l \in Answerable(watch.last)' : Recorded(l)'
    BY <2>1, <2>2, <2>5, <1>1, <1>2, <1>3 DEF Progressed, Settled, Answerable
  <2>9. \A l \in Answerable(watch.to)' : Recorded(l)' \/ \E t \in watch'.found : t.log = l
    BY <2>6, <1>1, <1>3 DEF Answerable
  <2> QED
    BY <2>7, <2>8, <2>9 DEF Progressed
<1>8. ASSUME ShallowReorgs PROVE AllFinal'
  <2> SUFFICES ASSUME since >= Lag PROVE AllFinal'
    BY <1>1 DEF AllFinal
  <2>1. AllFinal
    BY <1>8 DEF WInv
  <2>2. \A t \in batch : Final(t)
    BY <2>1 DEF AllFinal
  <2>3. \A t : Final(t)' <=> Final(t)
    BY <1>1 DEF Final
  <2>4. \A l \in Logs : Recorded(l)' =>
           /\ events'[l].block > 0 /\ events'[l].block + Lag <= head'
           /\ onChain'[l] = [block |-> events'[l].block, fork |-> events'[l].fork]
    BY <2>1, <2>2, <1>1, <1>2, FinalRecords DEF WInv
  <2>5. \A t \in watch'.found : Final(t)'
    BY <2>1, <1>1, <1>3 DEF AllFinal, Final
  <2>6. \A b \in late' : \A t \in b : Final(t)'
    BY <2>1, <1>1 DEF AllFinal, Final
  <2> QED
    BY <2>4, <2>5, <2>6 DEF AllFinal, Final
<1> QED
  BY <1>1, <1>4, <1>5, <1>6, <1>7, <1>8 DEF WInv, ShallowReorgs

\* A POST without an answer leaves its batch to the API.
LEMMA UnansweredKeeps ==
  WInv /\ (\E batch \in SUBSET watch.found : PostUnanswered(batch)) => WInv'
<1> SUFFICES ASSUME WInv, NEW batch \in SUBSET watch.found, PostUnanswered(batch)
             PROVE WInv'
  OBVIOUS
<1>1. /\ ChainTypeOK' /\ events' = events /\ onChain' = onChain /\ head' = head
      /\ file' = file /\ since' = since /\ late' = late \cup {batch}
  BY DEF WInv, ChainTypeOK, PostUnanswered, chainVars, tables
<1>2. /\ watch.pc = "post" /\ watch.last \in Nat /\ batch \in SUBSET Transfer
      /\ watch' = [pc |-> "idle", last |-> watch.last, target |-> 0, to |-> 0, found |-> {}]
  BY DEF PostUnanswered, NextBatch, WInv, WatchTypeOK, Resting, Down
<1>3. WatchTypeOK'
  BY <1>1, <1>2 DEF WInv, WatchTypeOK
<1>4. Untouched'
  BY <1>1, <1>2 DEF WInv, Untouched, Down
<1>5. InOrder'
  BY <1>1, <1>2 DEF WInv, InOrder
<1>6. ShallowReorgs => Progressed'
  BY <1>1, <1>2 DEF WInv, Progressed, Settled, Answerable, Recorded
<1>7. ShallowReorgs => AllFinal'
  BY <1>1, <1>2 DEF WInv, AllFinal, Final, Recorded
<1> QED
  BY <1>1, <1>3, <1>4, <1>5, <1>6, <1>7 DEF WInv, ShallowReorgs

\* The API commits a POST whose caller gave up on it.
LEMMA LateKeeps == WInv /\ (\E batch \in late : CommitLate(batch)) => WInv'
<1> SUFFICES ASSUME WInv, NEW batch \in late, CommitLate(batch) PROVE WInv'
  OBVIOUS
<1>1. /\ ChainTypeOK' /\ UNCHANGED chainVars /\ onChain' = onChain /\ head' = head
      /\ file' = file /\ since' = since /\ watch' = watch /\ late' = late \ {batch}
  BY DEF WInv, ChainTypeOK, CommitLate, chainVars
<1>2. batch \in SUBSET Transfer /\ Ingest(batch)
  BY DEF CommitLate, WInv, WatchTypeOK
<1>3. WatchTypeOK'
  BY <1>1 DEF WInv, WatchTypeOK
<1>4. Untouched'
  BY <1>1 DEF WInv, Untouched
<1>5. InOrder'
  BY <1>1 DEF WInv, InOrder
<1>6. ASSUME ShallowReorgs PROVE Progressed'
  <2>1. Progressed
    BY <1>6 DEF WInv
  <2>2. \A l \in Logs : Recorded(l) => Recorded(l)'
    BY <1>2, BatchRecorded
  <2>3. \A n : Answerable(n) \subseteq Logs
    BY DEF Answerable
  <2> QED
    BY <2>1, <2>2, <2>3, <1>1 DEF Progressed, Settled, Answerable
<1>7. ASSUME ShallowReorgs PROVE AllFinal'
  <2> SUFFICES ASSUME since >= Lag PROVE AllFinal'
    BY <1>1 DEF AllFinal
  <2>1. AllFinal
    BY <1>7 DEF WInv
  <2>2. \A t \in batch : Final(t)
    BY <2>1 DEF AllFinal
  <2>3. \A l \in Logs : Recorded(l)' =>
           /\ events'[l].block > 0 /\ events'[l].block + Lag <= head'
           /\ onChain'[l] = [block |-> events'[l].block, fork |-> events'[l].fork]
    BY <2>1, <2>2, <1>1, <1>2, FinalRecords DEF WInv
  <2>4. \A t \in watch'.found : Final(t)'
    BY <2>1, <1>1 DEF AllFinal, Final
  <2>5. \A b \in late' : \A t \in b : Final(t)'
    BY <2>1, <1>1 DEF AllFinal, Final
  <2> QED
    BY <2>3, <2>4, <2>5 DEF AllFinal, Final
<1> QED
  BY <1>1, <1>3, <1>4, <1>5, <1>6, <1>7 DEF WInv, ShallowReorgs

-----------------------------------------------------------------------------
LEMMA WatchStart == AllInit => WInv
<1> SUFFICES ASSUME AllInit PROVE WInv
  OBVIOUS
<1> USE DEF AllInit, StoreInit, ChainInit, WatchInit
<1>1. ChainTypeOK
  BY DEF ChainTypeOK, Unmined
<1>2. WatchTypeOK
  BY DEF WatchTypeOK, Down
<1>3. Untouched
  BY DEF Untouched, Recorded, AbsentEvent
<1>4. InOrder
  BY DEF InOrder, Down
<1>5. Progressed
  BY DEF Progressed, Down
<1>6. AllFinal
  BY DEF AllFinal, Down, Recorded, AbsentEvent
<1> QED
  BY <1>1, <1>2, <1>3, <1>4, <1>5, <1>6 DEF WInv

LEMMA WatchStep == WInv /\ [WatchNext]_allVars => WInv'
<1> SUFFICES ASSUME WInv, [WatchNext]_allVars PROVE WInv'
  OBVIOUS
<1>1. CASE ChainNext /\ UNCHANGED watchVars
  BY <1>1, ChainKeeps
<1>2. CASE Watching
  <2>1. CASE FirstStart \/ Restart
    BY <2>1, StartKeeps
  <2>2. CASE Poll
    BY <2>2, PollKeeps
  <2>3. CASE FetchWindow
    BY <2>3, FetchKeeps
  <2>4. CASE \E batch \in SUBSET watch.found : PostBatch(batch)
    BY <2>4, PostKeeps
  <2>5. CASE \E batch \in SUBSET watch.found : PostUnanswered(batch)
    BY <2>5, UnansweredKeeps
  <2>6. CASE \E saved \in BOOLEAN : SaveWindow(saved)
    BY <2>6, SaveKeeps
  <2>7. CASE \E batch \in late : CommitLate(batch)
    BY <2>7, LateKeeps
  <2>8. CASE GiveUp \/ CrashWatcher \/ \E batch \in late : DropLate(batch)
    BY <2>8, FailureKeeps
  <2> QED
    BY <1>2, <2>1, <2>2, <2>3, <2>4, <2>5, <2>6, <2>7, <2>8 DEF Watching
<1>3. CASE UNCHANGED allVars
  BY <1>3 DEF allVars, tables, chainVars, watchVars, WInv, ChainTypeOK, WatchTypeOK, Untouched,
              InOrder, Progressed, Settled, Answerable, AllFinal, Final, Recorded, ShallowReorgs
<1> QED
  BY <1>1, <1>2, <1>3 DEF WatchNext

\* A committed batch of final transfers is one that Intake lets the engine see.
LEMMA FinalBatchIsIntake ==
  ASSUME ChainTypeOK, NEW batch \in SUBSET Transfer, Ingest(batch), \A t \in batch : Final(t)
  PROVE  \E b \in SUBSET Scanned : IngestEvents(b)
<1> DEFINE b == {t.log : t \in batch}
<1>1. ASSUME NEW t \in batch
      PROVE /\ t.log \in Logs /\ t.block \in Nat /\ t.block > 0 /\ t.block + Lag <= head
            /\ onChain[t.log].block = t.block /\ onChain[t.log].fork = t.fork
  <2>1. t.log \in Logs /\ t.block \in Nat
    BY DEF Transfer
  <2>2. Final(t)
    OBVIOUS
  <2> QED
    BY <2>1, <2>2 DEF Final
<1>2. b \in SUBSET Scanned
  <2> SUFFICES ASSUME NEW t \in batch PROVE t.log \in Scanned
    OBVIOUS
  <2>1. onChain[t.log].block # 0
    BY <1>1
  <2>2. onChain[t.log] # Unmined
    BY <2>1 DEF Unmined
  <2> QED
    BY <1>1, <2>2 DEF Scanned
<1>3. Valid(b)
  BY DEF Valid, Ingest
<1>4. events' = [l \in Logs |->
        IF l \in b /\ events[l].status = "absent"
          THEN [status |-> "pending", block |-> onChain[l].block, fork |-> onChain[l].fork]
          ELSE events[l]]
  <2>1. ASSUME NEW l \in Logs, \E t \in batch : t.log = l
        PROVE LET t == CHOOSE t \in batch : t.log = l
              IN t.block = onChain[l].block /\ t.fork = onChain[l].fork
    <3> DEFINE c == CHOOSE t \in batch : t.log = l
    <3>1. c \in batch /\ c.log = l
      BY <2>1
    <3> QED
      BY <3>1, <1>1
  <2>2. \A l \in Logs : l \in b <=> \E t \in batch : t.log = l
    OBVIOUS
  <2> QED
    BY <2>1, <2>2 DEF Ingest
<1>5. IngestEvents(b)
  BY <1>3, <1>4 DEF IngestEvents, Ingest
<1> QED
  BY <1>2, <1>5

(***************************************************************************)
(* Theorems.                                                               *)
(***************************************************************************)

\* The inductive invariant: what the watcher's process, its state file and
\* its unanswered POSTs hold agrees with the chain and the database.
THEOREM WatcherInvariance == WatchSpec => []WInv
BY WatchStart, WatchStep, PTL DEF WatchSpec

\* The tables, the chain, the process, its state file and the POSTs nobody
\* waits for keep their types.
THEOREM WatcherTypes == WatchSpec => []WatchTypeOK
<1>1. WInv => WatchTypeOK
  BY DEF WInv
<1> QED
  BY <1>1, WatcherInvariance, PTL

\* The state file never passes a transfer that is not in the database.
THEOREM CheckpointSafe == WatchSpec => []CheckpointCovers
<1>1. WInv => CheckpointCovers
  BY DEF WInv, CheckpointCovers, Progressed, Answerable
<1> QED
  BY <1>1, WatcherInvariance, PTL

\* A recorded transfer is still mined in the block it was recorded with.
THEOREM RecordsFinal == WatchSpec => []RecordsAreFinal
<1>1. WInv => RecordsAreFinal
  BY DEF WInv, RecordsAreFinal, AllFinal, Final
<1> QED
  BY <1>1, WatcherInvariance, PTL

\* Every write of the watcher to the recorded transfers, a late one included,
\* is a step of Intake: valid transfers of scanned blocks, as mined now.
THEOREM PostsRefineIntake == WatchSpec => PostsAreIngests
<1>1. ASSUME WInv, [WatchNext]_allVars
      PROVE [ShallowReorgs /\ since >= Lag /\ events' # events =>
               \E batch \in SUBSET Scanned : IngestEvents(batch)]_allVars
  <2> SUFFICES ASSUME ShallowReorgs, since >= Lag, events' # events
               PROVE \E batch \in SUBSET Scanned : IngestEvents(batch)
    OBVIOUS
  <2>1. AllFinal /\ ChainTypeOK
    BY <1>1 DEF WInv
  <2>2. ~(ChainNext /\ UNCHANGED watchVars)
    BY ChainKeepsTables DEF tables
  <2>3. Watching
    BY <1>1, <2>2 DEF WatchNext, allVars, tables
  <2>4. \/ \E batch \in SUBSET watch.found : PostBatch(batch)
        \/ \E batch \in late : CommitLate(batch)
    BY <2>3 DEF Watching, tables, FirstStart, Restart, Poll, FetchWindow, PostUnanswered, GiveUp,
                SaveWindow, CrashWatcher, DropLate
  <2>5. \E batch \in SUBSET Transfer : Ingest(batch) /\ \A t \in batch : Final(t)
    <3>1. CASE \E batch \in SUBSET watch.found : PostBatch(batch)
      BY <3>1, <1>1, <2>1 DEF PostBatch, WInv, WatchTypeOK, AllFinal
    <3>2. CASE \E batch \in late : CommitLate(batch)
      BY <3>2, <1>1, <2>1 DEF CommitLate, WInv, WatchTypeOK, AllFinal
    <3> QED
      BY <2>4, <3>1, <3>2
  <2> QED
    BY <2>1, <2>5, FinalBatchIsIntake
<1> QED
  BY <1>1, WatcherInvariance, PTL DEF WatchSpec, PostsAreIngests
=============================================================================
