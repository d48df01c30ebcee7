-------------------------------- MODULE Chain --------------------------------
(***************************************************************************)
(* The Ethereum node behind rpc_url, external to the repository, as its    *)
(* clients observe it: a head that advances, transfers mined into blocks,  *)
(* and reorganisations that replace every block from some height up.  A    *)
(* block hash is the pair of its height and the fork that mined it.        *)
(***************************************************************************)
EXTENDS Store

CONSTANTS
  MaxHead,   \* bound: the highest block mined
  MaxForks,  \* bound: the number of reorganisations
  MaxDepth   \* how many blocks a reorganisation replaces at most

ASSUME ChainAssumption == MaxHead \in Nat /\ MaxForks \in Nat /\ MaxDepth \in Nat

VARIABLES
  head,      \* eth_blockNumber
  fork,      \* reorganisations so far
  onChain    \* where each transfer is mined now

chainVars == <<head, fork, onChain>>

Unmined == [block |-> NoBlock, fork |-> 0]

ChainTypeOK ==
  /\ head \in Nat
  /\ fork \in Nat
  /\ onChain \in [Logs -> [block : Nat, fork : Nat]]

ChainInit ==
  /\ head = 0
  /\ fork = 0
  /\ onChain = [l \in Logs |-> Unmined]

\* A new block that includes the unmined transfers of S.
MineBlock(S) ==
  /\ head < MaxHead
  /\ head' = head + 1
  /\ onChain' = [l \in Logs |->
                   IF l \in S THEN [block |-> head + 1, fork |-> fork]
                              ELSE onChain[l]]
  /\ UNCHANGED <<fork, tables>>

\* The transfers above block b - 1, the mempool's included.
Movable(b) == {l \in Logs : onChain[l].block \notin 1..(b - 1)}

\* Blocks b and above are replaced by as many.  Their transfers and those of
\* the mempool are mined where place says, or wait (NoBlock).
Reorg(b, place) ==
  /\ fork < MaxForks
  /\ head < b + MaxDepth
  /\ fork' = fork + 1
  /\ onChain' = [l \in Logs |->
                   IF l \notin Movable(b) THEN onChain[l]
                   ELSE IF place[l] = NoBlock THEN Unmined
                   ELSE [block |-> place[l], fork |-> fork']]
  /\ UNCHANGED <<head, tables>>

ChainNext ==
  \/ \E S \in SUBSET {l \in Logs : onChain[l] = Unmined} : MineBlock(S)
  \/ \E b \in 1..head :
       \E place \in [Movable(b) -> {NoBlock} \cup b..head] : Reorg(b, place)

\* get_latest_block(): the height, or None (0) when the call fails.  The
\* genesis block, height 0, holds no transfer to confirm or to verify.
LatestBlock == {head, 0}
=============================================================================
