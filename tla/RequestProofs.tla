----------------------------- MODULE RequestProofs -----------------------------
(***************************************************************************)
(* The creation of invoices: the service is the engine with some of its    *)
(* creations (ServiceRunsEngine), takes a key once if clients wait for     *)
(* their answers, and asks for exactly what was requested.  The last needs *)
(* facts about the powers of ten that Money's conversions multiply with.   *)
(***************************************************************************)
EXTENDS Service, NoticeProofs

\* A set of naturals has a least one: of the intervals from 0 that it bounds,
\* which are finite sets, one contains no other.
LEMMA LeastNatural ==
  ASSUME NEW T, T \subseteq Nat, T # {}
  PROVE  \E x \in T : \A y \in T : x <= y
<1> DEFINE F == {0..k : k \in T}
<1>1. F \subseteq FiniteSubsetsOf(Nat) /\ F # {}
  <2>1. \A k \in T : 0..k \subseteq Nat /\ IsFiniteSet(0..k)
    BY FS_Interval
  <2> QED
    BY <2>1 DEF FiniteSubsetsOf
<1>2. IsWellFoundedOn(StrictSubsetOrdering(Nat), FiniteSubsetsOf(Nat))
  BY FS_StrictSubsetOrderingWellFounded
<1>3. \E X \in F : \A Y \in F : ~(<<Y, X>> \in StrictSubsetOrdering(Nat))
  <2> HIDE DEF F
  <2> QED
    BY <1>1, <1>2, WFMin
<1>4. PICK x \in T : \A Y \in F : ~(<<Y, 0..x>> \in StrictSubsetOrdering(Nat))
  BY <1>3
<1>5. ASSUME NEW y \in T, y < x PROVE FALSE
  <2>1. /\ 0..y \in F /\ 0..y \subseteq Nat /\ 0..x \subseteq Nat
        /\ 0..y \subseteq 0..x /\ x \in 0..x /\ x \notin 0..y
    BY <1>5
  <2>2. 0..y # 0..x
    BY <2>1
  <2> QED
    BY <1>4, <2>1, <2>2 DEF StrictSubsetOrdering
<1> QED
  BY <1>5

\* g holds the powers of ten up to n.
UpTo(g, n) ==
  /\ g \in [0..n -> Nat]
  /\ g[0] = 1
  /\ \A k \in 1..n : g[k] = 10 * g[k - 1]

LEMMA PowersUpTo == \A n \in Nat : \E g : UpTo(g, n)
<1> DEFINE T == {n \in Nat : ~\E g : UpTo(g, n)}
<1> SUFFICES ASSUME T # {} PROVE FALSE
  OBVIOUS
<1>1. PICK x \in T : \A y \in T : x <= y
  BY LeastNatural
<1>2. x # 0
  <2>1. UpTo([i \in 0..0 |-> 1], 0)
    BY DEF UpTo
  <2> QED
    BY <2>1
<1>3. x \in Nat /\ x - 1 \in Nat /\ x - 1 \notin T
  BY <1>1, <1>2
<1>4. PICK g : UpTo(g, x - 1)
  BY <1>3
<1>5. PICK h : h = [i \in 0..x |-> IF i = x THEN 10 * g[x - 1] ELSE g[i]]
  OBVIOUS
<1>6. UpTo(h, x)
  <2>1. g \in [0..(x - 1) -> Nat] /\ g[0] = 1 /\ \A k \in 1..(x - 1) : g[k] = 10 * g[k - 1]
    BY <1>4 DEF UpTo
  <2>2. x \in Nat \ {0}
    BY <1>2, <1>3
  <2>3. h \in [0..x -> Nat] /\ h[0] = 1
    BY <1>5, <2>1, <2>2
  <2>4. \A k \in 1..x : h[k] = 10 * h[k - 1]
    BY <1>5, <2>1, <2>2
  <2> QED
    BY <2>3, <2>4 DEF UpTo
<1> QED
  BY <1>6

LEMMA PowersAgree ==
  ASSUME NEW m \in Nat, NEW n \in Nat, NEW g, NEW h, UpTo(g, m), UpTo(h, n),
         NEW i \in Nat, i <= m, i <= n
  PROVE  g[i] = h[i]
<1> DEFINE T == {k \in 0..i : g[k] # h[k]}
<1> SUFFICES ASSUME T # {} PROVE FALSE
  OBVIOUS
<1>1. PICK x \in T : \A y \in T : x <= y
  <2>1. T \subseteq Nat
    OBVIOUS
  <2> HIDE DEF T
  <2> QED
    BY <2>1, LeastNatural
<1>2. x \in 0..i /\ g[x] # h[x] /\ g[0] = h[0]
  BY DEF UpTo
<1>3. x \in Nat \ {0} /\ x <= i
  BY <1>2
<1>6. x - 1 \in 0..i /\ x - 1 \notin T /\ x \in 1..m /\ x \in 1..n
  <2>1. x - 1 \in 0..i /\ x \in 1..m /\ x \in 1..n
    BY <1>3
  <2>2. x - 1 \notin T
    BY <1>1, <1>3
  <2> QED
    BY <2>1, <2>2
<1>4. g[x] = 10 * g[x - 1] /\ h[x] = 10 * h[x - 1]
  BY <1>6 DEF UpTo
<1> QED
  BY <1>2, <1>4, <1>6

\* The recursive definition defines a function.
LEMMA TenIsPower == Ten = [n \in Nat |-> IF n = 0 THEN 1 ELSE 10 * Ten[n - 1]]
<1> DEFINE top(n) == CHOOSE g : UpTo(g, n)
           f == [n \in Nat |-> top(n)[n]]
<1>1. \A n \in Nat : UpTo(top(n), n)
  BY PowersUpTo
<1>2. f[0] = 1
  BY <1>1 DEF UpTo
<1>3. ASSUME NEW n \in Nat, n # 0 PROVE f[n] = 10 * f[n - 1]
  <2> HIDE DEF top
  <2>1. n - 1 \in Nat /\ n - 1 <= n /\ n \in 1..n
    BY <1>3
  <2>2. top(n)[n] = 10 * top(n)[n - 1]
    BY <1>1, <2>1 DEF UpTo
  <2>3. top(n)[n - 1] = top(n - 1)[n - 1]
    BY <1>1, <2>1, PowersAgree
  <2> QED
    BY <2>1, <2>2, <2>3
<1>4. \A n \in Nat : f[n] = IF n = 0 THEN 1 ELSE 10 * f[n - 1]
  <2> HIDE DEF f
  <2> QED
    BY <1>2, <1>3
<1>5. f = [n \in Nat |-> IF n = 0 THEN 1 ELSE 10 * f[n - 1]]
  <2> HIDE DEF top
  <2>1. f = [n \in Nat |-> f[n]]
    OBVIOUS
  <2> HIDE DEF f
  <2> QED
    BY <1>4, <2>1
<1> HIDE DEF f
<1>6. \E t : t = [n \in Nat |-> IF n = 0 THEN 1 ELSE 10 * t[n - 1]]
  BY <1>5
<1> QED
  BY <1>6 DEF Ten

LEMMA TenPositive == \A n \in Nat : Ten[n] \in Nat \ {0}
<1> DEFINE T == {n \in Nat : Ten[n] \notin Nat \ {0}}
<1> SUFFICES ASSUME T # {} PROVE FALSE
  OBVIOUS
<1>1. PICK x \in T : \A y \in T : x <= y
  BY LeastNatural
<1>2. x \in Nat /\ (x # 0 => x - 1 \in Nat /\ x - 1 \notin T)
  BY <1>1
<1>3. Ten[x] = IF x = 0 THEN 1 ELSE 10 * Ten[x - 1]
  BY <1>2, TenIsPower
<1> QED
  BY <1>2, <1>3

LEMMA TenSum == \A a, b \in Nat : Ten[a + b] = Ten[a] * Ten[b]
<1> SUFFICES ASSUME NEW a \in Nat PROVE \A b \in Nat : Ten[a + b] = Ten[a] * Ten[b]
  OBVIOUS
<1> DEFINE T == {b \in Nat : Ten[a + b] # Ten[a] * Ten[b]}
<1> SUFFICES ASSUME T # {} PROVE FALSE
  OBVIOUS
<1>1. PICK x \in T : \A y \in T : x <= y
  BY LeastNatural
<1>2. x \in Nat /\ (x # 0 => x - 1 \in Nat /\ x - 1 \notin T)
  BY <1>1
<1>3. \A n \in Nat : Ten[n] = (IF n = 0 THEN 1 ELSE 10 * Ten[n - 1]) /\ Ten[n] \in Nat
  BY TenIsPower, TenPositive
<1>4. CASE x = 0
  BY <1>3, <1>4
<1>5. CASE x # 0
  <2>1. Ten[a + x] = 10 * Ten[a + x - 1] /\ Ten[x] = 10 * Ten[x - 1]
    BY <1>2, <1>3, <1>5
  <2>2. Ten[a + (x - 1)] = Ten[a] * Ten[x - 1]
    BY <1>2, <1>5
  <2>3. a + (x - 1) = a + x - 1 /\ Ten[a] \in Nat /\ Ten[x - 1] \in Nat
    BY <1>2, <1>3, <1>5
  <2>4. Ten[a + x] = Ten[a] * Ten[x]
    BY <2>1, <2>2, <2>3
  <2> QED
    BY <2>4
<1> QED
  BY <1>4, <1>5

LEMMA TenOrder ==
  ASSUME NEW a \in Nat, NEW b \in Nat, a <= b
  PROVE  /\ Ten[a] <= Ten[b]
         /\ \E w \in Nat \ {0} : Ten[b] = Ten[a] * w
<1>1. b - a \in Nat /\ a + (b - a) = b
  OBVIOUS
<1>2. Ten[b] = Ten[a] * Ten[b - a]
  BY <1>1, TenSum
<1>3. Ten[a] \in Nat \ {0} /\ Ten[b - a] \in Nat \ {0}
  BY <1>1, TenPositive
<1>4. Ten[a] * Ten[b - a] >= Ten[a]
  BY <1>3
<1> QED
  BY <1>2, <1>3, <1>4

LEMMA ExactQuotient ==
  ASSUME NEW u \in Nat \ {0}, NEW w \in Nat
  PROVE  (u * w) \div u = w /\ (u * w) % u = 0
<1>1. (u * w) \div u = w
  OBVIOUS
<1>2. (u * w) % u = 0
  OBVIOUS
<1> QED
  BY <1>1, <1>2

-----------------------------------------------------------------------------
(***************************************************************************)
(* The conversions of money.py.                                            *)
(***************************************************************************)

\* The unit in the last place is the least power of ten that n allows.
LEMMA UlpIsLeast ==
  ASSUME NEW n \in Nat, NEW p \in 0..MaxExcess, n < Ten[p] * Limit
  PROVE  /\ \E k \in 0..MaxExcess : Ulp(n) = Ten[k]
         /\ Ulp(n) <= Ten[p]
<1> DEFINE K == {k \in 0..MaxExcess : n < Ten[k] * Limit}
<1>1. K \subseteq Nat /\ p \in K /\ MaxExcess \in Nat
  BY MoneyAssumption
<1>2. PICK x \in K : \A y \in K : x <= y
  <2> HIDE DEF K
  <2> QED
    BY <1>1, LeastNatural
<1>3. /\ Ten[x] \in Ulps /\ n < Ten[x] * Limit
      /\ \A v \in Ulps : n < v * Limit => Ten[x] <= v
  <2>1. Ten[x] \in Ulps /\ n < Ten[x] * Limit
    BY DEF Ulps
  <2>2. ASSUME NEW v \in Ulps, n < v * Limit PROVE Ten[x] <= v
    <3>1. PICK j \in 0..MaxExcess : v = Ten[j]
      BY DEF Ulps
    <3>2. x \in Nat /\ j \in Nat /\ x <= j
      BY <1>1, <1>2, <2>2, <3>1
    <3> QED
      BY <3>1, <3>2, TenOrder
  <2> QED
    BY <2>1, <2>2
<1>4. Ulp(n) \in Ulps /\ \A v \in Ulps : n < v * Limit => Ulp(n) <= v
  <2> DEFINE Last(u) == n < u * Limit /\ \A v \in Ulps : n < v * Limit => u <= v
  <2>1. \E u \in Ulps : Last(u)
    BY <1>3
  <2>2. Ulp(n) = CHOOSE u \in Ulps : Last(u)
    BY DEF Ulp
  <2> HIDE DEF Last
  <2>3. Ulp(n) \in Ulps /\ Last(Ulp(n))
    BY <2>1, <2>2
  <2> QED
    BY <2>3 DEF Last
<1>5. Ten[p] \in Ulps
  BY DEF Ulps
<1> QED
  BY <1>4, <1>5 DEF Ulps

\* A multiple of its unit in the last place is not rounded.
LEMMA RoundedExact ==
  ASSUME NEW u \in Nat \ {0}, NEW q \in Nat, Ulp(u * q) = u
  PROVE  Rounded(u * q) = u * q
<1>1. (u * q) \div u = q /\ (u * q) % u = 0
  BY ExactQuotient
<1>2. ~(2 * 0 > u) /\ ~(2 * 0 = u)
  OBVIOUS
<1> QED
  BY <1>1, <1>2 DEF Rounded

LEMMA RoundedFits ==
  ASSUME NEW n \in Nat, n < Limit
  PROVE  Rounded(n) = n
<1>1. 0 \in 0..MaxExcess /\ Ten[0] = 1 /\ Limit \in Nat
  BY MoneyAssumption, TenIsPower, TenPositive DEF Limit
<1>2. n < Ten[0] * Limit
  BY <1>1
<1>3. PICK k \in 0..MaxExcess : Ulp(n) = Ten[k] /\ Ten[k] <= 1
  BY <1>1, <1>2, UlpIsLeast
<1>4. Ten[k] \in Nat \ {0}
  BY TenPositive, MoneyAssumption
<1>5. Ulp(1 * n) = 1 /\ 1 * n = n
  BY <1>3, <1>4
<1> QED
  BY <1>5, RoundedExact

\* Scaling an amount that fits appends zeros, which no rounding touches.
LEMMA ScaledExact ==
  ASSUME NEW d \in Decimals, d.m < Limit
  PROVE  Scaled(d) = d.m * Ten[Places]
<1> DEFINE n == d.m * Ten[Places]
<1>1. /\ d.m \in Nat /\ Places \in Nat /\ Places \in 0..MaxExcess
      /\ Ten[Places] \in Nat \ {0} /\ Limit \in Nat \ {0}
  BY MoneyAssumption, TenPositive DEF Decimals, Limit
<1>2. n \in Nat /\ n < Ten[Places] * Limit
  BY <1>1
<1>3. PICK k \in 0..MaxExcess : Ulp(n) = Ten[k] /\ Ten[k] <= Ten[Places]
  BY <1>1, <1>2, UlpIsLeast
<1>4. k \in Nat /\ Ten[k] \in Nat \ {0}
  BY <1>3, TenPositive, MoneyAssumption
<1>5. PICK w \in Nat : Ten[Places] = Ten[k] * w
  <2>1. CASE k <= Places
    BY <1>1, <1>4, <2>1, TenOrder
  <2>2. CASE Places <= k
    <3>1. Ten[Places] <= Ten[k]
      BY <1>1, <1>4, <2>2, TenOrder
    <3>2. Ten[Places] = Ten[k] * 1
      BY <1>1, <1>3, <1>4, <3>1
    <3> QED
      BY <3>2
  <2> QED
    BY <1>1, <1>4, <2>1, <2>2
<1>6. d.m * w \in Nat /\ n = Ten[k] * (d.m * w)
  BY <1>1, <1>4, <1>5
<1>7. Rounded(n) = n
  <2> HIDE DEF n
  <2> QED
    BY <1>3, <1>4, <1>6, RoundedExact
<1> QED
  BY <1>7 DEF Scaled

\* parse_amount_to_base_units() is exact on what it accepts.
LEMMA ParseExact ==
  ASSUME NEW d \in Decimals, d.m < Limit, Accepts(d)
  PROVE  Parse(d) \in Nat /\ Parse(d) * Ten[d.e] = d.m * Ten[Places]
<1> DEFINE s == d.m * Ten[Places]
           t == Ten[d.e]
<1>1. s \in Nat /\ t \in Nat \ {0}
  BY TenPositive, MoneyAssumption DEF Decimals
<1>2. s % t = 0 /\ Parse(d) = s \div t
  BY ScaledExact DEF Accepts, Parse
<1>3. s \div t \in Nat /\ (s \div t) * t = s
  <2> HIDE DEF s, t
  <2> QED
    BY <1>1, <1>2
<1> QED
  BY <1>2, <1>3

\* base_units_to_decimal_string() is undone by parse_amount_to_base_units().
LEMMA RenderParses ==
  ASSUME NEW n \in Nat \ {0}, n < Limit
  PROVE  Accepts(Render(n)) /\ Parse(Render(n)) = n
<1> DEFINE Z == {k \in 0..Places : n % Ten[k] = 0}
           G == {Places - k : k \in Z}
<1>1. Places \in Nat /\ Places \in 0..MaxExcess /\ \A k \in Nat : Ten[k] \in Nat \ {0}
  BY MoneyAssumption, TenPositive
<1>2. \E k \in 0..Places : n % Ten[k] = 0 /\ \A j \in 0..Places : n % Ten[j] = 0 => j <= k
  <2>1. 0 \in Z
    <3>1. Ten[0] = 1 /\ n % 1 = 0
      BY TenIsPower
    <3> QED
      BY <1>1, <3>1
  <2>2. G \subseteq Nat /\ Places \in G
    BY <1>1, <2>1
  <2>3. PICK x \in G : \A y \in G : x <= y
    <3> HIDE DEF G
    <3> QED
      BY <2>2, LeastNatural
  <2>4. PICK k \in Z : x = Places - k
    BY <2>3
  <2>5. ASSUME NEW j \in Z PROVE j <= k
    <3>1. Places - j \in G /\ k \in 0..Places /\ j \in 0..Places
      BY <2>4, <2>5
    <3>2. x <= Places - j
      BY <2>3, <3>1
    <3> QED
      BY <1>1, <2>4, <3>1, <3>2
  <2> QED
    BY <2>4, <2>5
<1>3. PICK k \in 0..Places : n % Ten[k] = 0 /\ Render(n) = [m |-> n \div Ten[k], e |-> Places - k]
  BY <1>2, RoundedFits DEF Render
<1> DEFINE m == n \div Ten[k]
           e == Places - k
           d == [m |-> m, e |-> e]
<1>4. k \in Nat /\ e \in Nat /\ k + e = Places /\ Ten[k] \in Nat \ {0} /\ Ten[e] \in Nat \ {0}
  BY <1>1, <1>3
<1>5. m \in Nat /\ m * Ten[k] = n
  BY <1>3, <1>4
<1>6. m \in Nat \ {0} /\ m <= n /\ m < Limit
  <2>1. Limit \in Nat
    BY MoneyAssumption, TenPositive DEF Limit
  <2> HIDE DEF m
  <2>2. m # 0 /\ m <= n
    BY <1>4, <1>5
  <2> QED
    BY <1>5, <2>1, <2>2
<1>7. d \in Decimals /\ d.m = m /\ d.e = e
  BY <1>4, <1>5 DEF Decimals
<1>8. Scaled(d) = Ten[e] * n
  <2>1. Scaled(d) = m * Ten[Places]
    BY <1>6, <1>7, ScaledExact
  <2>2. Ten[Places] = Ten[k] * Ten[e]
    BY <1>4, TenSum
  <2> HIDE DEF m, d, e
  <2>3. m * (Ten[k] * Ten[e]) = Ten[e] * (m * Ten[k])
    BY <1>4, <1>5
  <2> QED
    BY <1>5, <2>1, <2>2, <2>3
<1>9. (Ten[e] * n) % Ten[e] = 0 /\ (Ten[e] * n) \div Ten[e] = n
  BY <1>4, ExactQuotient
<1> QED
  BY <1>3, <1>6, <1>7, <1>8, <1>9 DEF Accepts, Parse

-----------------------------------------------------------------------------
(***************************************************************************)
(* The service.                                                            *)
(***************************************************************************)

\* A created invoice is one of those Intake may create.
LEMMA CommitCreates ==
  ASSUME NEW c \in Clients, NEW i \in InvoiceIds, NEW amount \in Amounts,
         CommitInvoice(c, i, amount)
  PROVE  Parse(amount) \in Requests /\ CreateInvoice(i, Parse(amount))
BY ApiAssumption DEF CommitInvoice

LEMMA ServiceStep == [HastyNext]_allVars => [Next]_vars
<1> SUFFICES ASSUME HastyNext PROVE [Next]_vars
  BY DEF allVars
<1>1. CASE ApiNext /\ UNCHANGED <<chainVars, sessions>>
  <2>1. ASSUME NEW c \in Clients, NEW i \in InvoiceIds, NEW amount \in Amounts,
               CommitInvoice(c, i, amount)
        PROVE  Next
    <3>1. IntakeNext
      BY <2>1, CommitCreates DEF IntakeNext, Creating
    <3> QED
      BY <1>1, <3>1 DEF Next, Requesting
  <2>2. ASSUME UNCHANGED tables PROVE UNCHANGED vars
    BY <1>1, <2>2 DEF vars
  <2> QED
    BY <1>1, <2>1, <2>2 DEF ApiNext, FindUnused, DropRequest
<1>2. CASE Loops
  BY <1>2 DEF Loops, Next, Requesting, IntakeNext
<1> QED
  BY <1>1, <1>2 DEF HastyNext

\* What no session but a creation changes of an invoice.
LEMMA AmountsStay ==
  ASSUME TypeInv, MoneyInv, SessionsCreated, Loops
  PROVE  /\ Created' = Created
         /\ \A i \in InvoiceIds : invoices'[i].amount = invoices[i].amount
<1> DEFINE Stays(i) == /\ invoices'[i].amount = invoices[i].amount
                       /\ invoices'[i].status = "absent" <=> invoices[i].status = "absent"
<1> SUFFICES ASSUME NEW i \in InvoiceIds PROVE Stays(i)
  BY DEF Created
<1>1. UNCHANGED invoices => Stays(i)
  OBVIOUS
<1>2. CASE World
  BY <1>1, <1>2 DEF World, ChainNext, MineBlock, Reorg, tables
<1>3. CASE Arriving
  BY <1>1, <1>3 DEF Arriving, ElapseTtl, IngestEvents
<1>4. CASE Processing
  <2>1. CASE CreditEvent
    <3>1. proc.log # NoLog /\ proc.invoice # NoInvoice
      BY <2>1, CreditWrites, NoLogAssumption, IdsAssumption DEF NoInvoice
    <3>2. /\ invoices[proc.invoice].status # "absent"
          /\ invoices[proc.invoice].amount = Value[proc.log]
      BY <3>1 DEF MoneyInv, MatchStillGood
    <3> QED
      BY <2>1, <3>2, CreditWrites
  <2> QED
    BY <1>1, <1>4, <2>1 DEF Processing, ProcNext, MatchEvent, MissEvent, SkipEvent,
                            AbortProcessor, tables
<1>5. CASE Sweeping
  <2>1. CASE CommitSweep
    BY <2>1, SweepWrites DEF SessionsCreated, Created
  <2> QED
    BY <1>1, <1>5, <2>1 DEF Sweeping, SweepNext, SelectAwaiting, SelectConfirming, AbortSweep,
                            tables
<1>6. CASE Sending
  <2>1. ASSUME NEW d \in disp.posted, CommitDelivered(d) PROVE Stays(i)
    BY <2>1, SettleWrites DEF SessionsCreated, Created
  <2> QED
    BY <1>1, <1>6, <2>1 DEF Sending, DispNext, RefuseDelivery, PostDelivery, CommitFailed,
                            AbortDispatch, ElapseBackoff, tables
<1>7. CASE Verifying
  <2>1. CASE CommitPass
    <3>1. CASE i \in Reopened
      <4>1. PICK l \in recon.lost : payments[l].invoice = i
        BY <2>1, <3>1, PassWrites
      <4>2. invoices[i].status \in Held
        BY <4>1 DEF MoneyInv, PassStillGood, CreditedInFull
      <4>3. invoices'[i].status = "AWAITING_PAYMENT" /\ invoices'[i].amount = invoices[i].amount
        BY <2>1, <3>1, PassWrites
      <4> QED
        BY <4>2, <4>3 DEF Held
    <3>2. CASE i \notin Reopened
      BY <2>1, <3>2, PassWrites
    <3> QED
      BY <3>1, <3>2
  <2> QED
    BY <1>1, <1>7, <2>1 DEF Verifying, ReconNext, Rescue, ListPayments, KeepPayment, LosePayment,
                            BreakOff, AbortPass, tables
<1> QED
  BY <1>2, <1>3, <1>4, <1>5, <1>6, <1>7 DEF Loops

\* Sessions read the invoices they are to write from the table.
LEMMA SessionsRead ==
  ASSUME TypeInv, SessionsCreated, Loops, Created' = Created
  PROVE  SessionsCreated'
<1>1. UNCHANGED <<swp, disp>> => SessionsCreated'
  BY DEF SessionsCreated
<1>2. CASE World
  BY <1>1, <1>2 DEF World, sessions
<1>3. CASE Arriving /\ UNCHANGED <<chainVars, sessions>>
  BY <1>1, <1>3 DEF sessions
<1>4. CASE Processing
  BY <1>1, <1>4 DEF Processing
<1>5. CASE Sweeping
  <2>1. SweepNext /\ UNCHANGED disp
    BY <1>5 DEF Sweeping
  <2>2. swp'.expiring \cup swp'.confirming \subseteq Created
    <3>1. ASSUME NEW latest, SelectAwaiting(latest)
          PROVE  swp'.expiring \cup swp'.confirming \subseteq Created
      BY <3>1 DEF SelectAwaiting, SweepIdle, InStatus, Created
    <3>2. CASE SelectConfirming
      BY <3>2 DEF SelectConfirming, SweepIdle, Deep, InStatus, SessionsCreated, Created
    <3>3. CASE CommitSweep \/ AbortSweep
      BY <3>3 DEF CommitSweep, AbortSweep, SweepIdle
    <3> QED
      BY <2>1, <3>1, <3>2, <3>3 DEF SweepNext
  <2> QED
    BY <2>1, <2>2 DEF SessionsCreated
<1>6. CASE Sending
  <2>1. DispNext /\ UNCHANGED swp
    BY <1>6 DEF Sending
  <2>2. disp' = NoAnswer => SessionsCreated'
    BY <2>1 DEF SessionsCreated, NoAnswer
  <2>3. ASSUME NEW d \in Due, NEW ok \in BOOLEAN, PostDelivery(d, ok) PROVE SessionsCreated'
    <3>1. disp'.posted = {d} /\ (disp'.settles => invoices[d.invoice].status = "CONFIRMED")
      BY <2>3 DEF PostDelivery
    <3>2. d.invoice \in InvoiceIds
      BY DEF Due, TypeInv, TypeOK, StoreTypeOK, DeliveryRow
    <3>3. disp'.settles => d.invoice \in Created
      BY <3>1, <3>2 DEF Created
    <3> QED
      BY <2>1, <3>1, <3>3 DEF SessionsCreated
  <2> QED
    BY <1>1, <2>1, <2>2, <2>3 DEF DispNext, RefuseDelivery, CommitDelivered, CommitFailed,
                                  AbortDispatch, ElapseBackoff
<1>7. CASE Verifying
  BY <1>1, <1>7 DEF Verifying
<1> QED
  BY <1>2, <1>3, <1>4, <1>5, <1>6, <1>7 DEF Loops

\* A created invoice asks for what its request is parsed to, and no later step
\* changes what it asks for.
LEMMA ServiceKeeps == IInv /\ ServiceInv /\ [HastyNext]_allVars => ServiceInv'
<1> SUFFICES ASSUME IInv, ServiceInv, [HastyNext]_allVars PROVE ServiceInv'
  OBVIOUS
<1>1. CASE Loops /\ UNCHANGED apiVars
  <2>1. /\ Created' = Created
        /\ \A i \in InvoiceIds : invoices'[i].amount = invoices[i].amount
    BY <1>1, AmountsStay DEF IInv, ServiceInv
  <2>2. SessionsCreated'
    BY <1>1, <2>1, SessionsRead DEF IInv, ServiceInv
  <2>3. AmountsAsAsked'
    BY <1>1, <2>1 DEF ServiceInv, AmountsAsAsked, apiVars, Created
  <2>4. ApiTypeOK'
    BY <1>1 DEF ServiceInv, ApiTypeOK, apiVars
  <2> QED
    BY <2>2, <2>3, <2>4 DEF ServiceInv
<1>2. ASSUME UNCHANGED <<keyOf, asked, invoices, sessions>>,
             pending' \in [Clients -> Keys \cup {NoKey}]
      PROVE  ServiceInv'
  <2>1. Created' = Created /\ UNCHANGED <<swp, disp>>
    BY <1>2 DEF Created, sessions
  <2> QED
    BY <1>2, <2>1 DEF ServiceInv, ApiTypeOK, SessionsCreated, AmountsAsAsked
<1>3. ASSUME NEW c \in Clients, NEW i \in InvoiceIds, NEW amount \in Amounts,
             CommitInvoice(c, i, amount), UNCHANGED sessions
      PROVE  ServiceInv'
  <2>1. /\ pending[c] \in Keys \cup {NoKey}
        /\ keyOf' = [keyOf EXCEPT ![i] = pending[c]]
        /\ asked' = [asked EXCEPT ![i] = amount]
        /\ pending' = [pending EXCEPT ![c] = NoKey]
        /\ Accepts(amount)
    BY <1>3 DEF CommitInvoice, ServiceInv, ApiTypeOK
  <2>2. ApiTypeOK'
    BY <2>1 DEF ServiceInv, ApiTypeOK
  <2>3. /\ invoices'[i].status = "AWAITING_PAYMENT" /\ invoices'[i].amount = Parse(amount) + i
        /\ \A j \in InvoiceIds \ {i} : invoices'[j] = invoices[j]
    BY <1>3 DEF CommitInvoice, CreateInvoice, AbsentInvoice, IInv, TypeInv, TypeOK, StoreTypeOK
  <2>4. Created' = Created \cup {i}
    BY <2>3 DEF Created
  <2>5. AmountsAsAsked'
    BY <2>1, <2>3, <2>4 DEF ServiceInv, ApiTypeOK, AmountsAsAsked, Created
  <2>6. SessionsCreated'
    BY <1>3, <2>4 DEF ServiceInv, SessionsCreated, sessions
  <2> QED
    BY <2>2, <2>5, <2>6 DEF ServiceInv
<1>4. CASE ApiNext /\ UNCHANGED <<chainVars, sessions>>
  <2>1. ASSUME NEW c \in Clients, NEW key \in Keys, FindUnused(c, key) PROVE ServiceInv'
    BY <1>2, <1>4, <2>1 DEF FindUnused, ServiceInv, ApiTypeOK, tables
  <2>2. ASSUME NEW c \in Clients, DropRequest(c) PROVE ServiceInv'
    BY <1>2, <1>4, <2>2 DEF DropRequest, ServiceInv, ApiTypeOK, tables
  <2> QED
    BY <1>3, <1>4, <2>1, <2>2 DEF ApiNext
<1>5. CASE UNCHANGED allVars
  BY <1>2, <1>5 DEF allVars, vars, apiVars, tables, ServiceInv, ApiTypeOK
<1> QED
  BY <1>1, <1>4, <1>5 DEF HastyNext

\* While clients wait, the key a request is about to store is its own.
LEMMA KeysKeep ==
  ApiTypeOK /\ KeysApart /\ OneInvoicePerKey /\ [HastyNext /\ Patient]_allVars
    => (KeysApart /\ OneInvoicePerKey)'
<1> SUFFICES ASSUME ApiTypeOK, KeysApart, OneInvoicePerKey, [HastyNext /\ Patient]_allVars
             PROVE  (KeysApart /\ OneInvoicePerKey)'
  OBVIOUS
<1>1. ASSUME UNCHANGED <<keyOf, pending>> PROVE (KeysApart /\ OneInvoicePerKey)'
  BY <1>1 DEF KeysApart, Holders, OneInvoicePerKey
<1>2. ASSUME Patient, NEW c \in Clients, NEW key \in Keys, FindUnused(c, key)
      PROVE  (KeysApart /\ OneInvoicePerKey)'
  <2>1. pending' = [pending EXCEPT ![c] = key] /\ Holders(key) = {} /\ UNCHANGED keyOf
    BY <1>2 DEF FindUnused
  <2>2. \A k : Holders(k)' = Holders(k)
    BY <2>1 DEF Holders
  <2>3. \A d \in Clients : pending'[d] # NoKey => Holders(pending'[d]) = {}
    BY <2>1 DEF ApiTypeOK, KeysApart
  <2>4. KeysApart'
    BY <1>2, <2>2, <2>3 DEF KeysApart, Patient
  <2> QED
    BY <2>1, <2>4 DEF OneInvoicePerKey
<1>3. ASSUME NEW c \in Clients, NEW i \in InvoiceIds, NEW amount \in Amounts,
             CommitInvoice(c, i, amount)
      PROVE  (KeysApart /\ OneInvoicePerKey)'
  <2>1. keyOf' = [keyOf EXCEPT ![i] = pending[c]] /\ pending' = [pending EXCEPT ![c] = NoKey]
    BY <1>3 DEF CommitInvoice
  <2>2. pending[c] # NoKey => \A j \in InvoiceIds : keyOf[j] # pending[c]
    BY DEF KeysApart, Holders
  <2>3. OneInvoicePerKey'
    BY <2>1, <2>2 DEF ApiTypeOK, OneInvoicePerKey
  <2>4. ASSUME NEW d \in Clients, pending'[d] # NoKey
        PROVE  /\ \A j \in InvoiceIds : keyOf'[j] # pending'[d]
               /\ \A b \in Clients : pending'[b] = pending'[d] => b = d
    <3>1. d # c /\ pending'[d] = pending[d] /\ pending[d] # pending[c]
      BY <2>1, <2>4 DEF ApiTypeOK, KeysApart
    <3>2. \A j \in InvoiceIds : keyOf'[j] # pending[d]
      BY <2>1, <2>4, <3>1 DEF ApiTypeOK, KeysApart, Holders
    <3>3. \A b \in Clients : pending'[b] = pending[d] => b = d
      BY <2>1, <2>4, <3>1 DEF ApiTypeOK, KeysApart
    <3> QED
      BY <3>1, <3>2, <3>3
  <2>5. KeysApart'
    BY <2>4 DEF KeysApart, Holders
  <2> QED
    BY <2>3, <2>5
<1>4. ASSUME NEW c \in Clients, DropRequest(c) PROVE (KeysApart /\ OneInvoicePerKey)'
  <2>1. pending' = [pending EXCEPT ![c] = NoKey] /\ UNCHANGED keyOf
    BY <1>4 DEF DropRequest
  <2>2. \A k : Holders(k)' = Holders(k)
    BY <2>1 DEF Holders
  <2>3. KeysApart'
    BY <2>1, <2>2 DEF ApiTypeOK, KeysApart
  <2> QED
    BY <2>1, <2>3 DEF OneInvoicePerKey
<1> QED
  BY <1>1, <1>2, <1>3, <1>4 DEF HastyNext, ApiNext, apiVars, allVars

\* The service's API creates invoices as the engine's requests do, so what
\* holds of the engine in every behaviour holds of the service.
THEOREM ServiceRunsEngine == HastySpec => Spec
BY ServiceStep, PTL DEF HastySpec, ServiceInit, Spec

\* Nothing is created, asked or written at the start.
LEMMA InitService == ServiceInit => ServiceInv /\ KeysApart /\ OneInvoicePerKey
<1> SUFFICES ASSUME ServiceInit PROVE ServiceInv /\ KeysApart /\ OneInvoicePerKey
  OBVIOUS
<1>1. Created = {}
  BY DEF ServiceInit, Init, StoreInit, AbsentInvoice, Created
<1>2. SessionsCreated
  BY DEF ServiceInit, Init, SweepInit, SweepIdle, DispInit, NoAnswer, SessionsCreated
<1>3. ApiTypeOK
  BY DEF ServiceInit, ApiInit, ApiTypeOK
<1>4. KeysApart /\ OneInvoicePerKey
  BY DEF ServiceInit, ApiInit, KeysApart, OneInvoicePerKey
<1> QED
  BY <1>1, <1>2, <1>3, <1>4 DEF ServiceInv, AmountsAsAsked

\* No credit, rollback or stale write changes what an invoice asks for.
THEOREM ServiceInvariance == HastySpec => []ServiceInv
BY InitService, ServiceKeeps, ServiceRunsEngine, Invariance, PTL DEF HastySpec

\* The keys, the amounts asked for and the requests keep their types.
THEOREM ApiTypes == HastySpec => []ApiTypeOK
<1>1. ServiceInv => ApiTypeOK
  BY DEF ServiceInv
<1> QED
  BY <1>1, ServiceInvariance, PTL

\* A behaviour whose clients wait is one of the service.
LEMMA PatientIsHasty == PatientSpec => HastySpec
<1>1. [HastyNext /\ Patient]_allVars => [HastyNext]_allVars
  OBVIOUS
<1> QED
  BY <1>1, PTL DEF PatientSpec, HastySpec

\* If no client repeats a call before the one before has ended, what a request
\* found unused stays unused until its commit, whatever the loops do meanwhile.
THEOREM KeysStayApart == PatientSpec => [](KeysApart /\ OneInvoicePerKey)
BY InitService, KeysKeep, PatientIsHasty, ApiTypes, PTL DEF PatientSpec

\* Then an idempotency key has one invoice.
THEOREM OneKeyOneInvoice == PatientSpec => []OneInvoicePerKey
BY KeysStayApart, PTL

\* The invoice asks for the amount of its request and its offset, exactly, if
\* the amount has no more digits than Decimal keeps.
THEOREM ConvertsExactly == HastySpec => []ConvertedExactly
<1>1. ServiceInv => ConvertedExactly
  <2> SUFFICES ASSUME ServiceInv, NEW i \in Created, asked[i].m < Limit
               PROVE  (invoices[i].amount - i) * Ten[asked[i].e] = asked[i].m * Ten[Places]
    BY DEF ConvertedExactly
  <2>1. /\ asked[i] \in Decimals /\ Accepts(asked[i])
        /\ invoices[i].amount = Parse(asked[i]) + i
    BY ApiAssumption DEF ServiceInv, AmountsAsAsked
  <2>2. /\ Parse(asked[i]) \in Nat
        /\ Parse(asked[i]) * Ten[asked[i].e] = asked[i].m * Ten[Places]
    BY <2>1, ParseExact
  <2>3. i \in Nat
    BY IdsAssumption DEF Created
  <2>4. invoices[i].amount - i = Parse(asked[i])
    BY <2>1, <2>2, <2>3
  <2> QED
    BY <2>2, <2>4
<1> QED
  BY <1>1, ServiceInvariance, PTL

\* What the checkout page parses out of the rendered amount is the amount.
THEOREM QuotesReadBack == ASSUME QuotesFit PROVE HastySpec => []QuotesParseBack
<1>1. ServiceInv => QuotesParseBack
  <2> SUFFICES ASSUME ServiceInv, NEW i \in Created
               PROVE  /\ Accepts(Render(invoices[i].amount))
                      /\ Parse(Render(invoices[i].amount)) = invoices[i].amount
    BY DEF QuotesParseBack
  <2>1. Parse(asked[i]) \in Requests /\ invoices[i].amount = Parse(asked[i]) + i
    BY ApiAssumption DEF ServiceInv, AmountsAsAsked
  <2>2. i \in InvoiceIds /\ i \in Nat \ {0} /\ Parse(asked[i]) \in Nat
    BY <2>1, IdsAssumption, RequestsAssumption DEF Created
  <2>3. invoices[i].amount \in Nat \ {0} /\ invoices[i].amount < Limit
    BY <2>1, <2>2 DEF QuotesFit
  <2> QED
    BY <2>3, RenderParses
<1> QED
  BY <1>1, ServiceInvariance, PTL
=============================================================================
