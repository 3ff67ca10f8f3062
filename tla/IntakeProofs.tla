----------------------------- MODULE IntakeProofs -----------------------------
(***************************************************************************)
(* Proofs about how clients, policies and premiums come in: applications   *)
(* that become policies, rosters of policies and uploaded premiums, for    *)
(* any number of requests, rows, files and restarts.                       *)
(***************************************************************************)
EXTENDS ApplicationConversion, RosterImport, PremiumImport, Sums, SequenceTheorems
-------------------------------------------------------------------------------
(* Applications.                                                            *)

ApplicationSpec == ApplicationInit /\ [][ApplicationNext]_applicationVars

\* What a request has in hand is a record of these fields.
IsRequest(q) ==
    q = [step |-> q.step, draft |-> q.draft, app |-> q.app, count |-> q.count, no |-> q.no,
         client |-> q.client, own |-> q.own, policy |-> q.policy, left |-> q.left, tell |-> q.tell]

\* A policy of client c, made of application a.
Has(id, c, a) == \E p \in policies : p.id = id /\ p.client = c /\ p.app = a
Working == {"beneficiaries", "account", "approve"}
SharesGiven(c, a) == Cardinality(SharesOf(c)) >= Len(apps[a].form.shares)

\* What a request in the middle of a conversion has already made.
RequestOK(q) ==
    /\ IsRequest(q) /\ q.client \in Nat
    /\ q.step = "submit" => q.draft[1] \in Applicants /\ q.draft[2] \in Forms /\ q.count \in Nat
    /\ q.step \notin {"idle", "submit"} => q.app \in DOMAIN apps
    /\ q.step \in Working => Has(q.policy, q.client, q.app)
    /\ q.step \notin Working => q.policy = None
    /\ q.step = "beneficiaries" =>
         /\ q.left \in Seq(Nat)
         /\ Cardinality(SharesOf(q.client)) + Len(q.left) >= Len(apps[q.app].form.shares)
    /\ q.step \in {"account", "approve"} =>
         SharesGiven(q.client, q.app) /\ applicants[apps[q.app].applicant] # None
    /\ q.step = "approve" => q.client \in accounts
PolicyOK(p) == (\E c \in clients : c.id = p.client) /\ p.app \in DOMAIN apps
ApprovedOK(a, x) ==
    x.status = "Approved" =>
      /\ Has(x.policyId, x.clientId, a)
      /\ SharesGiven(x.clientId, a)
      /\ x.clientId \in accounts
      /\ applicants[x.applicant] # None

ApplicationTypes ==
    /\ apps \in Seq(AppApplication)
    /\ applicants \in AppApplicant
    /\ IsFiniteSet(clients) /\ \A c \in clients : c.id \in Nat \ {0}
    /\ IsFiniteSet(policies) /\ \A p \in policies : p.id \in Nat \ {0}
    /\ \A p, o \in policies : p.id = o.id => p = o
    /\ IsFiniteSet(beneficiaries) /\ \A b \in beneficiaries : b.id \in Nat \ {0}
    /\ crashes \in Nat
    /\ request = [r \in Requests |-> request[r]]
ApplicationInv ==
    /\ ApplicationTypes
    /\ \A r \in Requests : RequestOK(request[r])
    /\ \A p \in policies : PolicyOK(p)
    /\ \A a \in DOMAIN apps : ApprovedOK(a, apps[a])
-------------------------------------------------------------------------------
\* A finite set of cardinality one at most has no two elements.
LEMMA NoTwoRequests ==
    ASSUME NEW S, IsFiniteSet(S), Cardinality(S) <= 1, NEW a \in S, NEW b \in S
    PROVE  a = b
  <1>1. SUFFICES ASSUME a # b PROVE FALSE
    OBVIOUS
  <1>2. /\ IsFiniteSet(S \ {a}) /\ Cardinality(S \ {a}) = Cardinality(S) - 1
        /\ b \in S \ {a}
    BY <1>1, FS_RemoveElement
  <1>3. Cardinality(S \ {a}) # 0 /\ Cardinality(S \ {a}) \in Nat /\ Cardinality(S) \in Nat
    BY <1>2, FS_EmptySet, FS_CardinalityType
  <1>4. QED
    BY <1>2, <1>3

\* A finite set of numbers that is not empty has a maximum.
LEMMA MaxOfFinite ==
    ASSUME NEW S, IsFiniteSet(S), S # {}, S \subseteq Nat
    PROVE  Max(S) \in S /\ \A y \in S : Max(S) >= y
  <1> DEFINE Above(x) == {y \in S : y >= x}
             D == {Cardinality(Above(x)) : x \in S}
  <1>1. \A x \in S : Above(x) \in SUBSET S /\ Cardinality(Above(x)) \in Nat /\ IsFiniteSet(Above(x))
    BY SubsetSize
  <1> HIDE DEF Above
  <1>2. D \in SUBSET Nat /\ D # {}
    BY <1>1
  <1>3. PICK d \in D : \A e \in D : d <= e
    <2> HIDE DEF D
    <2>1. QED
      BY <1>2, LeastNatural
  <1>4. PICK x \in S : d = Cardinality(Above(x))
    BY <1>3
  <1>5. \A y \in S : x >= y
    <2>1. SUFFICES ASSUME NEW y \in S, ~(x >= y) PROVE FALSE
      OBVIOUS
    <2>2. Above(y) \in SUBSET Above(x) /\ x \in Above(x) /\ x \notin Above(y)
      <3>1. x \in Nat /\ y \in Nat /\ \A z \in S : z \in Nat
        OBVIOUS
      <3>2. \A z \in S : z >= y => z >= x
        BY <2>1, <3>1
      <3>3. x >= x
        BY <3>1
      <3>4. x \in Above(x) /\ x \notin Above(y)
        BY <2>1, <3>3 DEF Above
      <3>5. Above(y) \in SUBSET Above(x)
        BY <3>2 DEF Above
      <3>6. QED
        BY <3>4, <3>5
    <2>3. Cardinality(Above(y)) < Cardinality(Above(x))
      BY <1>1, <2>2, FS_Subset
    <2>4. d <= Cardinality(Above(y))
      BY <1>3
    <2>5. QED
      BY <1>1, <1>4, <2>3, <2>4
  <1>6. QED
    BY <1>5, Zenon DEF Max

\* An id is a number no row has.
LEMMA NewIdIsNew ==
    ASSUME NEW T, IsFiniteSet(T), \A x \in T : x.id \in Nat
    PROVE  NewId(T) \in Nat \ {0} /\ \A x \in T : x.id # NewId(T)
  <1>1. PICK I : I = {x.id : x \in T}
    OBVIOUS
  <1>2. IsFiniteSet(I)
    <2> DEFINE f == [x \in T |-> x.id]
    <2>1. f \in Surjection(T, I)
      BY <1>1 DEF Surjection
    <2>2. QED
      BY <2>1, FS_Surjection
  <1>3. PICK S : S = {0} \union I
    OBVIOUS
  <1>4. IsFiniteSet(S) /\ S # {} /\ S \subseteq Nat
    <2>1. IsFiniteSet(I \union {0}) /\ I \union {0} = S
      BY <1>2, <1>3, FS_AddElement
    <2>2. \A y \in I : y \in Nat
      BY <1>1
    <2>3. S # {} /\ S \subseteq Nat
      BY <1>3, <2>2
    <2>4. QED
      BY <2>1, <2>3
  <1>5. PICK m : m = Max(S)
    OBVIOUS
  <1>6. m \in Nat /\ \A y \in S : m >= y
    BY <1>4, <1>5, MaxOfFinite
  <1>7. NewId(T) = 1 + m
    BY <1>1, <1>3, <1>5 DEF NewId
  <1>8. \A x \in T : x.id \in S
    BY <1>1, <1>3
  <1>9. QED
    BY <1>6, <1>7, <1>8

\* A new row is the last one, and the others stay.
LEMMA AppendApp ==
    ASSUME NEW S, NEW s \in Seq(S), NEW r \in S, NEW t, t = Append(s, r)
    PROVE  /\ t \in Seq(S)
           /\ DOMAIN s = 1 .. Len(s) /\ Len(s) \in Nat /\ Len(s) + 1 \notin DOMAIN s
           /\ DOMAIN t = DOMAIN s \union {Len(s) + 1}
           /\ t[Len(s) + 1] = r
           /\ \A i \in DOMAIN s : t[i] = s[i]
  OBVIOUS
\* A row that is written is the only one to change.
LEMMA WriteApp ==
    ASSUME NEW S, NEW s \in Seq(S), NEW i \in DOMAIN s, NEW r \in S, NEW t,
           t = [s EXCEPT ![i] = r]
    PROVE  /\ t \in Seq(S)
           /\ DOMAIN t = DOMAIN s
           /\ t[i] = r
           /\ \A j \in DOMAIN s : j # i => t[j] = s[j]
  OBVIOUS

\* What a step never takes away.
Grown ==
    /\ DOMAIN apps \subseteq DOMAIN apps'
    /\ \A a \in DOMAIN apps :
         apps'[a].form = apps[a].form /\ apps'[a].applicant = apps[a].applicant
    /\ policies \subseteq policies'
    /\ \A p \in policies : SharesOf(p.client) \subseteq SharesOf(p.client)'
    /\ IsFiniteSet(beneficiaries')
    /\ accounts \subseteq accounts'
    /\ \A x \in Applicants : applicants[x] # None => applicants'[x] # None

\* Of a client with a policy there are no fewer beneficiaries after a step.
LEMMA SharesGrow ==
    ASSUME Grown, NEW p \in policies
    PROVE  /\ Cardinality(SharesOf(p.client)) \in Nat
           /\ Cardinality(SharesOf(p.client)') \in Nat
           /\ Cardinality(SharesOf(p.client)') >= Cardinality(SharesOf(p.client))
  <1>1. PICK S, T : S = SharesOf(p.client) /\ T = SharesOf(p.client)'
    OBVIOUS
  <1>2. S \in SUBSET T /\ T \in SUBSET beneficiaries' /\ IsFiniteSet(beneficiaries')
    BY <1>1 DEF Grown, SharesOf
  <1>3. IsFiniteSet(T)
    BY <1>2, FS_Subset
  <1>4. IsFiniteSet(S) /\ Cardinality(S) <= Cardinality(T)
    BY <1>2, <1>3, FS_Subset
  <1>5. QED
    BY <1>1, <1>3, <1>4, FS_CardinalityType

LEMMA FormOfApp ==
    ASSUME ApplicationTypes, NEW a \in DOMAIN apps
    PROVE  /\ apps[a] \in AppApplication
           /\ apps[a].applicant \in Applicants
           /\ apps[a].form.shares \in Seq(Nat) /\ Len(apps[a].form.shares) \in Nat
  <1>1. apps[a] \in AppApplication
    BY DEF ApplicationTypes
  <1>2. apps[a].applicant \in Applicants /\ apps[a].form \in [phone: Nat, shares: Seq(Nat)]
    BY <1>1 DEF AppApplication
  <1>3. apps[a].form.shares \in Seq(Nat)
    BY <1>2
  <1>4. QED
    BY <1>1, <1>2, <1>3, LenProperties

\* What a request or an approval rests on stays.
LEMMA RequestCarried ==
    ASSUME ApplicationTypes, Grown, NEW CONSTANT q, RequestOK(q)
    PROVE  RequestOK(q)'
  <1>1. CASE q.step \in Working
    <2>1. PICK p \in policies : p.id = q.policy /\ p.client = q.client /\ p.app = q.app
      BY <1>1 DEF RequestOK, Has
    <2>2. Has(q.policy, q.client, q.app)'
      BY <2>1 DEF Grown, Has
    <2>3. PICK m, n : m = Cardinality(SharesOf(q.client)) /\ n = Cardinality(SharesOf(q.client)')
      OBVIOUS
    <2>4. m \in Nat /\ n \in Nat /\ n >= m
      BY <2>1, <2>3, SharesGrow
    <2>5. q.app \in DOMAIN apps
      BY <1>1 DEF RequestOK, Working
    <2>6. PICK k, x : k = Len(apps[q.app].form.shares) /\ x = apps[q.app].applicant
      OBVIOUS
    <2>7. /\ k \in Nat /\ x \in Applicants
          /\ Len(apps'[q.app].form.shares) = k /\ apps'[q.app].applicant = x
      BY <2>5, <2>6, FormOfApp DEF Grown
    <2>8. q.step = "beneficiaries" => q.left \in Seq(Nat) /\ n + Len(q.left) >= k
      <3>1. SUFFICES ASSUME q.step = "beneficiaries"
                     PROVE  q.left \in Seq(Nat) /\ n + Len(q.left) >= k
        OBVIOUS
      <3>2. q.left \in Seq(Nat) /\ m + Len(q.left) >= k
        BY <2>3, <2>6, <3>1 DEF RequestOK
      <3>3. Len(q.left) \in Nat
        BY <3>2, LenProperties
      <3>4. QED
        BY <2>4, <2>7, <3>2, <3>3
    <2>9. q.step \in {"account", "approve"} => n >= k /\ applicants'[x] # None
      <3>1. SUFFICES ASSUME q.step \in {"account", "approve"}
                     PROVE  n >= k /\ applicants'[x] # None
        OBVIOUS
      <3>2. m >= k /\ applicants[x] # None
        BY <2>3, <2>6, <3>1 DEF RequestOK, SharesGiven
      <3>3. QED
        BY <2>4, <2>7, <3>2 DEF Grown
    <2>10. q.step = "approve" => q.client \in accounts'
      BY DEF RequestOK, Grown
    <2>11. q.app \in DOMAIN apps'
      BY <2>5 DEF Grown
    <2>12. QED
      BY <1>1, <2>2, <2>3, <2>6, <2>7, <2>8, <2>9, <2>10, <2>11
         DEF RequestOK, SharesGiven, Working
  <1>2. CASE q.step \notin Working
    <2>1. q.step \notin {"idle", "submit"} => q.app \in DOMAIN apps'
      BY DEF RequestOK, Grown
    <2>2. QED
      BY <1>2, <2>1 DEF RequestOK, Working
  <1>3. QED
    BY <1>1, <1>2

LEMMA ApprovalCarried ==
    ASSUME ApplicationTypes, Grown, NEW a \in DOMAIN apps, NEW CONSTANT x,
           x.applicant = apps[a].applicant, ApprovedOK(a, x)
    PROVE  ApprovedOK(a, x)'
  <1>1. SUFFICES ASSUME x.status = "Approved"
                 PROVE  /\ Has(x.policyId, x.clientId, a)'
                        /\ SharesGiven(x.clientId, a)'
                        /\ x.clientId \in accounts'
                        /\ applicants'[x.applicant] # None
    BY DEF ApprovedOK
  <1>2. PICK p \in policies : p.id = x.policyId /\ p.client = x.clientId /\ p.app = a
    BY <1>1 DEF ApprovedOK, Has
  <1>3. Has(x.policyId, x.clientId, a)'
    BY <1>2 DEF Grown, Has
  <1>4. PICK m, n, k : /\ m = Cardinality(SharesOf(x.clientId))
                       /\ n = Cardinality(SharesOf(x.clientId)')
                       /\ k = Len(apps[a].form.shares)
    OBVIOUS
  <1>5. /\ m \in Nat /\ n \in Nat /\ n >= m
        /\ k \in Nat /\ m >= k
        /\ Len(apps'[a].form.shares) = k
    BY <1>1, <1>2, <1>4, SharesGrow, FormOfApp DEF Grown, ApprovedOK, SharesGiven
  <1>6. SharesGiven(x.clientId, a)'
    BY <1>4, <1>5 DEF SharesGiven
  <1>7. x.clientId \in accounts' /\ applicants'[x.applicant] # None
    BY <1>1, FormOfApp DEF Grown, ApprovedOK
  <1>8. QED
    BY <1>3, <1>6, <1>7

-------------------------------------------------------------------------------
\* What is true of the applications while q is the only request at work: of the
\* policies made of each that no conversion left behind there is the one it names,
\* if it is approved, the one of q, if q is past it, and else none; and what q read
\* of its application is still so.
Made(a) == {p \in policies : p.app = a}
Standing(a) == {p.id : p \in Made(a)} \ leftBehind
Duty(q) ==
    /\ q.step \in {"client", "policy"} \union Working =>
          apps[q.app].status \notin {"Approved", "Rejected"}
    /\ q.step = "review" => apps[q.app].status = "Submitted"
    /\ q.step = "reject" => apps[q.app].status # "Approved"
OneOrNone(q, a) ==
    Standing(a) = IF apps[a].status = "Approved" THEN {apps[a].policyId}
                  ELSE IF q.step \in Working /\ q.app = a THEN {q.policy} ELSE {}
Steady(q) ==
    /\ leftBehind \subseteq {p.id : p \in policies}
    /\ Duty(q)
    /\ \A a \in DOMAIN apps : OneOrNone(q, a)

\* What a request that goes from x to q leaves behind.
Leaves(x, q) ==
    leftBehind' = leftBehind \union (IF x.policy # None /\ q.step = "idle" THEN {x.policy} ELSE {})

\* What a step of request r comes to.
Turns(r, q) ==
    /\ Goes(r, q)
    /\ ApplicationInv'
    /\ request[r].step # "idle" \/ q.step # "idle"
    /\ Steady(request[r]) /\ Leaves(request[r], q) => Steady(q)'

ApplicationTables == <<apps, clients, policies, beneficiaries, applicants, accounts, crashes>>

\* A request moves alone.
LEMMA OneRequest ==
    ASSUME ApplicationTypes, NEW r \in Requests, NEW q, Goes(r, q)
    PROVE  /\ request' = [s \in Requests |-> request'[s]]
           /\ request'[r] = q
           /\ \A s \in Requests \ {r} : request'[s] = request[s]
  BY DEF ApplicationTypes, Goes

\* A step whose request and approvals are all right leaves everything so.
LEMMA InvCarried ==
    ASSUME ApplicationInv, Grown, ApplicationTypes', NEW r \in Requests, NEW q, Goes(r, q),
           RequestOK(q)',
           \A p \in policies' : PolicyOK(p)',
           \A a \in DOMAIN apps' :
              apps'[a].status = "Approved" =>
                 \/ a \in DOMAIN apps /\ apps'[a] = apps[a]
                 \/ ApprovedOK(a, apps[a])'
    PROVE  ApplicationInv'
  <1>1. ASSUME NEW s \in Requests
        PROVE  RequestOK(request[s])'
    <2>1. CASE s = r
      BY <2>1, OneRequest DEF ApplicationInv
    <2>2. CASE s # r
      <3>1. PICK x : x = request[s]
        OBVIOUS
      <3>2. RequestOK(x)
        BY <3>1 DEF ApplicationInv
      <3>3. RequestOK(x)'
        BY <3>2, RequestCarried DEF ApplicationInv
      <3>4. request'[s] = x
        BY <2>2, <3>1, OneRequest DEF ApplicationInv
      <3>5. QED
        BY <3>3, <3>4
    <2>3. QED
      BY <2>1, <2>2
  <1>2. ASSUME NEW a \in DOMAIN apps'
        PROVE  ApprovedOK(a, apps[a])'
    <2>1. CASE apps'[a].status # "Approved"
      BY <2>1 DEF ApprovedOK
    <2>2. CASE a \in DOMAIN apps /\ apps'[a] = apps[a]
      <3>1. PICK x : x = apps[a]
        OBVIOUS
      <3>2. ApprovedOK(a, x)
        BY <2>2, <3>1 DEF ApplicationInv
      <3>3. ApprovedOK(a, x)'
        BY <2>2, <3>1, <3>2, ApprovalCarried DEF ApplicationInv
      <3>4. QED
        BY <2>2, <3>1, <3>3
    <2>3. QED
      BY <2>1, <2>2
  <1>3. QED
    BY <1>1, <1>2 DEF ApplicationInv

\* A step that only reads, or writes what nothing here rests on.
LEMMA RestStep ==
    ASSUME ApplicationInv, NEW r \in Requests, NEW q, Goes(r, q), RequestOK(q), crashes' \in Nat,
           UNCHANGED <<apps, clients, policies, beneficiaries, applicants, accounts>>
    PROVE  ApplicationInv'
  <1>1. Grown
    BY DEF ApplicationInv, ApplicationTypes, Grown, SharesOf
  <1>2. ApplicationTypes'
    BY OneRequest DEF ApplicationInv, ApplicationTypes
  <1>3. RequestOK(q)'
    BY <1>1, RequestCarried DEF ApplicationInv
  <1>4. \A p \in policies' : PolicyOK(p)'
    BY DEF ApplicationInv, PolicyOK
  <1>5. \A a \in DOMAIN apps' : a \in DOMAIN apps /\ apps'[a] = apps[a]
    OBVIOUS
  <1>6. QED
    BY <1>1, <1>2, <1>3, <1>4, <1>5, InvCarried

\* A request leaves a policy behind only where it breaks off after making it.
LEMMA NothingLeft ==
    ASSUME NEW CONSTANT x, NEW CONSTANT q, RequestOK(x), Leaves(x, q),
           x.step \notin Working \/ q.step # "idle"
    PROVE  leftBehind' = leftBehind
  BY DEF RequestOK, Leaves

LEMMA SteadyCarried ==
    ASSUME UNCHANGED <<apps, policies>>, NEW CONSTANT x, NEW CONSTANT q,
           x.step \in Working <=> q.step \in Working,
           q.step \in Working => q.app = x.app /\ q.policy = x.policy,
           RequestOK(x), Leaves(x, q), Steady(x), Duty(q)
    PROVE  Steady(q)'
  <1>1. leftBehind' = leftBehind
    BY NothingLeft DEF Working
  <1>2. ASSUME NEW a \in DOMAIN apps
        PROVE  OneOrNone(q, a)'
    <2>1. OneOrNone(x, a)
      BY DEF Steady
    <2>2. Standing(a)' = Standing(a)
      BY <1>1 DEF Standing, Made
    <2>3. QED
      BY <2>1, <2>2 DEF OneOrNone
  <1>3. Duty(q)'
    BY DEF Duty
  <1>4. leftBehind' \subseteq {p.id : p \in policies'}
    BY <1>1 DEF Steady
  <1>5. QED
    BY <1>2, <1>3, <1>4 DEF Steady

\* A conversion that breaks off after its policy leaves that one behind, and no
\* application misses it.
LEMMA BreakOff ==
    ASSUME ApplicationInv, UNCHANGED <<apps, policies>>, NEW CONSTANT x,
           RequestOK(x), Steady(x), Leaves(x, Idle)
    PROVE  Steady(Idle)'
  <1>1. Idle.step = "idle" /\ Idle.step \notin Working /\ Duty(Idle)
    BY DEF Idle, Working, Duty
  <1>2. CASE x.step \notin Working
    BY <1>1, <1>2, SteadyCarried
  <1>3. CASE x.step \in Working
    <2>1. PICK p \in policies : p.id = x.policy /\ p.app = x.app
      BY <1>3 DEF RequestOK, Has
    <2>2. p.id # None
      BY DEF ApplicationInv, ApplicationTypes, None
    <2>3. leftBehind' = leftBehind \union {x.policy}
      BY <1>1, <2>1, <2>2 DEF Leaves
    <2>4. apps[x.app].status # "Approved"
      BY <1>3 DEF Steady, Duty
    <2>5. ASSUME NEW a \in DOMAIN apps
          PROVE  OneOrNone(Idle, a)'
      <3>1. Standing(a)' = Standing(a) \ {x.policy} /\ OneOrNone(x, a)
        BY <2>3 DEF Standing, Made, Steady
      <3>2. CASE apps[a].status = "Approved"
        <4>1. Standing(a) = {apps[a].policyId}
          BY <3>1, <3>2 DEF OneOrNone
        <4>2. PICK o \in policies : o.app = a /\ o.id = apps[a].policyId
          BY <4>1 DEF Standing, Made
        <4>3. o # p
          BY <2>1, <2>4, <3>2, <4>2
        <4>4. o.id # p.id
          BY <4>3 DEF ApplicationInv, ApplicationTypes
        <4>5. QED
          BY <2>1, <3>1, <3>2, <4>1, <4>2, <4>4 DEF OneOrNone
      <3>3. CASE apps[a].status # "Approved"
        <4>1. Standing(a) \subseteq {x.policy}
          BY <3>1, <3>3 DEF OneOrNone
        <4>2. QED
          BY <1>1, <3>1, <3>3, <4>1 DEF OneOrNone
      <3>4. QED
        BY <3>2, <3>3
    <2>6. leftBehind' \subseteq {o.id : o \in policies'}
      BY <2>1, <2>3 DEF Steady
    <2>7. Duty(Idle)'
      BY <1>1 DEF Duty, Working
    <2>8. QED
      BY <2>5, <2>6, <2>7 DEF Steady
  <1>4. QED
    BY <1>2, <1>3

\* Reading, and what is written beside the tables.
LEMMA ReadingStep ==
    ASSUME ApplicationInv, NEW r \in Requests, NEW q, Goes(r, q), UNCHANGED ApplicationTables,
           RequestOK(q), request[r].step # "idle" \/ q.step # "idle",
           q.step \notin Working, request[r].step \notin Working,
           Duty(request[r]) => Duty(q)
    PROVE  Turns(r, q)
  <1>1. ApplicationInv'
    BY RestStep DEF ApplicationTables, ApplicationInv, ApplicationTypes
  <1>2. ASSUME Steady(request[r]), Leaves(request[r], q)
        PROVE  Steady(q)'
    <2>1. PICK x : x = request[r]
      OBVIOUS
    <2>2. Duty(q) /\ Steady(x) /\ Leaves(x, q) /\ RequestOK(x)
      BY <1>2, <2>1 DEF Steady, ApplicationInv
    <2>3. QED
      BY <2>1, <2>2, SteadyCarried DEF ApplicationTables
  <1>3. QED
    BY <1>1, <1>2 DEF Turns

LEMMA ReadSteps ==
    ASSUME ApplicationInv, NEW r \in Requests,
           \/ \E a \in Applicants, f \in Forms : nextApplicationNo(r, a, f)
           \/ SaveFiles(r) \/ Notify(r)
           \/ \E a \in DOMAIN apps :
                \/ ReadForReview(r, a) \/ ReadForRejection(r, a)
                \/ \E no \in StaffNumbers \union suggestPolicyNo(apps[a].product) :
                     \E existing \in {None} \union {c.id : c \in clients}, isNew \in BOOLEAN :
                       ReadForConversion(r, a, no, existing, isNew)
    PROVE  \E q : Turns(r, q)
  <1>1. ASSUME NEW a \in Applicants, NEW f \in Forms, nextApplicationNo(r, a, f)
        PROVE  \E q : Turns(r, q)
    <2>1. PICK q : q = [Idle EXCEPT !.step = "submit", !.draft = <<a, f>>, !.count = Len(apps)]
      OBVIOUS
    <2>2. /\ IsRequest(q) /\ q.client = None /\ q.policy = None /\ q.step = "submit"
          /\ q.draft = <<a, f>> /\ q.count = Len(apps)
      BY <2>1 DEF IsRequest, Idle
    <2>3. Len(apps) \in Nat
      BY LenProperties DEF ApplicationInv, ApplicationTypes
    <2>4. RequestOK(q) /\ Duty(q)
      BY <2>2, <2>3 DEF RequestOK, Duty, Working, None
    <2>5. Goes(r, q) /\ request[r].step = "idle" /\ UNCHANGED ApplicationTables
      BY <1>1, <2>1 DEF nextApplicationNo, ApplicationTables, At
    <2>6. Turns(r, q)
      BY <2>2, <2>4, <2>5, ReadingStep DEF Working
    <2>7. QED
      BY <2>6
  <1>2. RequestOK(Idle) /\ Duty(Idle) /\ Idle.step = "idle"
    BY DEF RequestOK, IsRequest, Idle, Duty, Working, None
  <1>3. ASSUME SaveFiles(r) \/ Notify(r)
        PROVE  \E q : Turns(r, q)
    <2>1. Goes(r, Idle) /\ request[r].step \in {"files", "notify"} /\ UNCHANGED ApplicationTables
      BY <1>3 DEF SaveFiles, Notify, ApplicationTables, At, Ends
    <2>2. Turns(r, Idle)
      BY <1>2, <2>1, ReadingStep DEF Working
    <2>3. QED
      BY <2>2
  <1>4. ASSUME NEW a \in DOMAIN apps, ReadForReview(r, a) \/ ReadForRejection(r, a)
        PROVE  \E q : Turns(r, q)
    <2>1. PICK step \in {"review", "reject"} :
             /\ Goes(r, [Idle EXCEPT !.step = step, !.app = a])
             /\ step = "review" => apps[a].status = "Submitted"
             /\ step = "reject" => apps[a].status # "Approved"
      BY <1>4 DEF ReadForReview, ReadForRejection
    <2>2. PICK q : q = [Idle EXCEPT !.step = step, !.app = a]
      OBVIOUS
    <2>3. IsRequest(q) /\ q.client = None /\ q.policy = None /\ q.step = step /\ q.app = a
      BY <2>2 DEF IsRequest, Idle
    <2>4. RequestOK(q) /\ Duty(q)
      BY <2>1, <2>3 DEF RequestOK, Duty, Working, None
    <2>5. Goes(r, q) /\ request[r].step = "idle" /\ UNCHANGED ApplicationTables
      BY <1>4, <2>1, <2>2 DEF ReadForReview, ReadForRejection, ApplicationTables, At
    <2>6. Turns(r, q)
      BY <2>3, <2>4, <2>5, ReadingStep DEF Working
    <2>7. QED
      BY <2>6
  <1>5. ASSUME NEW a \in DOMAIN apps, NEW no, NEW isNew,
               NEW existing \in {None} \union {c.id : c \in clients},
               ReadForConversion(r, a, no, existing, isNew)
        PROVE  \E q : Turns(r, q)
    <2>1. PICK q : q = [Idle EXCEPT !.step = IF existing = None THEN "client" ELSE "policy",
                           !.app = a, !.no = no, !.count = Cardinality(clients),
                           !.client = existing]
      OBVIOUS
    <2>2. /\ IsRequest(q) /\ q.client = existing /\ q.policy = None
          /\ q.step \in {"client", "policy"} /\ q.app = a
      BY <2>1 DEF IsRequest, Idle
    <2>3. existing \in Nat
      BY DEF ApplicationInv, ApplicationTypes, None
    <2>4. apps[a].status \notin {"Approved", "Rejected"}
      BY <1>5 DEF ReadForConversion
    <2>5. RequestOK(q) /\ Duty(q)
      BY <2>2, <2>3, <2>4 DEF RequestOK, Duty, Working, None
    <2>6. Goes(r, q) /\ request[r].step = "idle" /\ UNCHANGED ApplicationTables
      BY <1>5, <2>1 DEF ReadForConversion, ApplicationTables, At
    <2>7. Turns(r, q)
      BY <2>2, <2>5, <2>6, ReadingStep DEF Working
    <2>8. QED
      BY <2>7
  <1>6. QED
    BY <1>1, <1>3, <1>4, <1>5

\* A stored form keeps shares that are whole numbers.
LEMMA SanitizedForm ==
    ASSUME NEW f \in Forms
    PROVE  sanitizeForm(f) \in [phone: Nat, shares: Seq(Nat)]
  <1>1. /\ f.phone \in Nat /\ f.shares \in Seq(Nat) /\ Len(f.shares) \in Nat
        /\ BeneficiaryLimit \in Nat \ {0}
    BY ApplicationAssumption, LenProperties DEF ApplicationAssumption
  <1>2. PICK m : m = IF Len(f.shares) < BeneficiaryLimit THEN Len(f.shares) ELSE BeneficiaryLimit
    OBVIOUS
  <1>3. m \in Nat /\ m <= Len(f.shares)
    BY <1>1, <1>2
  <1>4. PICK t, u : t = f.shares /\ u = SubSeq(t, 1, m)
    OBVIOUS
  <1>5. u \in Seq(Nat)
    BY <1>1, <1>3, <1>4, SubSeqProperties
  <1>6. <<100>> \in Seq(Nat)
    OBVIOUS
  <1>7. sanitizeForm(f) = [phone |-> f.phone, shares |-> IF Len(t) = 1 THEN <<100>> ELSE u]
    BY <1>2, <1>4 DEF sanitizeForm
  <1>8. QED
    BY <1>1, <1>5, <1>6, <1>7

LEMMA SubmitStep ==
    ASSUME ApplicationInv, NEW r \in Requests, Submit(r)
    PROVE  \E q : Turns(r, q)
  <1>1. PICK x : x = request[r]
    OBVIOUS
  <1>2. RequestOK(x) /\ x.step = "submit"
    BY <1>1 DEF ApplicationInv, Submit, At
  <1>3. RequestOK(Idle) /\ Duty(Idle) /\ Idle.step = "idle"
    BY DEF RequestOK, IsRequest, Idle, Duty, Working, None
  <1>4. CASE UNCHANGED apps /\ Ends(r)
    <2>1. UNCHANGED ApplicationTables /\ Goes(r, Idle)
      BY <1>4 DEF Submit, ApplicationTables, Ends
    <2>2. Turns(r, Idle)
      BY <1>1, <1>2, <1>3, <2>1, ReadingStep DEF Working
    <2>3. QED
      BY <2>2
  <1>5. CASE ~(UNCHANGED apps /\ Ends(r))
    <2>1. PICK row : row = [applicationNo |-> x.count + 1, applicant |-> x.draft[1],
                            product |-> x.draft[2].product, form |-> sanitizeForm(x.draft[2]),
                            status |-> "Submitted", clientId |-> None, policyId |-> None]
      OBVIOUS
    <2>2. row \in AppApplication
      <3>1. x.count + 1 \in Nat \ {0} /\ x.draft[1] \in Applicants /\ x.draft[2] \in Forms
        BY <1>2 DEF RequestOK
      <3>2. sanitizeForm(x.draft[2]) \in [phone: Nat, shares: Seq(Nat)]
        BY <3>1, SanitizedForm
      <3>3. QED
        BY <2>1, <3>1, <3>2 DEF AppApplication, ApplicationStatus, None
    <2>3. PICK n : n = Len(apps) + 1
      OBVIOUS
    <2>4. PICK q : q = [Idle EXCEPT !.step = "files", !.app = n]
      OBVIOUS
    <2>5. /\ apps' = Append(apps, row) /\ Goes(r, q)
          /\ UNCHANGED <<clients, policies, beneficiaries, applicants, accounts, crashes>>
      BY <1>1, <1>5, <2>1, <2>3, <2>4 DEF Submit
    <2>6. /\ apps' \in Seq(AppApplication)
          /\ DOMAIN apps' = DOMAIN apps \union {n} /\ n \notin DOMAIN apps
          /\ apps'[n] = row /\ \A a \in DOMAIN apps : apps'[a] = apps[a]
      BY <2>2, <2>3, <2>5, AppendApp DEF ApplicationInv, ApplicationTypes
    <2>7. Grown
      BY <2>5, <2>6 DEF ApplicationInv, ApplicationTypes, Grown, SharesOf
    <2>8. ApplicationTypes'
      BY <2>5, <2>6, OneRequest DEF ApplicationInv, ApplicationTypes
    <2>9. IsRequest(q) /\ q.step = "files" /\ q.app = n /\ q.client = None /\ q.policy = None
      BY <2>4 DEF IsRequest, Idle
    <2>10. RequestOK(q)'
      BY <2>6, <2>9 DEF RequestOK, Working, None
    <2>11. \A p \in policies' : PolicyOK(p)'
      BY <2>5, <2>6 DEF ApplicationInv, PolicyOK
    <2>12. ASSUME NEW a \in DOMAIN apps', apps'[a].status = "Approved"
           PROVE  a \in DOMAIN apps /\ apps'[a] = apps[a]
      BY <2>1, <2>6, <2>12
    <2>13. ApplicationInv'
      BY <2>5, <2>7, <2>8, <2>10, <2>11, <2>12, InvCarried
    <2>14. ASSUME Steady(x), Leaves(x, q)
           PROVE  Steady(q)'
      <3>0. leftBehind' = leftBehind
        BY <1>2, <2>14, NothingLeft DEF Working
      <3>1. Duty(q)'
        BY <2>9 DEF Duty, Working
      <3>2. ASSUME NEW a \in DOMAIN apps'
            PROVE  OneOrNone(q, a)'
        <4>1. Standing(a)' = Standing(a)
          BY <2>5, <3>0 DEF Standing, Made
        <4>2. CASE a = n
          <5>1. Standing(n) = {}
            BY <2>6 DEF ApplicationInv, PolicyOK, Made, Standing
          <5>2. QED
            BY <2>1, <2>6, <2>9, <4>1, <4>2, <5>1 DEF OneOrNone, Working
        <4>3. CASE a # n
          <5>1. a \in DOMAIN apps /\ apps'[a] = apps[a] /\ OneOrNone(x, a)
            BY <2>6, <2>14, <4>3 DEF Steady
          <5>2. QED
            BY <1>2, <2>9, <4>1, <5>1 DEF OneOrNone, Working
        <4>4. QED
          BY <4>2, <4>3
      <3>3. leftBehind' \subseteq {p.id : p \in policies'}
        BY <2>5, <2>14, <3>0 DEF Steady
      <3>4. QED
        BY <3>1, <3>2, <3>3 DEF Steady
    <2>15. Turns(r, q)
      BY <1>1, <1>2, <2>5, <2>13, <2>14 DEF Turns
    <2>16. QED
      BY <2>15
  <1>6. QED
    BY <1>4, <1>5

\* A request that has only to tell the applicant holds nothing else.
LEMMA ToldRequest ==
    ASSUME NEW CONSTANT q, IsRequest(q), q.step = "notify", q.client = None,
           q.policy = None, q.app \in DOMAIN apps'
    PROVE  RequestOK(q)'
  BY DEF RequestOK, Working, None

\* The row an officer writes: everything but the status, or the client and the
\* policy too, is as it was.
LEMMA WriteStatusStep ==
    ASSUME ApplicationInv, NEW r \in Requests,
           NEW step, NEW status, WriteStatus(r, step, status),
           <<step, status>> \in {<<"review", "Under Review">>, <<"reject", "Rejected">>}
    PROVE  \E q : Turns(r, q)
  <1>1. PICK x : x = request[r]
    OBVIOUS
  <1>2. RequestOK(x) /\ x.step = step /\ step \in {"review", "reject"}
    BY <1>1 DEF ApplicationInv, WriteStatus, At
  <1>3. PICK n : n = x.app
    OBVIOUS
  <1>4. n \in DOMAIN apps
    BY <1>2, <1>3 DEF RequestOK
  <1>5. PICK row : row = [apps[n] EXCEPT !.status = status]
    OBVIOUS
  <1>6. /\ row \in AppApplication /\ row.status = status
        /\ row.form = apps[n].form /\ row.applicant = apps[n].applicant
    <2>1. apps[n] \in AppApplication /\ status \in ApplicationStatus
      BY <1>4, FormOfApp DEF ApplicationInv, ApplicationStatus
    <2>2. QED
      BY <1>5, <2>1 DEF AppApplication
  <1>7. PICK q : q = [Idle EXCEPT !.step = "notify", !.app = n, !.tell = status]
    OBVIOUS
  <1>8. /\ apps' = [apps EXCEPT ![n] = row] /\ Goes(r, q)
        /\ UNCHANGED <<clients, policies, beneficiaries, applicants, accounts, crashes>>
    BY <1>1, <1>3, <1>5, <1>7 DEF WriteStatus
  <1>9. /\ apps' \in Seq(AppApplication) /\ DOMAIN apps' = DOMAIN apps
        /\ apps'[n] = row /\ \A a \in DOMAIN apps : a # n => apps'[a] = apps[a]
    BY <1>4, <1>6, <1>8, WriteApp DEF ApplicationInv, ApplicationTypes
  <1>10. Grown
    BY <1>6, <1>8, <1>9 DEF ApplicationInv, ApplicationTypes, Grown, SharesOf
  <1>11. ApplicationTypes'
    BY <1>8, <1>9, OneRequest DEF ApplicationInv, ApplicationTypes
  <1>12. /\ IsRequest(q) /\ q.step = "notify" /\ q.app = n /\ q.client = None
         /\ q.policy = None
    BY <1>7 DEF IsRequest, Idle
  <1>13. RequestOK(q)'
    <2>1. n \in DOMAIN apps'
      BY <1>4, <1>9
    <2>2. QED
      BY <1>12, <2>1, ToldRequest
  <1>14. \A p \in policies' : PolicyOK(p)'
    BY <1>8, <1>9 DEF ApplicationInv, PolicyOK
  <1>15. status # "Approved"
    OBVIOUS
  <1>16. ASSUME NEW a \in DOMAIN apps', apps'[a].status = "Approved"
         PROVE  a \in DOMAIN apps /\ apps'[a] = apps[a]
    BY <1>6, <1>9, <1>15, <1>16
  <1>17. ApplicationInv'
    BY <1>8, <1>10, <1>11, <1>13, <1>14, <1>16, InvCarried
  <1>18. ASSUME Steady(x), Leaves(x, q)
         PROVE  Steady(q)'
    <2>0. leftBehind' = leftBehind
      BY <1>2, <1>18, NothingLeft DEF Working
    <2>1. Duty(q)'
      BY <1>12 DEF Duty, Working
    <2>2. apps[n].status # "Approved"
      BY <1>2, <1>3, <1>18 DEF Steady, Duty
    <2>3. ASSUME NEW a \in DOMAIN apps'
          PROVE  OneOrNone(q, a)'
      <3>1. Standing(a)' = Standing(a) /\ OneOrNone(x, a)
        BY <1>8, <1>9, <1>18, <2>0 DEF Standing, Made, Steady
      <3>2. /\ apps'[a].status = "Approved" <=> apps[a].status = "Approved"
            /\ apps[a].status = "Approved" => apps'[a].policyId = apps[a].policyId
        BY <1>6, <1>9, <1>15, <2>2
      <3>3. QED
        BY <1>2, <1>12, <3>1, <3>2 DEF OneOrNone, Working
    <2>4. leftBehind' \subseteq {p.id : p \in policies'}
      BY <1>8, <1>18, <2>0 DEF Steady
    <2>5. QED
      BY <2>1, <2>3, <2>4 DEF Steady
  <1>19. Turns(r, q)
    BY <1>1, <1>2, <1>8, <1>17, <1>18 DEF Turns
  <1>20. QED
    BY <1>19

LEMMA CreateClientStep ==
    ASSUME ApplicationInv, NEW r \in Requests, CreateClient(r)
    PROVE  \E q : Turns(r, q)
  <1>1. PICK x : x = request[r]
    OBVIOUS
  <1>2. RequestOK(x) /\ x.step = "client"
    BY <1>1 DEF ApplicationInv, CreateClient, At
  <1>3. RequestOK(Idle) /\ Duty(Idle) /\ Idle.step = "idle"
    BY DEF RequestOK, IsRequest, Idle, Duty, Working, None
  <1>4. CASE UNCHANGED clients /\ Ends(r)
    <2>1. UNCHANGED ApplicationTables /\ Goes(r, Idle)
      BY <1>4 DEF CreateClient, ApplicationTables, Ends
    <2>2. Turns(r, Idle)
      BY <1>1, <1>2, <1>3, <2>1, ReadingStep DEF Working
    <2>3. QED
      BY <2>2
  <1>5. CASE ~(UNCHANGED clients /\ Ends(r))
    <2>1. PICK T : T = clients \union {[id |-> request[s].client] : s \in Requests}
      OBVIOUS
    <2>2. PICK id : id = NewId(T)
      OBVIOUS
    <2>3. id \in Nat \ {0}
      <3>1. PICK H : H = {[id |-> request[s].client] : s \in Requests}
        OBVIOUS
      <3>2. IsFiniteSet(H)
        <4> DEFINE f == [s \in Requests |-> [id |-> request[s].client]]
        <4>1. f \in Surjection(Requests, H)
          BY <3>1 DEF Surjection
        <4>2. QED
          BY <4>1, ApplicationAssumption, FS_Surjection DEF ApplicationAssumption
      <3>3. IsFiniteSet(T)
        BY <2>1, <3>1, <3>2, FS_Union DEF ApplicationInv, ApplicationTypes
      <3>4. \A s \in Requests : request[s].client \in Nat
        BY DEF ApplicationInv, RequestOK
      <3>5. \A y \in H : y.id \in Nat
        BY <3>1, <3>4
      <3>6. \A y \in clients : y.id \in Nat
        BY DEF ApplicationInv, ApplicationTypes
      <3>7. \A y \in T : y.id \in Nat
        BY <2>1, <3>1, <3>5, <3>6
      <3>8. QED
        BY <2>2, <3>3, <3>7, NewIdIsNew
    <2>4. PICK row : row = [id |-> id, clientNo |-> request[r].count + 1,
                            phone |-> apps[request[r].app].form.phone]
      OBVIOUS
    <2>5. PICK q : q = [x EXCEPT !.step = "policy", !.client = id, !.own = TRUE]
      OBVIOUS
    <2>6. /\ clients' = clients \union {row} /\ Goes(r, q)
          /\ UNCHANGED <<apps, policies, beneficiaries, applicants, accounts, crashes>>
      BY <1>1, <1>5, <2>1, <2>2, <2>4, <2>5 DEF CreateClient
    <2>7. /\ IsRequest(q) /\ q.step = "policy" /\ q.app = x.app /\ q.client = id
          /\ q.policy = None
      BY <1>2, <2>5 DEF RequestOK, IsRequest, Working
    <2>8. IsFiniteSet(clients') /\ \A c \in clients' : c.id \in Nat \ {0}
      <3>1. IsFiniteSet(clients') /\ \A c \in clients : c.id \in Nat \ {0}
        BY <2>6, FS_AddElement DEF ApplicationInv, ApplicationTypes
      <3>2. row.id = id
        BY <2>4
      <3>3. QED
        BY <2>3, <2>6, <3>1, <3>2
    <2>9. Grown
      BY <2>6 DEF ApplicationInv, ApplicationTypes, Grown, SharesOf
    <2>10. ApplicationTypes'
      BY <2>6, <2>8, OneRequest DEF ApplicationInv, ApplicationTypes
    <2>11. RequestOK(q)'
      <3>1. q.app \in DOMAIN apps'
        BY <1>2, <2>6, <2>7 DEF RequestOK
      <3>2. QED
        BY <2>3, <2>7, <3>1 DEF RequestOK, Working
    <2>12. \A p \in policies' : PolicyOK(p)'
      BY <2>6 DEF ApplicationInv, PolicyOK
    <2>13. \A a \in DOMAIN apps' : a \in DOMAIN apps /\ apps'[a] = apps[a]
      BY <2>6
    <2>14. ApplicationInv'
      BY <2>6, <2>9, <2>10, <2>11, <2>12, <2>13, InvCarried
    <2>15. ASSUME Steady(x), Leaves(x, q)
           PROVE  Steady(q)'
      <3>1. Duty(q)
        BY <1>2, <2>7, <2>15 DEF Steady, Duty
      <3>2. QED
        BY <1>2, <2>6, <2>7, <2>15, <3>1, SteadyCarried DEF Working
    <2>16. Turns(r, q)
      BY <1>1, <1>2, <2>6, <2>14, <2>15 DEF Turns
    <2>17. QED
      BY <2>16
  <1>6. QED
    BY <1>4, <1>5

\* Without a policy, what goes is a client that no policy is of.
LEMMA PolicyFailsStep ==
    ASSUME ApplicationInv, NEW r \in Requests, At(r, "policy"), PolicyThrows(r),
           UNCHANGED <<applicants, accounts>>, crashes' \in Nat
    PROVE  \E q : Turns(r, q)
  <1>1. PICK x : x = request[r]
    OBVIOUS
  <1>2. RequestOK(x) /\ x.step = "policy"
    BY <1>1 DEF ApplicationInv, At
  <1>3. /\ IsRequest(Idle) /\ Duty(Idle) /\ Idle.step = "idle" /\ Idle.client = None
        /\ Idle.policy = None
    BY DEF IsRequest, Idle, Duty, Working
  <1>4. /\ clients' = {c \in clients : ~ /\ c.id = request[r].client
                                         /\ request[r].own
                                         /\ \A p \in policies : p.client # c.id}
        /\ beneficiaries' = {b \in beneficiaries : \E c \in clients' : c.id = b.client}
        /\ Goes(r, Idle)
        /\ UNCHANGED <<apps, policies, applicants, accounts>>
    BY DEF PolicyThrows, Ends
  <1>5. \A p \in policies : \E c \in clients' : c.id = p.client
    BY <1>4 DEF ApplicationInv, PolicyOK
  <1>6. /\ IsFiniteSet(clients') /\ clients' \subseteq clients
        /\ IsFiniteSet(beneficiaries') /\ beneficiaries' \subseteq beneficiaries
    <2>1. clients' \in SUBSET clients /\ beneficiaries' \in SUBSET beneficiaries
      BY <1>4
    <2>2. QED
      BY <2>1, FS_Subset DEF ApplicationInv, ApplicationTypes
  <1>7. \A p \in policies : SharesOf(p.client) \subseteq SharesOf(p.client)'
    BY <1>4, <1>5 DEF SharesOf
  <1>8. Grown
    BY <1>4, <1>6, <1>7 DEF ApplicationInv, ApplicationTypes, Grown
  <1>9. ApplicationTypes'
    BY <1>4, <1>6, OneRequest DEF ApplicationInv, ApplicationTypes
  <1>10. RequestOK(Idle)'
    BY <1>3 DEF RequestOK, Working, None
  <1>11. \A p \in policies' : PolicyOK(p)'
    BY <1>4, <1>5 DEF ApplicationInv, PolicyOK
  <1>12. \A a \in DOMAIN apps' : a \in DOMAIN apps /\ apps'[a] = apps[a]
    BY <1>4
  <1>13. ApplicationInv'
    BY <1>4, <1>8, <1>9, <1>10, <1>11, <1>12, InvCarried
  <1>14. ASSUME Steady(x), Leaves(x, Idle)
         PROVE  Steady(Idle)'
    BY <1>2, <1>3, <1>4, <1>14, SteadyCarried DEF Working
  <1>15. Turns(r, Idle)
    BY <1>1, <1>2, <1>4, <1>13, <1>14 DEF Turns
  <1>16. QED
    BY <1>15

LEMMA PolicyMadeStep ==
    ASSUME ApplicationInv, NEW r \in Requests, CreatePolicy(r), ~CreatePolicyFails(r)
    PROVE  \E q : Turns(r, q)
  <1>1. PICK x : x = request[r]
    OBVIOUS
  <1>2. RequestOK(x) /\ x.step = "policy"
    BY <1>1 DEF ApplicationInv, CreatePolicy, At
  <1>3. PICK row : row = PolicyRow(r)
    OBVIOUS
  <1>4. row.client = x.client /\ row.app = x.app /\ row.id = NewId(policies)
    BY <1>1, <1>3 DEF PolicyRow
  <1>5. PICK q : q = [x EXCEPT !.step = "beneficiaries", !.policy = row.id,
                               !.left = apps[x.app].form.shares]
    OBVIOUS
  <1>6. /\ \E c \in clients : c.id = x.client
        /\ policies' = policies \union {row}
        /\ Goes(r, q)
        /\ UNCHANGED <<apps, clients, beneficiaries, applicants, accounts, crashes>>
    BY <1>1, <1>3, <1>5 DEF CreatePolicy
  <1>7. /\ IsRequest(q) /\ q.step = "beneficiaries" /\ q.app = x.app /\ q.client = x.client
        /\ q.policy = row.id /\ q.left = apps[x.app].form.shares
    BY <1>2, <1>5 DEF RequestOK, IsRequest
  <1>8. Grown
    BY <1>6 DEF ApplicationInv, ApplicationTypes, Grown, SharesOf
  <1>9. ApplicationTypes'
    <2>1. row.id \in Nat \ {0}
      BY <1>4, NewIdIsNew DEF ApplicationInv, ApplicationTypes
    <2>2. IsFiniteSet(policies')
      BY <1>6, FS_AddElement DEF ApplicationInv, ApplicationTypes
    <2>3. \A p \in policies : p.id # row.id
      BY <1>4, NewIdIsNew DEF ApplicationInv, ApplicationTypes
    <2>4. \A p, o \in policies' : p.id = o.id => p = o
      BY <1>6, <2>3 DEF ApplicationInv, ApplicationTypes
    <2>5. QED
      BY <1>6, <2>1, <2>2, <2>4, OneRequest DEF ApplicationInv, ApplicationTypes
  <1>10. x.app \in DOMAIN apps /\ x.client \in Nat
    BY <1>2 DEF RequestOK
  <1>11. RequestOK(q)'
    <2>1. Has(q.policy, q.client, q.app)'
      BY <1>4, <1>6, <1>7 DEF Has
    <2>2. q.left \in Seq(Nat) /\ Len(q.left) \in Nat
      BY <1>7, <1>10, FormOfApp DEF ApplicationInv
    <2>3. Cardinality(SharesOf(q.client)') \in Nat
      <3>1. SharesOf(q.client)' \in SUBSET beneficiaries'
        BY DEF SharesOf
      <3>2. QED
        BY <1>9, <3>1, FS_Subset, FS_CardinalityType DEF ApplicationTypes
    <2>4. Cardinality(SharesOf(q.client)') + Len(q.left) >= Len(q.left)
      BY <2>2, <2>3
    <2>5. q.left = apps'[q.app].form.shares
      BY <1>6, <1>7
    <2>6. QED
      BY <1>6, <1>7, <1>10, <2>1, <2>2, <2>4, <2>5 DEF RequestOK, Working
  <1>12. \A p \in policies' : PolicyOK(p)'
    BY <1>4, <1>6, <1>10 DEF ApplicationInv, PolicyOK
  <1>13. \A a \in DOMAIN apps' : a \in DOMAIN apps /\ apps'[a] = apps[a]
    BY <1>6
  <1>14. ApplicationInv'
    BY <1>6, <1>8, <1>9, <1>11, <1>12, <1>13, InvCarried
  <1>15. ASSUME Steady(x), Leaves(x, q)
         PROVE  Steady(q)'
    <2>0. leftBehind' = leftBehind
      BY <1>2, <1>7, <1>15, NothingLeft
    <2>1. apps[x.app].status \notin {"Approved", "Rejected"}
      BY <1>2, <1>15 DEF Steady, Duty
    <2>2. Duty(q)'
      BY <1>6, <1>7, <2>1 DEF Duty
    <2>3. ASSUME NEW a \in DOMAIN apps'
          PROVE  OneOrNone(q, a)'
      <3>1. a \in DOMAIN apps /\ OneOrNone(x, a)
        BY <1>6, <1>15 DEF Steady
      <3>2. CASE a = x.app
        <4>1. Standing(a) = {}
          BY <1>2, <2>1, <3>1, <3>2 DEF OneOrNone, Working
        <4>2. Made(a)' = Made(a) \union {row}
          BY <1>4, <1>6, <3>2 DEF Made
        <4>3. row.id \notin leftBehind
          <5>1. \A p \in policies : p.id # row.id
            BY <1>4, NewIdIsNew DEF ApplicationInv, ApplicationTypes
          <5>2. QED
            BY <1>15, <5>1 DEF Steady
        <4>4. Standing(a)' = {row.id}
          BY <2>0, <4>1, <4>2, <4>3 DEF Standing
        <4>5. QED
          BY <1>6, <1>7, <2>1, <3>2, <4>4 DEF OneOrNone, Working
      <3>3. CASE a # x.app
        <4>1. Standing(a)' = Standing(a)
          BY <1>4, <1>6, <2>0, <3>3 DEF Standing, Made
        <4>2. QED
          BY <1>2, <1>6, <1>7, <3>1, <3>3, <4>1 DEF OneOrNone, Working
      <3>4. QED
        BY <3>2, <3>3
    <2>4. leftBehind' \subseteq {p.id : p \in policies'}
      BY <1>6, <1>15, <2>0 DEF Steady
    <2>5. QED
      BY <2>2, <2>3, <2>4 DEF Steady
  <1>16. Turns(r, q)
    BY <1>1, <1>2, <1>6, <1>14, <1>15 DEF Turns
  <1>17. QED
    BY <1>16

\* One more beneficiary, one less to add.
LEMMA AddBeneficiaryStep ==
    ASSUME ApplicationInv, NEW r \in Requests, AddBeneficiary(r)
    PROVE  \E q : Turns(r, q)
  <1>1. PICK x : x = request[r]
    OBVIOUS
  <1>2. RequestOK(x) /\ x.step = "beneficiaries" /\ x.left # << >>
    BY <1>1 DEF ApplicationInv, AddBeneficiary, At
  <1>3. PICK row : row = [id |-> NewId(beneficiaries), client |-> x.client, share |-> Head(x.left)]
    OBVIOUS
  <1>4. PICK q : q = [x EXCEPT !.left = Tail(@)]
    OBVIOUS
  <1>5. /\ beneficiaries' = beneficiaries \union {row}
        /\ Goes(r, q)
        /\ UNCHANGED <<apps, clients, policies, applicants, accounts, crashes>>
    BY <1>1, <1>3, <1>4 DEF AddBeneficiary
  <1>6. /\ IsRequest(q) /\ q.step = "beneficiaries" /\ q.app = x.app /\ q.client = x.client
        /\ q.policy = x.policy /\ q.left = Tail(x.left)
    BY <1>2, <1>4 DEF RequestOK, IsRequest
  <1>7. row.id \in Nat \ {0} /\ row \notin beneficiaries
    <2>1. /\ NewId(beneficiaries) \in Nat \ {0}
          /\ \A b \in beneficiaries : b.id # NewId(beneficiaries)
      BY NewIdIsNew DEF ApplicationInv, ApplicationTypes
    <2>2. QED
      BY <1>3, <2>1
  <1>8. IsFiniteSet(beneficiaries') /\ \A b \in beneficiaries' : b.id \in Nat \ {0}
    BY <1>5, <1>7, FS_AddElement DEF ApplicationInv, ApplicationTypes
  <1>9. Grown
    BY <1>5, <1>8 DEF ApplicationInv, ApplicationTypes, Grown, SharesOf
  <1>10. ApplicationTypes'
    BY <1>5, <1>8, OneRequest DEF ApplicationInv, ApplicationTypes
  <1>11. RequestOK(q)'
    <2>1. /\ x.left \in Seq(Nat) /\ x.app \in DOMAIN apps /\ x.client \in Nat
          /\ Has(x.policy, x.client, x.app)
          /\ Cardinality(SharesOf(x.client)) + Len(x.left) >= Len(apps[x.app].form.shares)
      BY <1>2 DEF RequestOK, Working
    <2>2. q.left \in Seq(Nat) /\ Len(q.left) = Len(x.left) - 1 /\ Len(x.left) \in Nat
      BY <1>2, <1>6, <2>1
    <2>3. PICK S : S = SharesOf(x.client)
      OBVIOUS
    <2>4. SharesOf(x.client)' = S \union {row} /\ row \notin S /\ S \in SUBSET beneficiaries
      BY <1>3, <1>5, <1>7, <2>3 DEF SharesOf
    <2>5. IsFiniteSet(S) /\ Cardinality(S) \in Nat
      BY <2>4, FS_Subset, FS_CardinalityType DEF ApplicationInv, ApplicationTypes
    <2>6. Cardinality(SharesOf(x.client)') = Cardinality(S) + 1
      BY <2>4, <2>5, FS_AddElement
    <2>7. Len(apps[x.app].form.shares) \in Nat
      BY <2>1, FormOfApp DEF ApplicationInv
    <2>8. Cardinality(SharesOf(x.client)') + Len(q.left) >= Len(apps[x.app].form.shares)
      BY <2>1, <2>2, <2>3, <2>5, <2>6, <2>7
    <2>9. Has(x.policy, x.client, x.app)'
      BY <1>5, <2>1 DEF Has
    <2>10. QED
      BY <1>5, <1>6, <2>1, <2>2, <2>8, <2>9 DEF RequestOK, Working
  <1>12. \A p \in policies' : PolicyOK(p)'
    BY <1>5 DEF ApplicationInv, PolicyOK
  <1>13. \A a \in DOMAIN apps' : a \in DOMAIN apps /\ apps'[a] = apps[a]
    BY <1>5
  <1>14. ApplicationInv'
    BY <1>5, <1>9, <1>10, <1>11, <1>12, <1>13, InvCarried
  <1>15. ASSUME Steady(x), Leaves(x, q)
         PROVE  Steady(q)'
    <2>1. Duty(q)
      BY <1>2, <1>6, <1>15 DEF Steady, Duty
    <2>2. QED
      BY <1>2, <1>5, <1>6, <1>15, <2>1, SteadyCarried DEF Working
  <1>16. Turns(r, q)
    BY <1>1, <1>2, <1>5, <1>14, <1>15 DEF Turns
  <1>17. QED
    BY <1>16

\* The applicant is linked to the client, which is somebody.
LEMMA LinkApplicantStep ==
    ASSUME ApplicationInv, NEW r \in Requests, LinkApplicant(r)
    PROVE  \E q : Turns(r, q)
  <1>1. PICK x : x = request[r]
    OBVIOUS
  <1>2. RequestOK(x) /\ x.step = "beneficiaries" /\ x.left = << >>
    BY <1>1 DEF ApplicationInv, LinkApplicant, At
  <1>3. PICK q : q = [x EXCEPT !.step = "account"]
    OBVIOUS
  <1>4. PICK y : y = apps[x.app].applicant
    OBVIOUS
  <1>5. /\ applicants' = [applicants EXCEPT ![y] = x.client]
        /\ Goes(r, q)
        /\ UNCHANGED <<apps, clients, policies, beneficiaries, accounts, crashes>>
    BY <1>1, <1>3, <1>4 DEF LinkApplicant
  <1>6. /\ IsRequest(q) /\ q.step = "account" /\ q.app = x.app /\ q.client = x.client
        /\ q.policy = x.policy
    BY <1>2, <1>3 DEF RequestOK, IsRequest
  <1>7. /\ x.app \in DOMAIN apps /\ Has(x.policy, x.client, x.app)
        /\ Cardinality(SharesOf(x.client)) + Len(x.left) >= Len(apps[x.app].form.shares)
    BY <1>2 DEF RequestOK, Working
  <1>8. x.client \in Nat \ {0}
    BY <1>7 DEF ApplicationInv, ApplicationTypes, PolicyOK, Has
  <1>9. y \in Applicants
    BY <1>4, <1>7, FormOfApp DEF ApplicationInv
  <1>10. /\ applicants' \in AppApplicant /\ applicants'[y] = x.client
         /\ \A z \in Applicants : applicants[z] # None => applicants'[z] # None
    BY <1>5, <1>8, <1>9 DEF ApplicationInv, ApplicationTypes, AppApplicant, None
  <1>11. Grown
    BY <1>5, <1>10 DEF ApplicationInv, ApplicationTypes, Grown, SharesOf
  <1>12. ApplicationTypes'
    BY <1>5, <1>10, OneRequest DEF ApplicationInv, ApplicationTypes
  <1>13. RequestOK(q)'
    <2>1. SharesOf(x.client)' = SharesOf(x.client) /\ SharesOf(x.client) \in SUBSET beneficiaries
      BY <1>5 DEF SharesOf
    <2>2. Cardinality(SharesOf(x.client)) \in Nat /\ Len(x.left) = 0
      BY <1>2, <2>1, FS_Subset, FS_CardinalityType DEF ApplicationInv, ApplicationTypes
    <2>3. Cardinality(SharesOf(x.client)) >= Len(apps[x.app].form.shares)
      BY <1>7, <2>2
    <2>4. Has(x.policy, x.client, x.app)' /\ SharesGiven(x.client, x.app)'
      BY <1>5, <1>7, <2>1, <2>3 DEF Has, SharesGiven
    <2>5. applicants'[apps'[x.app].applicant] # None
      BY <1>4, <1>5, <1>8, <1>10 DEF None
    <2>6. QED
      BY <1>5, <1>6, <1>7, <1>8, <2>4, <2>5 DEF RequestOK, Working
  <1>14. \A p \in policies' : PolicyOK(p)'
    BY <1>5 DEF ApplicationInv, PolicyOK
  <1>15. \A a \in DOMAIN apps' : a \in DOMAIN apps /\ apps'[a] = apps[a]
    BY <1>5
  <1>16. ApplicationInv'
    BY <1>5, <1>11, <1>12, <1>13, <1>14, <1>15, InvCarried
  <1>17. ASSUME Steady(x), Leaves(x, q)
         PROVE  Steady(q)'
    <2>1. Duty(q)
      BY <1>2, <1>6, <1>17 DEF Steady, Duty, Working
    <2>2. QED
      BY <1>2, <1>5, <1>6, <1>17, <2>1, SteadyCarried DEF Working
  <1>18. Turns(r, q)
    BY <1>1, <1>2, <1>5, <1>16, <1>17 DEF Turns
  <1>19. QED
    BY <1>18

LEMMA OpenAccountStep ==
    ASSUME ApplicationInv, NEW r \in Requests, OpenAccount(r)
    PROVE  \E q : Turns(r, q)
  <1>1. PICK x : x = request[r]
    OBVIOUS
  <1>2. RequestOK(x) /\ x.step = "account"
    BY <1>1 DEF ApplicationInv, OpenAccount, At
  <1>3. PICK q : q = [x EXCEPT !.step = "approve"]
    OBVIOUS
  <1>4. /\ accounts' = accounts \union {x.client}
        /\ Goes(r, q)
        /\ UNCHANGED <<apps, clients, policies, beneficiaries, applicants, crashes>>
    BY <1>1, <1>3 DEF OpenAccount
  <1>5. /\ IsRequest(q) /\ q.step = "approve" /\ q.app = x.app /\ q.client = x.client
        /\ q.policy = x.policy
    BY <1>2, <1>3 DEF RequestOK, IsRequest
  <1>6. Grown
    BY <1>4 DEF ApplicationInv, ApplicationTypes, Grown, SharesOf
  <1>7. ApplicationTypes'
    BY <1>4, OneRequest DEF ApplicationInv, ApplicationTypes
  <1>8. RequestOK(x)'
    BY <1>2, <1>6, RequestCarried DEF ApplicationInv
  <1>9. RequestOK(q)'
    BY <1>2, <1>4, <1>5, <1>8 DEF RequestOK, Working
  <1>10. \A p \in policies' : PolicyOK(p)'
    BY <1>4 DEF ApplicationInv, PolicyOK
  <1>11. \A a \in DOMAIN apps' : a \in DOMAIN apps /\ apps'[a] = apps[a]
    BY <1>4
  <1>12. ApplicationInv'
    BY <1>4, <1>6, <1>7, <1>9, <1>10, <1>11, InvCarried
  <1>13. ASSUME Steady(x), Leaves(x, q)
         PROVE  Steady(q)'
    <2>1. Duty(q)
      BY <1>2, <1>5, <1>13 DEF Steady, Duty, Working
    <2>2. QED
      BY <1>2, <1>4, <1>5, <1>13, <2>1, SteadyCarried DEF Working
  <1>14. Turns(r, q)
    BY <1>1, <1>2, <1>4, <1>12, <1>13 DEF Turns
  <1>15. QED
    BY <1>14

\* What is approved has all that the request has made.
LEMMA ConvertStep ==
    ASSUME ApplicationInv, NEW r \in Requests, convert(r)
    PROVE  \E q : Turns(r, q)
  <1>1. PICK x : x = request[r]
    OBVIOUS
  <1>2. RequestOK(x) /\ x.step = "approve"
    BY <1>1 DEF ApplicationInv, convert, At
  <1>3. PICK n : n = x.app
    OBVIOUS
  <1>4. /\ n \in DOMAIN apps /\ Has(x.policy, x.client, n) /\ SharesGiven(x.client, n)
        /\ applicants[apps[n].applicant] # None /\ x.client \in accounts
    BY <1>2, <1>3 DEF RequestOK, Working
  <1>5. x.client \in Nat /\ x.policy \in Nat
    BY <1>2, <1>4 DEF RequestOK, Has, ApplicationInv, ApplicationTypes
  <1>6. PICK row : row = [apps[n] EXCEPT !.status = "Approved", !.clientId = x.client,
                                         !.policyId = x.policy]
    OBVIOUS
  <1>7. /\ row \in AppApplication /\ row.status = "Approved"
        /\ row.clientId = x.client /\ row.policyId = x.policy
        /\ row.form = apps[n].form /\ row.applicant = apps[n].applicant
    <2>1. apps[n] \in AppApplication
      BY <1>4, FormOfApp DEF ApplicationInv
    <2>2. QED
      BY <1>5, <1>6, <2>1 DEF AppApplication, ApplicationStatus
  <1>8. PICK q : q = [Idle EXCEPT !.step = "notify", !.app = n, !.tell = "Approved"]
    OBVIOUS
  <1>9. /\ apps' = [apps EXCEPT ![n] = row] /\ Goes(r, q)
        /\ UNCHANGED <<clients, policies, beneficiaries, applicants, accounts, crashes>>
    BY <1>1, <1>3, <1>6, <1>8 DEF convert
  <1>10. /\ apps' \in Seq(AppApplication) /\ DOMAIN apps' = DOMAIN apps
         /\ apps'[n] = row /\ \A a \in DOMAIN apps : a # n => apps'[a] = apps[a]
    BY <1>4, <1>7, <1>9, WriteApp DEF ApplicationInv, ApplicationTypes
  <1>11. Grown
    BY <1>7, <1>9, <1>10 DEF ApplicationInv, ApplicationTypes, Grown, SharesOf
  <1>12. ApplicationTypes'
    BY <1>9, <1>10, OneRequest DEF ApplicationInv, ApplicationTypes
  <1>13. /\ IsRequest(q) /\ q.step = "notify" /\ q.app = n /\ q.client = None
         /\ q.policy = None
    BY <1>8 DEF IsRequest, Idle
  <1>14. RequestOK(q)'
    BY <1>4, <1>10, <1>13, ToldRequest
  <1>15. \A p \in policies' : PolicyOK(p)'
    BY <1>9, <1>10 DEF ApplicationInv, PolicyOK
  <1>16. ApprovedOK(n, apps[n])'
    <2>1. Has(x.policy, x.client, n)' /\ SharesGiven(x.client, n)'
      BY <1>4, <1>7, <1>9, <1>10 DEF Has, SharesGiven, SharesOf
    <2>2. QED
      BY <1>4, <1>7, <1>9, <1>10, <2>1 DEF ApprovedOK
  <1>17. ASSUME NEW a \in DOMAIN apps', apps'[a].status = "Approved"
         PROVE  (a \in DOMAIN apps /\ apps'[a] = apps[a]) \/ ApprovedOK(a, apps[a])'
    <2>1. CASE a = n
      BY <1>16, <2>1
    <2>2. CASE a # n
      BY <1>10, <2>2
    <2>3. QED
      BY <2>1, <2>2
  <1>18. ApplicationInv'
    BY <1>9, <1>11, <1>12, <1>14, <1>15, <1>17, InvCarried
  <1>19. ASSUME Steady(x), Leaves(x, q)
         PROVE  Steady(q)'
    <2>0. leftBehind' = leftBehind
      BY <1>2, <1>13, <1>19, NothingLeft
    <2>1. Duty(q)'
      BY <1>13 DEF Duty, Working
    <2>2. ASSUME NEW a \in DOMAIN apps'
          PROVE  OneOrNone(q, a)'
      <3>1. Standing(a)' = Standing(a) /\ OneOrNone(x, a)
        BY <1>9, <1>10, <1>19, <2>0 DEF Standing, Made, Steady
      <3>2. CASE a = n
        <4>1. apps[n].status # "Approved"
          BY <1>2, <1>3, <1>19 DEF Steady, Duty, Working
        <4>2. QED
          BY <1>2, <1>3, <1>7, <1>10, <3>1, <3>2, <4>1 DEF OneOrNone, Working
      <3>3. CASE a # n
        BY <1>2, <1>3, <1>10, <1>13, <3>1, <3>3 DEF OneOrNone, Working
      <3>4. QED
        BY <3>2, <3>3
    <2>3. leftBehind' \subseteq {p.id : p \in policies'}
      BY <1>9, <1>19, <2>0 DEF Steady
    <2>4. QED
      BY <2>1, <2>2, <2>3 DEF Steady
  <1>20. Turns(r, q)
    BY <1>1, <1>2, <1>9, <1>18, <1>19 DEF Turns
  <1>21. QED
    BY <1>20

\* A write that is refused ends the request where it is.
LEMMA WriteFailsStep ==
    ASSUME ApplicationInv, NEW r \in Requests, WriteFails(r)
    PROVE  \E q : Turns(r, q)
  <1>1. UNCHANGED <<applicants, accounts>> /\ crashes' \in Nat
    BY DEF WriteFails, ApplicationInv, ApplicationTypes
  <1>2. CASE At(r, "policy")
    <2>1. PolicyThrows(r)
      BY <1>2 DEF WriteFails
    <2>2. QED
      BY <1>1, <1>2, <2>1, PolicyFailsStep
  <1>3. CASE ~At(r, "policy")
    <2>1. /\ UNCHANGED <<apps, clients, policies, beneficiaries>>
          /\ Goes(r, Idle) /\ request[r].step # "idle"
      BY <1>3 DEF WriteFails, Ends, At
    <2>2. RequestOK(Idle)
      BY DEF RequestOK, IsRequest, Idle, Working, None
    <2>3. ApplicationInv'
      BY <1>1, <2>1, <2>2, RestStep
    <2>4. PICK x : x = request[r]
      OBVIOUS
    <2>5. Steady(x) /\ Leaves(x, Idle) => Steady(Idle)'
      BY <2>1, <2>4, BreakOff DEF ApplicationInv
    <2>6. Turns(r, Idle)
      BY <2>1, <2>3, <2>4, <2>5 DEF Turns
    <2>7. QED
      BY <2>6
  <1>4. QED
    BY <1>2, <1>3

\* Each action of a request takes it on.
RequestStep(r) ==
    \/ \E a \in Applicants, f \in Forms : nextApplicationNo(r, a, f)
    \/ Submit(r)
    \/ SaveFiles(r)
    \/ \E a \in DOMAIN apps :
         \/ ReadForReview(r, a)
         \/ ReadForRejection(r, a)
         \/ \E no \in StaffNumbers \union suggestPolicyNo(apps[a].product) :
              \E existing \in {None} \union {c.id : c \in clients}, isNew \in BOOLEAN :
                ReadForConversion(r, a, no, existing, isNew)
    \/ markUnderReview(r)
    \/ reject(r)
    \/ Notify(r)
    \/ CreateClient(r)
    \/ CreatePolicy(r)
    \/ AddBeneficiary(r)
    \/ LinkApplicant(r)
    \/ OpenAccount(r)
    \/ convert(r)
    \/ WriteFails(r)
LEMMA RequestTurns ==
    ASSUME ApplicationInv, NEW r \in Requests, RequestStep(r)
    PROVE  \E q : Turns(r, q)
  <1>1. CASE markUnderReview(r) \/ reject(r)
    BY <1>1, WriteStatusStep DEF markUnderReview, reject
  <1>2. CASE Submit(r) \/ CreateClient(r)
    BY <1>2, SubmitStep, CreateClientStep
  <1>3. CASE CreatePolicy(r)
    <2>1. CASE CreatePolicyFails(r)
      <3>1. At(r, "policy") /\ PolicyThrows(r) /\ UNCHANGED <<applicants, accounts, crashes>>
        BY <1>3, <2>1 DEF CreatePolicy, CreatePolicyFails
      <3>2. QED
        BY <3>1, PolicyFailsStep DEF ApplicationInv, ApplicationTypes
    <2>2. QED
      BY <1>3, <2>1, PolicyMadeStep
  <1>4. CASE AddBeneficiary(r) \/ LinkApplicant(r) \/ OpenAccount(r) \/ convert(r) \/ WriteFails(r)
    BY <1>4, AddBeneficiaryStep, LinkApplicantStep, OpenAccountStep, ConvertStep, WriteFailsStep
  <1>5. CASE ~(markUnderReview(r) \/ reject(r) \/ Submit(r) \/ CreateClient(r) \/ CreatePolicy(r)
               \/ AddBeneficiary(r) \/ LinkApplicant(r) \/ OpenAccount(r) \/ convert(r)
               \/ WriteFails(r))
    BY <1>5, ReadSteps, Zenon DEF RequestStep
  <1>6. QED
    BY <1>1, <1>2, <1>3, <1>4, <1>5

\* A first premium touches nothing of a conversion, and a restart leaves no
\* request at work.
LEMMA PremiumAndCutOff ==
    ASSUME ApplicationInv,
           (\E p \in policies : FirstPremium(p)) \/ CutOff \/ UNCHANGED applicationVars
    PROVE  ApplicationInv'
  <1>1. /\ UNCHANGED <<apps, clients, policies, beneficiaries, applicants, accounts>>
        /\ crashes' \in Nat
        /\ UNCHANGED request \/ request' = [r \in Requests |-> Idle]
    BY DEF FirstPremium, CutOff, applicationVars, ApplicationInv, ApplicationTypes
  <1>2. ApplicationTypes'
    BY <1>1 DEF ApplicationInv, ApplicationTypes
  <1>3. ASSUME NEW s \in Requests
        PROVE  RequestOK(request[s])'
    <2>1. CASE UNCHANGED request
      BY <1>1, <2>1 DEF ApplicationInv, RequestOK, Has, SharesGiven, SharesOf
    <2>2. CASE request' = [r \in Requests |-> Idle]
      <3>1. /\ IsRequest(Idle) /\ Idle.step = "idle" /\ Idle.client = None
            /\ Idle.policy = None
        BY DEF IsRequest, Idle
      <3>2. request'[s] = Idle
        BY <2>2
      <3>3. QED
        BY <3>1, <3>2 DEF RequestOK, Working, None
    <2>3. QED
      BY <1>1, <2>1, <2>2
  <1>4. \A p \in policies' : PolicyOK(p)'
    BY <1>1 DEF ApplicationInv, PolicyOK
  <1>5. \A a \in DOMAIN apps' : ApprovedOK(a, apps[a])'
    BY <1>1 DEF ApplicationInv, ApprovedOK, Has, SharesGiven, SharesOf
  <1>6. QED
    BY <1>2, <1>3, <1>4, <1>5 DEF ApplicationInv

LEMMA ApplicationNextCases ==
    ASSUME ApplicationStep
    PROVE  \/ \E r \in Requests : RequestStep(r)
           \/ \E p \in policies : FirstPremium(p)
           \/ CutOff
  BY Zenon DEF ApplicationStep, RequestStep

LEMMA ApplicationStarts ==
    ASSUME ApplicationInit
    PROVE  ApplicationInv
  <1>1. ApplicationTypes
    BY FS_EmptySet DEF ApplicationInit, ApplicationTypes, AppApplicant, None
  <1>2. IsRequest(Idle) /\ Idle.step = "idle" /\ Idle.client = None /\ Idle.policy = None
    BY DEF IsRequest, Idle
  <1>3. \A r \in Requests : RequestOK(request[r])
    BY <1>2 DEF ApplicationInit, RequestOK, Working, None
  <1>4. policies = {} /\ DOMAIN apps = {}
    BY DEF ApplicationInit
  <1>5. QED
    BY <1>1, <1>3, <1>4 DEF ApplicationInv

\* The inductive invariant of applications: what each request in the middle of a
\* conversion has made so far is there and stays, whatever overlaps with it.
THEOREM ApplicationInvariant == ApplicationSpec => []ApplicationInv
  <1>1. ApplicationInit => ApplicationInv
    BY ApplicationStarts
  <1>2. ApplicationInv /\ [ApplicationNext]_applicationVars => ApplicationInv'
    <2> SUFFICES ASSUME ApplicationInv, [ApplicationNext]_applicationVars
                 PROVE  ApplicationInv'
      OBVIOUS
    <2>1. CASE ApplicationNext
      <3>1. ASSUME NEW r \in Requests, RequestStep(r)
            PROVE  ApplicationInv'
        BY <3>1, RequestTurns DEF Turns
      <3>2. QED
        BY <2>1, <3>1, ApplicationNextCases, PremiumAndCutOff DEF ApplicationNext
    <2>2. CASE UNCHANGED applicationVars
      BY <2>2, PremiumAndCutOff
    <2>3. QED
      BY <2>1, <2>2
  <1>3. QED
    BY <1>1, <1>2, PTL DEF ApplicationSpec

\* convert: an applicant who reads of an approval has a client, a policy of this
\* application, its beneficiaries and an account, for any number of requests that
\* review, reject and convert at once, and of restarts between any two writes.
THEOREM ApprovalIsCompleteHolds == ApplicationSpec => []ApprovalIsComplete
  <1>1. ApplicationInv => ApprovalIsComplete
    <2> SUFFICES ASSUME ApplicationInv, NEW a \in DOMAIN apps,
                        publicStatus(apps[a]) \in {"Approved - awaiting first premium", "Active"}
                 PROVE  /\ \E p \in policies :
                             p.id = apps[a].policyId /\ p.client = apps[a].clientId /\ p.app = a
                        /\ \E c \in clients : c.id = apps[a].clientId
                        /\ Cardinality(SharesOf(apps[a].clientId)) >= Len(apps[a].form.shares)
                        /\ apps[a].clientId \in accounts
                        /\ applicants[apps[a].applicant] # None
      BY DEF ApprovalIsComplete
    <2>1. apps[a].status = "Approved"
      BY DEF publicStatus
    <2>2. ApprovedOK(a, apps[a])
      BY DEF ApplicationInv
    <2>3. Has(apps[a].policyId, apps[a].clientId, a)
      BY <2>1, <2>2 DEF ApprovedOK
    <2>4. \E c \in clients : c.id = apps[a].clientId
      BY <2>3 DEF ApplicationInv, PolicyOK, Has
    <2>5. QED
      BY <2>1, <2>2, <2>3, <2>4 DEF ApprovedOK, Has, SharesGiven
  <1>2. QED
    BY <1>1, ApplicationInvariant, PTL

\* While calls come one after the other the request at work is the only one.
QuietInv ==
    /\ quiet \in BOOLEAN
    /\ quiet =>
         /\ \A r, s \in Requests :
              request[r].step # "idle" /\ request[s].step # "idle" => r = s
         /\ \A r \in Requests :
              (\A s \in Requests \ {r} : request[s].step = "idle") => Steady(request[r])
\* Only the request that moves leaves a policy behind.
LEMMA MoverLeaves ==
    ASSUME ApplicationInv, ApplicationNext, NEW t \in Requests, NEW q,
           request'[t] = q, \A s \in Requests \ {t} : request'[s] \in {request[s], Idle},
           \A s \in Requests \ {t} : request'[s] = request[s] \/ request[s].step = "idle"
    PROVE  Leaves(request[t], q)
  <1>1. ASSUME NEW s \in Requests \ {t}
        PROVE  ~(request[s].policy # None /\ request'[s].step = "idle")
    <2>1. request[s].step = "idle" => request[s].policy = None
      BY DEF ApplicationInv, RequestOK, Working
    <2>2. QED
      BY <2>1
  <1>2. leftBehind' = leftBehind \union
            {request[r].policy : r \in {s \in Requests : request[s].policy # None
                                                      /\ request'[s].step = "idle"}}
    BY DEF ApplicationNext
  <1>3. QED
    BY <1>1, <1>2 DEF Leaves

LEMMA QuietStep ==
    ASSUME ApplicationInv, QuietInv, [ApplicationNext]_applicationVars
    PROVE  QuietInv'
  <1>1. CASE UNCHANGED applicationVars
    BY <1>1 DEF QuietInv, applicationVars, Steady, Duty, OneOrNone, Standing, Made
  <1>2. CASE ApplicationNext
    <2>1. quiet' \in BOOLEAN
      BY <1>2 DEF ApplicationNext, QuietInv
    <2>2. SUFFICES ASSUME quiet'
                   PROVE  /\ \A r, s \in Requests :
                               request'[r].step # "idle" /\ request'[s].step # "idle" => r = s
                          /\ \A r \in Requests :
                               (\A s \in Requests \ {r} : request'[s].step = "idle")
                                  => Steady(request[r])'
      BY <2>1 DEF QuietInv
    <2>3. /\ quiet
          /\ Cardinality({r \in Requests : request'[r].step # "idle"}) <= 1
      BY <1>2, <2>2 DEF ApplicationNext, QuietInv
    <2>4. \A r, s \in Requests :
             request'[r].step # "idle" /\ request'[s].step # "idle" => r = s
      <3>1. PICK B : B = {r \in Requests : request'[r].step # "idle"}
        OBVIOUS
      <3>2. IsFiniteSet(B) /\ Cardinality(B) <= 1
        BY <2>3, <3>1, ApplicationAssumption, FS_Subset DEF ApplicationAssumption
      <3>3. QED
        BY <3>1, <3>2, NoTwoRequests
    <2>5. ASSUME NEW r \in Requests, \A s \in Requests \ {r} : request'[s].step = "idle"
          PROVE  Steady(request[r])'
      <3>1. CASE CutOff
        <4>1. UNCHANGED <<apps, policies>> /\ request' = [s \in Requests |-> Idle]
          BY <3>1 DEF CutOff
        <4>2. PICK t \in Requests : \A s \in Requests \ {t} : request[s].step = "idle"
          BY <2>3 DEF QuietInv
        <4>3. Steady(request[t])
          BY <2>3, <4>2 DEF QuietInv
        <4>4. Leaves(request[t], Idle)
          BY <1>2, <4>1, <4>2, MoverLeaves
        <4>5. PICK x : x = request[t]
          OBVIOUS
        <4>6. Steady(Idle)'
          BY <4>1, <4>3, <4>4, <4>5, BreakOff DEF ApplicationInv
        <4>7. QED
          BY <4>1, <4>6
      <3>2. CASE \E p \in policies : FirstPremium(p)
        <4>1. UNCHANGED <<apps, policies, request>>
          BY <3>2 DEF FirstPremium
        <4>2. Steady(request[r])
          BY <2>3, <2>5, <4>1 DEF QuietInv
        <4>3. Leaves(request[r], request[r])
          BY <1>2, <4>1, MoverLeaves
        <4>4. PICK x : x = request[r]
          OBVIOUS
        <4>5. RequestOK(x) /\ Duty(x)
          BY <4>2, <4>4 DEF ApplicationInv, Steady
        <4>6. Steady(x)'
          BY <4>1, <4>2, <4>3, <4>4, <4>5, SteadyCarried
        <4>7. QED
          BY <4>1, <4>4, <4>6
      <3>3. ASSUME NEW t \in Requests, RequestStep(t)
            PROVE  Steady(request[r])'
        <4>1. PICK q : Turns(t, q)
          BY <3>3, RequestTurns
        <4>2. request'[t] = q /\ \A s \in Requests \ {t} : request'[s] = request[s]
          BY <4>1, OneRequest DEF Turns, ApplicationInv
        <4>3. Leaves(request[t], q)
          BY <1>2, <4>2, MoverLeaves
        <4>4. CASE t = r
          <5>1. Steady(request[r])
            BY <2>3, <2>5, <4>2, <4>4 DEF QuietInv
          <5>2. Steady(q)'
            BY <4>1, <4>3, <4>4, <5>1 DEF Turns
          <5>3. QED
            BY <4>2, <4>4, <5>2
        <4>5. CASE t # r
          <5>1. q.step = "idle" /\ request[t].step # "idle"
            BY <2>5, <4>1, <4>2, <4>5 DEF Turns
          <5>2. \A s \in Requests \ {t} : request[s].step = "idle"
            BY <2>3, <5>1 DEF QuietInv
          <5>3. Steady(q)'
            BY <2>3, <4>1, <4>3, <5>2 DEF QuietInv, Turns
          <5>4. request'[r].step = "idle"
            BY <4>2, <4>5, <5>2
          <5>5. QED
            BY <5>1, <5>3, <5>4 DEF Steady, Duty, OneOrNone, Working
        <4>6. QED
          BY <4>4, <4>5
      <3>4. QED
        BY <1>2, <3>1, <3>2, <3>3, ApplicationNextCases DEF ApplicationNext
    <2>6. QED
      BY <2>4, <2>5
  <1>3. QED
    BY <1>1, <1>2

\* While calls come one after the other, refused and cut off where they may be, an
\* approved application names the one policy made of it by a conversion that came to
\* its end and of the others there is none, for any number of applications and forms.
THEOREM OnePolicyEachHolds == ApplicationSpec => []OnePolicyEach
  <1>1. ApplicationInit => QuietInv
    <2>1. Idle.step = "idle"
      BY DEF Idle
    <2>2. QED
      BY <2>1 DEF ApplicationInit, QuietInv, Steady, Duty, OneOrNone, Working
  <1>2. ApplicationInv /\ QuietInv => OnePolicyEach
    <2> SUFFICES ASSUME ApplicationInv, QuietInv, quiet, NEW a \in DOMAIN apps,
                        \A r \in Requests : request[r].app # a \/ request[r].step = "notify"
                 PROVE  Standing(a) =
                            IF apps[a].status = "Approved" THEN {apps[a].policyId} ELSE {}
      BY DEF OnePolicyEach, Standing, Made
    <2>1. ASSUME NEW r \in Requests, Steady(request[r])
          PROVE  Standing(a) = IF apps[a].status = "Approved" THEN {apps[a].policyId} ELSE {}
      <3>1. OneOrNone(request[r], a)
        BY <2>1 DEF Steady
      <3>2. ~(request[r].step \in Working /\ request[r].app = a)
        BY DEF Working
      <3>3. QED
        BY <3>1, <3>2 DEF OneOrNone
    <2>2. PICK r \in Requests : \A s \in Requests \ {r} : request[s].step = "idle"
      <3>1. CASE \E r \in Requests : request[r].step # "idle"
        BY <3>1 DEF QuietInv
      <3>2. CASE \A r \in Requests : request[r].step = "idle"
        BY <3>2, ApplicationAssumption DEF ApplicationAssumption
      <3>3. QED
        BY <3>1, <3>2
    <2>3. Steady(request[r])
      BY <2>2 DEF QuietInv
    <2>4. QED
      BY <2>1, <2>3
  <1>3. QED
    BY <1>1, <1>2, QuietStep, ApplicationInvariant, PTL DEF ApplicationSpec
-------------------------------------------------------------------------------
(* Uploaded premiums.                                                       *)

PremiumSpec(rolls, clientele) ==
    PremiumInit(rolls, clientele) /\ [][PremiumNext]_premiumVars

PolicyNumber == [number: Nat, spelling: Nat]
RollRow ==
    [policyNo: PolicyNumber, pincode: Nat, client: Nat, product: Products, cancelled: BOOLEAN]
PersonRow == [nationalId: Nat, phone: Nat]
UploadSteps == {"idle", "row", "enrol", "policy", "issue", "post", "record"}
FileIds == {0} \union DOMAIN Files
UploadRow ==
    [step: UploadSteps, file: FileIds, at: Nat, client: Nat, policy: Nat]

\* The row an upload works on, and what a row that was worked on has become.
Now(u) == SheetRows(u.file)[u.at]
Paid(f, row) == Keyed(KeyOf(f, row))
RowDone(f, i) ==
    /\ Paid(f, SheetRows(f)[i]) \/ <<f, i>> \in refused
    /\ Deductions(f) => \E k \in DOMAIN records :
         records[k].pincode = SheetRows(f)[i].pincode /\ records[k].period = SheetRows(f)[i].month
\* Policy p is the one the row of file f means.
Meant(f, row, p) ==
    /\ p \in DOMAIN roll
    /\ Deductions(f) => roll[p].pincode = row.pincode
    /\ Files[f].layout = "payroll" => people[roll[p].client].phone = row.phone
    /\ Files[f].layout = "office" => roll[p].policyNo.number = row.policyNo.number
    /\ Files[f].layout = "bulk" => roll[p].policyNo = row.policyNo
UploadOK(u) ==
    /\ u \in UploadRow
    /\ u.step # "idle" =>
         /\ u.file \in DOMAIN Files /\ u.at # 0
         /\ \A i \in DOMAIN SheetRows(u.file) : i < u.at => RowDone(u.file, i)
    /\ u.step \notin {"idle", "row"} => u.at \in DOMAIN SheetRows(u.file)
    /\ u.step \in {"enrol", "policy", "issue"} => Files[u.file].layout = "payroll"
    /\ u.step \in {"policy", "issue"} =>
         u.client \in DOMAIN people /\ people[u.client].phone = Now(u).phone
    /\ u.step = "post" => Meant(u.file, Now(u), u.policy)
    /\ u.step = "record" => Deductions(u.file) /\ Paid(u.file, Now(u))
\* A payment is of a row, and of the policy it means.
OfRow(p, f, i) ==
    /\ p.key = KeyOf(f, SheetRows(f)[i])
    /\ p.month = SheetRows(f)[i].month /\ p.amount = SheetRows(f)[i].amount
    /\ Meant(f, SheetRows(f)[i], p.policy)
PaymentOK(p) == \E f \in DOMAIN Files : \E i \in DOMAIN SheetRows(f) : OfRow(p, f, i)

PremiumTypes ==
    /\ roll \in Seq(RollRow) /\ people \in Seq(PersonRow)
    /\ records \in Seq(DeductionImportRecord)
    /\ upload \in [Uploaders -> UploadRow]
    /\ single \in BOOLEAN
RollOK == \A p \in DOMAIN roll : roll[p].client \in DOMAIN people
PeopleOK ==
    \A k \in DOMAIN people, row \in RowsOf("payroll") :
       row.nationalId # Absent /\ row.nationalId = people[k].nationalId => row.phone = people[k].phone
RecordsOK ==
    \A i \in DOMAIN records : records[i].status \in {"Posted", "AlreadyPosted"} =>
       Keyed(<<"deduction", records[i].pincode, records[i].period>>)
PremiumInv ==
    /\ PremiumTypes /\ RollOK /\ PeopleOK /\ RecordsOK
    /\ \A c \in Uploaders : UploadOK(upload[c])
    /\ \A f \in finished : f \in DOMAIN Files /\ \A i \in DOMAIN SheetRows(f) : RowDone(f, i)
    /\ \A p \in posted : PaymentOK(p)
    /\ \A p, q \in posted : p.key = q.key => p = q

\* What is written stays.
Onward ==
    /\ posted \subseteq posted' /\ refused \subseteq refused'
    /\ \A i \in DOMAIN records : i \in DOMAIN records' /\ records'[i] = records[i]
    /\ \A k \in DOMAIN people : k \in DOMAIN people' /\ people'[k] = people[k]
    /\ \A p \in DOMAIN roll :
         /\ p \in DOMAIN roll'
         /\ roll'[p].pincode = roll[p].pincode /\ roll'[p].client = roll[p].client
         /\ roll'[p].policyNo = roll[p].policyNo /\ roll'[p].product = roll[p].product
-------------------------------------------------------------------------------
\* What was done for a row, and what an upload has in hand, stays.
LEMMA RowDoneStays ==
    ASSUME Onward, NEW f, NEW i, RowDone(f, i)
    PROVE  RowDone(f, i)'
  BY DEF Onward, RowDone, Paid, Keyed
LEMMA MeantStays ==
    ASSUME Onward, RollOK, NEW f, NEW row, NEW p, Meant(f, row, p)
    PROVE  Meant(f, row, p)'
  BY DEF Onward, Meant, RollOK
LEMMA UploadKept ==
    ASSUME Onward, RollOK, NEW u, UploadOK(u)
    PROVE  UploadOK(u)'
  <1>1. u.step # "idle" => \A i \in DOMAIN SheetRows(u.file) : i < u.at => RowDone(u.file, i)'
    BY RowDoneStays DEF UploadOK
  <1>2. u.step = "post" => Meant(u.file, Now(u), u.policy)'
    BY MeantStays DEF UploadOK
  <1>3. u.step = "record" => Paid(u.file, Now(u))'
    BY DEF UploadOK, Paid, Keyed, Onward
  <1>4. u.step \in {"policy", "issue"} =>
          u.client \in DOMAIN people' /\ people'[u.client].phone = Now(u).phone
    BY DEF UploadOK, Onward
  <1>5. QED
    BY <1>1, <1>2, <1>3, <1>4 DEF UploadOK, Now
LEMMA PaymentKept ==
    ASSUME Onward, RollOK, NEW p, PaymentOK(p)
    PROVE  PaymentOK(p)'
  BY MeantStays DEF PaymentOK, OfRow

\* An upload takes a turn: the tables go onward and it has `u' in hand.
TurnOf(c, u) ==
    /\ upload' = [upload EXCEPT ![c] = u]
    /\ UploadOK(u)'
LEMMA TurnKeeps ==
    ASSUME PremiumInv, Onward, NEW c \in Uploaders, NEW u, TurnOf(c, u)
    PROVE  /\ upload' \in [Uploaders -> UploadRow]
           /\ \A d \in Uploaders : UploadOK(upload[d])'
  <1>1. u \in UploadRow
    BY DEF TurnOf, UploadOK
  <1>2. upload \in [Uploaders -> UploadRow] /\ RollOK
    BY DEF PremiumInv, PremiumTypes
  <1>3. \A d \in Uploaders : upload'[d] = IF d = c THEN u ELSE upload[d]
    BY <1>2 DEF TurnOf
  <1>4. ASSUME NEW d \in Uploaders PROVE UploadOK(upload[d])'
    <2>1. CASE d = c
      BY <1>3, <2>1 DEF TurnOf
    <2>2. CASE d # c
      <3>1. UploadOK(upload[d])
        BY DEF PremiumInv
      <3>2. PICK v : v = upload[d]
        OBVIOUS
      <3>3. UploadOK(v)'
        BY <1>2, <3>1, <3>2, UploadKept
      <3>4. upload'[d] = v
        BY <1>3, <2>2, <3>2
      <3>5. QED
        BY <3>3, <3>4
    <2>3. QED
      BY <2>1, <2>2
  <1>5. QED
    BY <1>1, <1>2, <1>4 DEF TurnOf

\* A step that posts no payment: what is finished, paid and recorded stays.
LEMMA QuietTurn ==
    ASSUME PremiumInv, Onward, UNCHANGED posted, NEW f \in finished
    PROVE  \A i \in DOMAIN SheetRows(f) : RowDone(f, i)'
  BY RowDoneStays DEF PremiumInv
LEMMA PostedKept ==
    ASSUME PremiumInv, Onward, UNCHANGED posted
    PROVE  /\ \A p \in posted' : PaymentOK(p)'
           /\ \A p, q \in posted' : p.key = q.key => p = q
  BY PaymentKept DEF PremiumInv

\* What a step leaves to be shown when it posts no payment.
LEMMA CarriedOn ==
    ASSUME PremiumInv, Onward, UNCHANGED <<posted, roll, people>>, RecordsOK',
           records' \in Seq(DeductionImportRecord), single' \in BOOLEAN,
           \A f \in finished' \ finished :
              f \in DOMAIN Files /\ \A i \in DOMAIN SheetRows(f) : RowDone(f, i)',
           NEW c \in Uploaders, NEW u, TurnOf(c, u)
    PROVE  PremiumInv'
  <1>1. PremiumTypes' /\ RollOK' /\ PeopleOK'
    BY TurnKeeps DEF PremiumInv, PremiumTypes, RollOK, PeopleOK
  <1>2. \A f \in finished' : f \in DOMAIN Files /\ \A i \in DOMAIN SheetRows(f) : RowDone(f, i)'
    BY QuietTurn DEF PremiumInv
  <1>3. QED
    BY <1>1, <1>2, TurnKeeps, PostedKept DEF PremiumInv
LEMMA SingleIsBoolean ==
    ASSUME PremiumInv, PremiumNext
    PROVE  single' \in BOOLEAN
  BY DEF PremiumNext, PremiumInv, PremiumTypes

\* The row at work is one of the rows of the file.
LEMMA RowAtWork ==
    ASSUME PremiumInv, NEW c \in Uploaders, upload[c].step # "idle",
           upload[c].at \in DOMAIN SheetRows(upload[c].file)
    PROVE  /\ RowAt(c) = Now(upload[c])
           /\ upload[c].file \in DOMAIN Files
           /\ Files[upload[c].file].layout \in Layouts
           /\ RowAt(c) \in SheetRow(Files[upload[c].file].layout)
           /\ RowAt(c) \in RowsOf(Files[upload[c].file].layout)
           /\ upload[c].at \in Nat \ {0}
           /\ upload[c] \in UploadRow
  <1>1. UploadOK(upload[c])
    BY DEF PremiumInv
  <1>2. upload[c].file \in DOMAIN Files /\ upload[c] \in UploadRow
    BY <1>1 DEF UploadOK
  <1>3. SheetRows(upload[c].file) \in Seq(SheetRow(Files[upload[c].file].layout))
    BY <1>2, PremiumAssumption DEF PremiumAssumption
  <1>4. RowAt(c) \in SheetRow(Files[upload[c].file].layout) /\ upload[c].at \in Nat \ {0}
    BY <1>3 DEF RowAt
  <1>5. RowAt(c) \in RowsOf(Files[upload[c].file].layout)
    BY <1>2 DEF RowAt, RowsOf, Range
  <1>6. QED
    BY <1>2, <1>4, <1>5, PremiumAssumption DEF PremiumAssumption, RowAt, Now

LEMMA RowsAreCounted ==
    ASSUME NEW f \in DOMAIN Files
    PROVE  \E n \in Nat : DOMAIN SheetRows(f) = 1 .. n
  <1>1. SheetRows(f) \in Seq(SheetRow(Files[f].layout))
    BY PremiumAssumption DEF PremiumAssumption
  <1>2. PICK s : s = SheetRows(f)
    OBVIOUS
  <1>3. DOMAIN s = 1 .. Len(s) /\ Len(s) \in Nat
    BY <1>1, <1>2, LenProperties
  <1>4. QED
    BY <1>2, <1>3
LEMMA OutOK == UploadOK(Out)'
  <1>1. Out.step = "idle"
    BY DEF Out
  <1>2. Out \in UploadRow
    BY DEF Out, UploadRow, UploadSteps, FileIds
  <1>3. QED
    BY <1>1, <1>2 DEF UploadOK

\* On to the next row, when this one is done.
LEMMA NextRowOK ==
    ASSUME PremiumInv, Onward, NEW c \in Uploaders, upload[c].step # "idle",
           upload[c].at \in DOMAIN SheetRows(upload[c].file),
           NEW f, NEW i, f = upload[c].file, i = upload[c].at, RowDone(f, i)', NextRow(c)
    PROVE  \E u : TurnOf(c, u) /\ upload'[c] = u /\ u.step = "row"
  <1>1. PICK v : v = upload[c]
    OBVIOUS
  <1>2. UploadOK(v)
    BY <1>1 DEF PremiumInv
  <1>3. v \in UploadRow /\ v.file \in DOMAIN Files /\ v.at \in Nat
    BY <1>1, <1>2 DEF UploadOK, UploadRow
  <1>4. PICK n \in Nat : n = v.at + 1
    BY <1>3
  <1>5. PICK u : u = [v EXCEPT !.step = "row", !.at = n, !.client = 0, !.policy = 0]
    OBVIOUS
  <1>6. u \in UploadRow /\ u.step = "row" /\ u.file = v.file /\ u.at = n
    <2>1. "row" \in UploadSteps /\ v \in UploadRow
      BY <1>3 DEF UploadSteps
    <2>2. u \in UploadRow
      BY <2>1, <1>5 DEF UploadRow
    <2>3. QED
      BY <2>1, <2>2, <1>5 DEF UploadRow
  <1>7. \A j \in DOMAIN SheetRows(u.file) : j < u.at => j < v.at \/ j = v.at
    <2>1. PICK m \in Nat : DOMAIN SheetRows(v.file) = 1 .. m
      BY <1>3, RowsAreCounted
    <2>2. QED
      BY <1>3, <1>4, <1>6, <2>1
  <1>8. \A j \in DOMAIN SheetRows(u.file) : j < u.at => RowDone(u.file, j)'
    BY <1>1, <1>2, <1>6, <1>7, RowDoneStays DEF UploadOK
  <1>9. UploadOK(u)'
    BY <1>3, <1>4, <1>6, <1>8 DEF UploadOK
  <1>10. upload' = [upload EXCEPT ![c] = u]
    BY <1>1, <1>4, <1>5 DEF NextRow, Move
  <1>11. QED
    BY <1>6, <1>9, <1>10 DEF TurnOf, PremiumInv, PremiumTypes
-------------------------------------------------------------------------------
(* An upload begins and ends.                                               *)

LEMMA StartUploadStep ==
    ASSUME PremiumInv, PremiumNext, NEW c \in Uploaders, NEW f \in DOMAIN Files, StartUpload(c, f)
    PROVE  PremiumInv'
  <1> DEFINE u == [Out EXCEPT !.step = "row", !.file = f, !.at = 1]
  <1>1. Onward /\ UNCHANGED <<posted, roll, people, records, finished>>
    BY DEF StartUpload, Onward
  <1>2. u \in UploadRow /\ u.step = "row" /\ u.file = f /\ u.at = 1
    BY DEF Out, UploadRow, UploadSteps, FileIds
  <1>3. \A i \in DOMAIN SheetRows(f) : ~(i < 1)
    BY RowsAreCounted
  <1>4. TurnOf(c, u)
    BY <1>2, <1>3 DEF TurnOf, UploadOK, StartUpload, Move
  <1>5. QED
    BY <1>1, <1>4, CarriedOn, SingleIsBoolean DEF PremiumInv, PremiumTypes, RecordsOK, Keyed

LEMMA EndUploadStep ==
    ASSUME PremiumInv, PremiumNext, NEW c \in Uploaders, EndUpload(c)
    PROVE  PremiumInv'
  <1>1. Onward /\ UNCHANGED <<posted, roll, people, records>>
        /\ finished' = finished \union {upload[c].file}
    BY DEF EndUpload, Onward
  <1>2. PICK v : v = upload[c]
    OBVIOUS
  <1>3. UploadOK(v) /\ v.step = "row" /\ v.at \notin DOMAIN SheetRows(v.file)
    BY <1>2 DEF PremiumInv, EndUpload, HasRow, StepIs
  <1>4. v.file \in DOMAIN Files /\ v.at \in Nat /\ v.at # 0
    BY <1>3 DEF UploadOK, UploadRow
  <1>5. \A i \in DOMAIN SheetRows(v.file) : RowDone(v.file, i)'
    <2>1. PICK n \in Nat : DOMAIN SheetRows(v.file) = 1 .. n
      BY <1>4, RowsAreCounted
    <2>2. \A i \in DOMAIN SheetRows(v.file) : i < v.at
      BY <1>3, <1>4, <2>1
    <2>3. QED
      BY <1>1, <1>3, <2>2, RowDoneStays DEF UploadOK
  <1>6. TurnOf(c, Out)
    BY OutOK DEF TurnOf, EndUpload, Move
  <1>7. \A f \in finished' \ finished :
           f \in DOMAIN Files /\ \A i \in DOMAIN SheetRows(f) : RowDone(f, i)'
    BY <1>1, <1>2, <1>4, <1>5
  <1>8. QED
    BY <1>1, <1>6, <1>7, CarriedOn, SingleIsBoolean DEF PremiumInv, PremiumTypes, RecordsOK, Keyed
-------------------------------------------------------------------------------
(* The deduction lists.                                                     *)

\* A deduction gets its record and the upload goes on to the next row.
LEMMA RecordedRow ==
    ASSUME PremiumInv, PremiumNext, NEW c \in Uploaders, upload[c].step # "idle",
           upload[c].at \in DOMAIN SheetRows(upload[c].file), Deductions(upload[c].file),
           NEW status \in DeductionRecordStatus, NEW p \in Nat,
           Record(RowAt(c), status, p), NextRow(c),
           UNCHANGED <<roll, people, posted, finished>>, refused \subseteq refused',
           Paid(upload[c].file, RowAt(c)) \/ <<upload[c].file, upload[c].at>> \in refused',
           status \in {"Posted", "AlreadyPosted"} => Paid(upload[c].file, RowAt(c))
    PROVE  PremiumInv'
  <1>1. PICK v : v = upload[c]
    OBVIOUS
  <1>2. PICK row : row = Now(v)
    OBVIOUS
  <1>3. row = RowAt(c) /\ row.pincode \in Nat /\ row.month \in Nat
    BY <1>1, <1>2, RowAtWork DEF Deductions, SheetRow
  <1>4. PICK rec : rec = [period |-> row.month, pincode |-> row.pincode, status |-> status,
                          matchedPolicy |-> p]
    OBVIOUS
  <1>5. rec \in DeductionImportRecord /\ records' = Append(records, rec)
    BY <1>3, <1>4 DEF Record, DeductionImportRecord
  <1>6. records \in Seq(DeductionImportRecord)
    BY DEF PremiumInv, PremiumTypes
  <1>7. /\ records' \in Seq(DeductionImportRecord)
        /\ DOMAIN records' = DOMAIN records \union {Len(records) + 1}
        /\ \A i \in DOMAIN records : i # Len(records) + 1 /\ records'[i] = records[i]
        /\ records'[Len(records) + 1] = rec
    BY <1>5, <1>6
  <1>8. Onward
    BY <1>7 DEF Onward
  <1>9. KeyOf(v.file, row) = <<"deduction", row.pincode, row.month>>
    BY <1>1 DEF KeyOf
  <1>10. RecordsOK'
    <2>1. \A i \in DOMAIN records' : i \in DOMAIN records \/ (i = Len(records) + 1 /\ records'[i] = rec)
      BY <1>7
    <2>2. rec.status = status /\ rec.pincode = row.pincode /\ rec.period = row.month
      BY <1>4
    <2>3. status \in {"Posted", "AlreadyPosted"} => Keyed(<<"deduction", rec.pincode, rec.period>>)
      BY <1>1, <1>3, <1>9, <2>2 DEF Paid
    <2>4. ASSUME NEW i \in DOMAIN records', records'[i].status \in {"Posted", "AlreadyPosted"}
          PROVE  Keyed(<<"deduction", records'[i].pincode, records'[i].period>>)
      <3>1. CASE i \in DOMAIN records
        BY <1>7, <2>4, <3>1 DEF PremiumInv, RecordsOK
      <3>2. CASE i = Len(records) + 1 /\ records'[i] = rec
        BY <2>2, <2>3, <2>4, <3>2
      <3>3. QED
        BY <2>1, <3>1, <3>2
    <2>5. QED
      BY <2>4 DEF RecordsOK, Keyed
  <1>11. RowDone(v.file, v.at)'
    <2>1. Paid(v.file, row)' \/ <<v.file, v.at>> \in refused'
      BY <1>1, <1>3 DEF Paid, Keyed
    <2>2. \E k \in DOMAIN records' : records'[k].pincode = row.pincode /\ records'[k].period = row.month
      BY <1>4, <1>7
    <2>3. QED
      BY <1>2, <2>1, <2>2 DEF RowDone, Now
  <1>12. PICK f, i : f = v.file /\ i = v.at
    OBVIOUS
  <1>13. \E u : TurnOf(c, u)
    BY <1>1, <1>8, <1>11, <1>12, NextRowOK
  <1>14. QED
    BY <1>7, <1>8, <1>10, <1>13, CarriedOn, SingleIsBoolean

LEMMA MatchDeductionStep ==
    ASSUME PremiumInv, PremiumNext, NEW c \in Uploaders, MatchDeduction(c)
    PROVE  PremiumInv'
  <1>1. PICK v : v = upload[c]
    OBVIOUS
  <1>2. PICK row : row = RowAt(c)
    OBVIOUS
  <1>3. v.step = "row" /\ v.at \in DOMAIN SheetRows(v.file) /\ Deductions(v.file)
    BY <1>1 DEF MatchDeduction, HasRow, StepIs, Is, Deductions
  <1>4. row = Now(v) /\ v \in UploadRow /\ v.file \in DOMAIN Files /\ UploadOK(v)
    BY <1>1, <1>2, <1>3, RowAtWork DEF PremiumInv
  <1>5. UNCHANGED <<roll, people, posted, finished>>
    BY DEF MatchDeduction
  <1>6. roll \in Seq(RollRow)
    BY DEF PremiumInv, PremiumTypes
  <1>7. ASSUME NEW status \in DeductionRecordStatus, NEW p \in Nat,
               Record(row, status, p), NextRow(c),
               \/ Refuse(c) /\ status \notin {"Posted", "AlreadyPosted"}
               \/ UNCHANGED refused /\ Keyed(KeyOf(v.file, row))
        PROVE  PremiumInv'
    <2>1. refused \subseteq refused'
      BY <1>7 DEF Refuse
    <2>2. Paid(v.file, row) \/ <<v.file, v.at>> \in refused'
      BY <1>1, <1>7 DEF Refuse, Paid
    <2>3. status \in {"Posted", "AlreadyPosted"} => Paid(v.file, row)
      BY <1>7 DEF Paid
    <2>4. QED
      BY <1>1, <1>2, <1>3, <1>5, <1>7, <2>1, <2>2, <2>3, RecordedRow
  <1>8. CASE /\ row.amount = 0 \/ ByPin(row.pincode) = {}
             /\ Record(row, IF row.amount = 0 THEN "Zero" ELSE "Unmatched", 0)
             /\ Refuse(c) /\ NextRow(c)
    BY <1>7, <1>8 DEF DeductionRecordStatus
  <1>9. ASSUME NEW p \in ByPin(row.pincode), roll[p].cancelled,
               Record(row, "PolicyCancelled", p), Refuse(c), NextRow(c)
        PROVE  PremiumInv'
    BY <1>6, <1>7, <1>9 DEF DeductionRecordStatus, ByPin
  <1>10. ASSUME NEW p \in ByPin(row.pincode), UNCHANGED refused,
                Keyed(KeyOf(v.file, row)), Record(row, "AlreadyPosted", p), NextRow(c)
         PROVE  PremiumInv'
    BY <1>6, <1>7, <1>10 DEF DeductionRecordStatus, ByPin
  <1>11. ASSUME NEW p \in ByPin(row.pincode), UNCHANGED <<refused, records>>,
                Move(c, [v EXCEPT !.step = "post", !.policy = p])
         PROVE  PremiumInv'
    <2>1. PICK u : u = [v EXCEPT !.step = "post", !.policy = p]
      OBVIOUS
    <2>2. p \in DOMAIN roll /\ p \in Nat /\ roll[p].pincode = row.pincode
      BY <1>6, <1>11 DEF ByPin
    <2>3. u \in UploadRow
      BY <1>4, <2>1, <2>2 DEF UploadRow, UploadSteps
    <2>4. /\ u.step = "post" /\ u.policy = p /\ u.file = v.file /\ u.at = v.at
      BY <1>4, <2>1 DEF UploadRow
    <2>5. Onward
      BY <1>5, <1>11 DEF Onward
    <2>6. Now(u) = row
      BY <1>4, <2>4 DEF Now
    <2>7. Meant(u.file, row, p)
      BY <1>3, <2>2, <2>4 DEF Meant, Deductions
    <2>8. UploadOK(u)
      BY <1>3, <1>4, <2>3, <2>4, <2>6, <2>7 DEF UploadOK
    <2>9. TurnOf(c, u)
      BY <1>11, <2>1, <2>5, <2>8, UploadKept DEF TurnOf, Move, PremiumInv
    <2>10. QED
      BY <1>5, <1>11, <2>5, <2>9, CarriedOn, SingleIsBoolean
         DEF PremiumInv, PremiumTypes, RecordsOK, Keyed
  <1>12. QED
    BY <1>1, <1>2, <1>8, <1>9, <1>10, <1>11 DEF MatchDeduction

LEMMA RecordDeductionStep ==
    ASSUME PremiumInv, PremiumNext, NEW c \in Uploaders, RecordDeduction(c)
    PROVE  PremiumInv'
  <1>1. UploadOK(upload[c]) /\ upload[c].step = "record"
    BY DEF PremiumInv, RecordDeduction, StepIs
  <1>2. upload[c].at \in DOMAIN SheetRows(upload[c].file) /\ Deductions(upload[c].file)
        /\ Paid(upload[c].file, Now(upload[c])) /\ upload[c].policy \in Nat
    BY <1>1 DEF UploadOK, UploadRow
  <1>3. RowAt(c) = Now(upload[c])
    BY <1>1, <1>2, RowAtWork
  <1>4. "Posted" \in DeductionRecordStatus
    BY DEF DeductionRecordStatus
  <1>5. PICK p \in Nat : p = upload[c].policy
    BY <1>2
  <1>6. Record(RowAt(c), "Posted", p) /\ NextRow(c)
        /\ UNCHANGED <<roll, people, posted, finished, refused>>
    BY <1>5 DEF RecordDeduction
  <1>7. QED
    BY <1>1, <1>2, <1>3, <1>4, <1>6, RecordedRow
-------------------------------------------------------------------------------
(* Payrolls and the sheets of the office.                                   *)

\* An upload goes on with what it found; the tables stay.
LEMMA OnlyMoves ==
    ASSUME PremiumInv, PremiumNext, NEW c \in Uploaders, NEW u, UploadOK(u), Move(c, u),
           UNCHANGED <<roll, people, posted, records, finished, refused>>
    PROVE  PremiumInv'
  <1>1. Onward
    BY DEF Onward
  <1>2. TurnOf(c, u)
    BY <1>1, UploadKept DEF TurnOf, Move, PremiumInv
  <1>3. QED
    BY <1>1, <1>2, CarriedOn, SingleIsBoolean DEF PremiumInv, PremiumTypes, RecordsOK, Keyed

\* A row that needs no record and was paid before or is refused.
LEMMA PassedRow ==
    ASSUME PremiumInv, PremiumNext, NEW c \in Uploaders, upload[c].step # "idle",
           upload[c].at \in DOMAIN SheetRows(upload[c].file), ~Deductions(upload[c].file),
           NextRow(c), UNCHANGED <<roll, people, posted, records, finished>>,
           Refuse(c) \/ (UNCHANGED refused /\ Paid(upload[c].file, RowAt(c)))
    PROVE  PremiumInv'
  <1>1. PICK v, f, i : v = upload[c] /\ f = v.file /\ i = v.at
    OBVIOUS
  <1>2. Onward
    BY DEF Onward, Refuse
  <1>3. RowDone(f, i)'
    BY <1>1, RowAtWork DEF RowDone, Refuse, Paid, Keyed, RowAt
  <1>4. \E u : TurnOf(c, u)
    BY <1>1, <1>2, <1>3, NextRowOK
  <1>5. QED
    BY <1>2, <1>4, CarriedOn, SingleIsBoolean DEF PremiumInv, PremiumTypes, RecordsOK, Keyed

LEMMA MatchEmployeeStep ==
    ASSUME PremiumInv, PremiumNext, RowsInOrder, NEW c \in Uploaders, MatchEmployee(c)
    PROVE  PremiumInv'
  <1>1. PICK v : v = upload[c]
    OBVIOUS
  <1>2. PICK row : row = RowAt(c)
    OBVIOUS
  <1>3. v.step = "row" /\ v.at \in DOMAIN SheetRows(v.file) /\ Files[v.file].layout = "payroll"
    BY <1>1 DEF MatchEmployee, HasRow, StepIs, Is
  <1>4. row = Now(v) /\ v \in UploadRow /\ UploadOK(v) /\ row \in RowsOf("payroll")
    BY <1>1, <1>2, <1>3, RowAtWork DEF PremiumInv
  <1>5. ~Deductions(v.file)
    BY <1>3 DEF Deductions
  <1>6. UNCHANGED <<roll, people, posted, records, finished>>
    BY DEF MatchEmployee
  <1>7. CASE Refuse(c) /\ NextRow(c)
    BY <1>1, <1>3, <1>5, <1>6, <1>7, PassedRow
  <1>8. CASE UNCHANGED refused /\ Move(c, [v EXCEPT !.step = "enrol"])
    <2>1. PICK u : u = [v EXCEPT !.step = "enrol"]
      OBVIOUS
    <2>2. u \in UploadRow
      BY <1>4, <2>1 DEF UploadRow, UploadSteps
    <2>3. u.step = "enrol" /\ u.file = v.file /\ u.at = v.at
      BY <1>4, <2>1 DEF UploadRow
    <2>4. UploadOK(u)
      BY <1>3, <1>4, <2>2, <2>3 DEF UploadOK
    <2>5. QED
      BY <1>6, <1>8, <2>1, <2>4, OnlyMoves
  <1>9. ASSUME UNCHANGED refused, NEW k \in FindClient(row),
               Move(c, [v EXCEPT !.step = "policy", !.client = k])
        PROVE  PremiumInv'
    <2>1. PICK u : u = [v EXCEPT !.step = "policy", !.client = k]
      OBVIOUS
    <2>2. k \in DOMAIN people /\ k \in Nat
      BY <1>9 DEF FindClient, PremiumInv, PremiumTypes
    <2>3. u \in UploadRow
      BY <1>4, <2>1, <2>2 DEF UploadRow, UploadSteps
    <2>4. u.step = "policy" /\ u.file = v.file /\ u.at = v.at /\ u.client = k
      BY <1>4, <2>1 DEF UploadRow
    <2>5. people[k].phone = row.phone
      BY <1>4, <1>9 DEF FindClient, PremiumInv, PeopleOK
    <2>6. UploadOK(u)
      BY <1>3, <1>4, <2>2, <2>3, <2>4, <2>5 DEF UploadOK, Now
    <2>7. QED
      BY <1>6, <1>9, <2>1, <2>6, OnlyMoves
  <1>10. QED
    BY <1>1, <1>2, <1>7, <1>8, <1>9 DEF MatchEmployee

LEMMA CreateEmployeeStep ==
    ASSUME PremiumInv, PremiumNext, RowsInOrder, NEW c \in Uploaders, CreateEmployee(c)
    PROVE  PremiumInv'
  <1>1. PICK v : v = upload[c]
    OBVIOUS
  <1>2. PICK row : row = RowAt(c)
    OBVIOUS
  <1>3. UploadOK(v) /\ v.step = "enrol"
    BY <1>1 DEF PremiumInv, CreateEmployee, StepIs
  <1>4. Files[v.file].layout = "payroll" /\ v.at \in DOMAIN SheetRows(v.file)
    BY <1>3 DEF UploadOK
  <1>5. /\ row = Now(v) /\ v \in UploadRow /\ row \in RowsOf("payroll")
        /\ row.nationalId \in Nat /\ row.phone \in Nat
    BY <1>1, <1>2, <1>3, <1>4, RowAtWork DEF SheetRow
  <1>6. PICK person : person = [nationalId |-> row.nationalId, phone |-> row.phone]
    OBVIOUS
  <1>7. person \in PersonRow /\ person.phone = row.phone /\ person.nationalId = row.nationalId
    BY <1>5, <1>6 DEF PersonRow
  <1>8. people \in Seq(PersonRow) /\ people' = Append(people, person)
    BY <1>2, <1>6 DEF PremiumInv, PremiumTypes, CreateEmployee
  <1>9. /\ people' \in Seq(PersonRow) /\ Len(people) + 1 \in Nat
        /\ DOMAIN people' = DOMAIN people \union {Len(people) + 1}
        /\ \A k \in DOMAIN people : people'[k] = people[k]
        /\ people'[Len(people) + 1] = person
    BY <1>7, <1>8
  <1>10. UNCHANGED <<roll, posted, records, finished, refused>>
    BY DEF CreateEmployee
  <1>11. Onward
    BY <1>9, <1>10 DEF Onward
  <1>12. PeopleOK'
    <2>1. ASSUME NEW k \in DOMAIN people', NEW other \in RowsOf("payroll"),
                 other.nationalId # Absent, other.nationalId = people'[k].nationalId
          PROVE  other.phone = people'[k].phone
      BY <1>5, <1>7, <1>9, <2>1 DEF PremiumInv, PeopleOK, RowsInOrder
    <2>2. QED
      BY <2>1 DEF PeopleOK
  <1>13. RollOK'
    BY <1>9, <1>10 DEF PremiumInv, RollOK
  <1>14. \E u : TurnOf(c, u)
    <2>1. PICK k \in Nat : k = Len(people) + 1
      BY <1>9
    <2>2. PICK u : u = [v EXCEPT !.step = "policy", !.client = k]
      OBVIOUS
    <2>3. u \in UploadRow
      BY <1>5, <2>1, <2>2 DEF UploadRow, UploadSteps
    <2>4. u.step = "policy" /\ u.file = v.file /\ u.at = v.at /\ u.client = k
      BY <1>5, <2>2 DEF UploadRow
    <2>5. \A i \in DOMAIN SheetRows(u.file) : i < u.at => RowDone(u.file, i)'
      BY <1>3, <1>11, <2>4, RowDoneStays DEF UploadOK
    <2>6. k \in DOMAIN people' /\ people'[k].phone = Now(u).phone
      BY <1>5, <1>7, <1>9, <2>1, <2>4 DEF Now
    <2>7. UploadOK(u)'
      BY <1>3, <1>4, <2>3, <2>4, <2>5, <2>6 DEF UploadOK, Now
    <2>8. QED
      BY <1>1, <2>1, <2>2, <2>7 DEF CreateEmployee, Move, TurnOf
  <1>15. PremiumTypes'
    BY <1>9, <1>10, <1>11, <1>14, TurnKeeps, SingleIsBoolean DEF PremiumInv, PremiumTypes
  <1>16. RecordsOK'
    BY <1>10 DEF PremiumInv, RecordsOK, Keyed
  <1>17. \A f \in finished' : f \in DOMAIN Files /\ \A i \in DOMAIN SheetRows(f) : RowDone(f, i)'
    BY <1>10, <1>11, QuietTurn DEF PremiumInv
  <1>18. QED
    BY <1>10, <1>11, <1>12, <1>13, <1>14, <1>15, <1>16, <1>17, TurnKeeps, PostedKept
       DEF PremiumInv

LEMMA FindPolicyStep ==
    ASSUME PremiumInv, PremiumNext, NEW c \in Uploaders, FindPolicy(c)
    PROVE  PremiumInv'
  <1>1. PICK v : v = upload[c]
    OBVIOUS
  <1>2. UploadOK(v) /\ v.step = "policy"
    BY <1>1 DEF PremiumInv, FindPolicy, StepIs
  <1>3. /\ v \in UploadRow /\ Files[v.file].layout = "payroll"
        /\ v.client \in DOMAIN people /\ people[v.client].phone = Now(v).phone
    BY <1>2 DEF UploadOK
  <1>4. UNCHANGED <<roll, people, posted, records, finished, refused>>
    BY DEF FindPolicy
  <1>5. CASE Move(c, [v EXCEPT !.step = "issue"])
    <2>1. PICK u : u = [v EXCEPT !.step = "issue"]
      OBVIOUS
    <2>2. u \in UploadRow
      BY <1>3, <2>1 DEF UploadRow, UploadSteps
    <2>3. u.step = "issue" /\ u.file = v.file /\ u.at = v.at /\ u.client = v.client
      BY <1>3, <2>1 DEF UploadRow
    <2>4. UploadOK(u)
      BY <1>2, <1>3, <2>2, <2>3 DEF UploadOK, Now
    <2>5. QED
      BY <1>4, <1>5, <2>1, <2>4, OnlyMoves
  <1>6. ASSUME NEW p \in EndowmentsOf(v.client),
               Move(c, [v EXCEPT !.step = "post", !.policy = p])
        PROVE  PremiumInv'
    <2>1. PICK u : u = [v EXCEPT !.step = "post", !.policy = p]
      OBVIOUS
    <2>2. p \in DOMAIN roll /\ p \in Nat /\ roll[p].client = v.client
      BY <1>6 DEF EndowmentsOf, PremiumInv, PremiumTypes
    <2>3. u \in UploadRow
      BY <1>3, <2>1, <2>2 DEF UploadRow, UploadSteps
    <2>4. u.step = "post" /\ u.file = v.file /\ u.at = v.at /\ u.policy = p
      BY <1>3, <2>1 DEF UploadRow
    <2>5. Meant(u.file, Now(u), p)
      BY <1>3, <2>2, <2>4 DEF Meant, Deductions, Now
    <2>6. UploadOK(u)
      BY <1>2, <2>3, <2>4, <2>5 DEF UploadOK
    <2>7. QED
      BY <1>4, <1>6, <2>1, <2>6, OnlyMoves
  <1>7. QED
    BY <1>1, <1>5, <1>6 DEF FindPolicy

LEMMA IssuePolicyStep ==
    ASSUME PremiumInv, PremiumNext, NEW c \in Uploaders, IssuePolicy(c)
    PROVE  PremiumInv'
  <1>1. PICK v : v = upload[c]
    OBVIOUS
  <1>2. UploadOK(v) /\ v.step = "issue"
    BY <1>1 DEF PremiumInv, IssuePolicy, StepIs
  <1>3. /\ v \in UploadRow /\ Files[v.file].layout = "payroll"
        /\ v.client \in DOMAIN people /\ people[v.client].phone = Now(v).phone
        /\ v.client \in Nat
    BY <1>2 DEF UploadOK, UploadRow
  <1>4. PICK made : made = [policyNo |-> [number |-> Absent, spelling |-> 0], pincode |-> Absent,
                            client |-> v.client, product |-> "Endowment", cancelled |-> FALSE]
    OBVIOUS
  <1>5. made \in RollRow /\ made.client = v.client
    <2>1. PICK no : no = [number |-> Absent, spelling |-> 0]
      OBVIOUS
    <2>2. no \in PolicyNumber /\ Absent \in Nat
      BY <2>1, PremiumAssumption DEF PremiumAssumption, PolicyNumber
    <2>3. made = [policyNo |-> no, pincode |-> Absent, client |-> v.client,
                  product |-> "Endowment", cancelled |-> FALSE]
      BY <1>4, <2>1
    <2>4. "Endowment" \in Products
      BY PremiumAssumption DEF PremiumAssumption
    <2>5. made \in RollRow
      BY <1>3, <2>2, <2>3, <2>4 DEF RollRow
    <2>6. QED
      BY <2>3, <2>5
  <1>6. roll \in Seq(RollRow) /\ roll' = Append(roll, made)
    BY <1>1, <1>4 DEF PremiumInv, PremiumTypes, IssuePolicy
  <1>7. /\ roll' \in Seq(RollRow) /\ Len(roll) + 1 \in Nat
        /\ DOMAIN roll' = DOMAIN roll \union {Len(roll) + 1}
        /\ \A p \in DOMAIN roll : roll'[p] = roll[p]
        /\ roll'[Len(roll) + 1] = made
    BY <1>5, <1>6
  <1>8. UNCHANGED <<people, posted, records, finished, refused>>
    BY DEF IssuePolicy
  <1>9. Onward
    BY <1>7, <1>8 DEF Onward
  <1>10. RollOK'
    BY <1>3, <1>5, <1>7, <1>8 DEF PremiumInv, RollOK
  <1>11. \E u : TurnOf(c, u)
    <2>1. PICK p \in Nat : p = Len(roll) + 1
      BY <1>7
    <2>2. PICK u : u = [v EXCEPT !.step = "post", !.policy = p]
      OBVIOUS
    <2>3. u \in UploadRow
      BY <1>3, <2>1, <2>2 DEF UploadRow, UploadSteps
    <2>4. u.step = "post" /\ u.file = v.file /\ u.at = v.at /\ u.policy = p
      BY <1>3, <2>2 DEF UploadRow
    <2>5. \A i \in DOMAIN SheetRows(u.file) : i < u.at => RowDone(u.file, i)'
      BY <1>2, <1>9, <2>4, RowDoneStays DEF UploadOK
    <2>6. p \in DOMAIN roll' /\ roll'[p].client = v.client
      BY <1>5, <1>7, <2>1
    <2>7. Meant(u.file, Now(u), p)'
      BY <1>3, <1>8, <2>4, <2>6 DEF Meant, Deductions, Now
    <2>8. UploadOK(u)'
      BY <1>2, <2>3, <2>4, <2>5, <2>7 DEF UploadOK
    <2>9. QED
      BY <1>1, <2>1, <2>2, <2>8 DEF IssuePolicy, Move, TurnOf
  <1>12. PremiumTypes'
    BY <1>7, <1>8, <1>9, <1>11, TurnKeeps, SingleIsBoolean DEF PremiumInv, PremiumTypes
  <1>13. RecordsOK' /\ PeopleOK'
    BY <1>8 DEF PremiumInv, RecordsOK, Keyed, PeopleOK
  <1>14. \A f \in finished' : f \in DOMAIN Files /\ \A i \in DOMAIN SheetRows(f) : RowDone(f, i)'
    BY <1>8, <1>9, QuietTurn DEF PremiumInv
  <1>15. QED
    BY <1>8, <1>9, <1>10, <1>11, <1>12, <1>13, <1>14, TurnKeeps, PostedKept DEF PremiumInv

LEMMA MatchPolicyNoStep ==
    ASSUME PremiumInv, PremiumNext, NEW c \in Uploaders, MatchPolicyNo(c)
    PROVE  PremiumInv'
  <1>1. PICK v : v = upload[c]
    OBVIOUS
  <1>2. PICK row : row = RowAt(c)
    OBVIOUS
  <1>3. /\ v.step = "row" /\ v.at \in DOMAIN SheetRows(v.file)
        /\ Files[v.file].layout \in {"office", "bulk"}
    BY <1>1 DEF MatchPolicyNo, HasRow, StepIs, Is
  <1>4. row = Now(v) /\ v \in UploadRow /\ UploadOK(v)
    BY <1>1, <1>2, <1>3, RowAtWork DEF PremiumInv
  <1>5. ~Deductions(v.file) /\ Files[v.file].layout # "payroll"
    BY <1>3 DEF Deductions
  <1>6. UNCHANGED <<roll, people, posted, records, finished>>
    BY DEF MatchPolicyNo
  <1>7. CASE NextRow(c) /\ (Refuse(c) \/ (UNCHANGED refused /\ Keyed(KeyOf(v.file, row))))
    BY <1>1, <1>2, <1>3, <1>5, <1>6, <1>7, PassedRow DEF Paid
  <1>8. ASSUME UNCHANGED refused, NEW p \in DOMAIN roll,
               Spelled(c, roll[p].policyNo, row.policyNo),
               Move(c, [v EXCEPT !.step = "post", !.policy = p])
        PROVE  PremiumInv'
    <2>1. PICK u : u = [v EXCEPT !.step = "post", !.policy = p]
      OBVIOUS
    <2>2. p \in Nat
      BY DEF PremiumInv, PremiumTypes
    <2>3. u \in UploadRow
      BY <1>4, <2>1, <2>2 DEF UploadRow, UploadSteps
    <2>4. u.step = "post" /\ u.file = v.file /\ u.at = v.at /\ u.policy = p
      BY <1>4, <2>1 DEF UploadRow
    <2>5. Meant(u.file, Now(u), p)
      BY <1>1, <1>4, <1>5, <1>8, <2>4 DEF Meant, Spelled, Is, Now
    <2>6. UploadOK(u)
      BY <1>3, <1>4, <2>3, <2>4, <2>5 DEF UploadOK
    <2>7. QED
      BY <1>6, <1>8, <2>1, <2>6, OnlyMoves
  <1>9. QED
    BY <1>1, <1>2, <1>7, <1>8 DEF MatchPolicyNo
-------------------------------------------------------------------------------
(* Posting, and what happens meanwhile.                                     *)

LEMMA PostStep ==
    ASSUME PremiumInv, PremiumNext, NEW c \in Uploaders, Post(c)
    PROVE  PremiumInv'
  <1>1. PICK v, row, f : v = upload[c] /\ row = RowAt(c) /\ f = v.file
    OBVIOUS
  <1>2. UploadOK(v) /\ v.step = "post"
    BY <1>1 DEF PremiumInv, Post, StepIs
  <1>3. PICK i : i = v.at
    OBVIOUS
  <1>4. v \in UploadRow /\ i \in DOMAIN SheetRows(f) /\ Meant(f, row, v.policy) /\ f \in DOMAIN Files
        /\ row = SheetRows(f)[i]
    BY <1>1, <1>2, <1>3, RowAtWork DEF UploadOK, Now
  <1>5. UNCHANGED <<roll, people, records, finished>>
    BY DEF Post
  <1>6. CASE roll[v.policy].cancelled
    <2>1. UNCHANGED posted /\ Refuse(c)
      BY <1>1, <1>6 DEF Post
    <2>2. Onward
      BY <1>5, <2>1 DEF Onward, Refuse
    <2>3. CASE Deductions(f)
      <3>1. Move(c, Out)
        BY <1>1, <1>6, <2>3 DEF Post
      <3>2. TurnOf(c, Out)
        BY <3>1, OutOK DEF TurnOf, Move
      <3>3. QED
        BY <1>5, <2>1, <2>2, <3>2, CarriedOn, SingleIsBoolean
           DEF PremiumInv, PremiumTypes, RecordsOK, Keyed
    <2>4. CASE ~Deductions(f)
      BY <1>1, <1>2, <1>3, <1>4, <1>5, <1>6, <2>1, <2>4, PassedRow DEF Post
    <2>5. QED
      BY <2>3, <2>4
  <1>7. CASE ~roll[v.policy].cancelled
    <2>1. PICK pay : pay = [key |-> KeyOf(f, row), policy |-> v.policy, month |-> row.month,
                            amount |-> row.amount]
      OBVIOUS
    <2>2. posted' = IF Keyed(KeyOf(f, row)) THEN posted ELSE posted \union {pay}
      BY <1>1, <1>7, <2>1 DEF Post
    <2>3. UNCHANGED refused
      BY <1>1, <1>7 DEF Post
    <2>4. Onward
      BY <1>5, <2>2, <2>3 DEF Onward
    <2>5. Paid(f, row)'
      BY <2>1, <2>2 DEF Paid, Keyed
    <2>6. \A p \in posted' : PaymentOK(p)'
      <3>1. PaymentOK(pay)'
        <4>1. Meant(f, row, pay.policy)'
          BY <1>4, <2>1, <2>4, MeantStays DEF PremiumInv
        <4>2. pay.key = KeyOf(f, row) /\ pay.month = row.month /\ pay.amount = row.amount
          BY <2>1
        <4>3. QED
          BY <1>4, <4>1, <4>2 DEF PaymentOK, OfRow
      <3>2. \A p \in posted : PaymentOK(p)'
        BY <2>4, PaymentKept DEF PremiumInv
      <3>3. QED
        BY <2>2, <3>1, <3>2
    <2>7. \A p, q \in posted' : p.key = q.key => p = q
      BY <2>1, <2>2 DEF PremiumInv, Keyed
    <2>8. \E u : TurnOf(c, u)
      <3>1. CASE Deductions(f)
        <4>1. PICK u : u = [v EXCEPT !.step = "record"]
          OBVIOUS
        <4>2. u \in UploadRow
          BY <1>4, <4>1 DEF UploadRow, UploadSteps
        <4>3. u.step = "record" /\ u.file = f /\ u.at = i
          BY <1>1, <1>3, <1>4, <4>1 DEF UploadRow
        <4>4. \A j \in DOMAIN SheetRows(f) : j < u.at => RowDone(f, j)'
          BY <1>1, <1>2, <1>3, <2>4, <4>3, RowDoneStays DEF UploadOK
        <4>5. Now(u) = row
          BY <1>4, <4>3 DEF Now
        <4>6. UploadOK(u)'
          BY <1>1, <1>2, <1>3, <1>4, <2>5, <3>1, <4>2, <4>3, <4>4, <4>5 DEF UploadOK, Now
        <4>7. upload' = [upload EXCEPT ![c] = u]
          BY <1>1, <1>7, <3>1, <4>1 DEF Post, Move
        <4>8. QED
          BY <4>6, <4>7 DEF TurnOf
      <3>2. CASE ~Deductions(f)
        <4>1. NextRow(c)
          BY <1>1, <1>7, <3>2 DEF Post
        <4>2. RowDone(f, i)'
          BY <1>4, <2>5, <3>2 DEF RowDone
        <4>3. QED
          BY <1>1, <1>2, <1>3, <1>4, <2>4, <4>1, <4>2, NextRowOK
      <3>3. QED
        BY <3>1, <3>2
    <2>9. PremiumTypes'
      BY <1>5, <2>4, <2>8, TurnKeeps, SingleIsBoolean DEF PremiumInv, PremiumTypes
    <2>10. RollOK' /\ PeopleOK'
      BY <1>5 DEF PremiumInv, RollOK, PeopleOK
    <2>11. RecordsOK'
      BY <1>5, <2>4 DEF PremiumInv, RecordsOK, Keyed, Onward
    <2>12. \A g \in finished' : g \in DOMAIN Files /\ \A j \in DOMAIN SheetRows(g) : RowDone(g, j)'
      BY <1>5, <2>4, RowDoneStays DEF PremiumInv
    <2>13. QED
      BY <2>4, <2>6, <2>7, <2>8, <2>9, <2>10, <2>11, <2>12, TurnKeeps DEF PremiumInv
  <1>8. QED
    BY <1>6, <1>7

LEMMA MeanwhileStep ==
    ASSUME PremiumInv, PremiumNext,
           (\E p \in DOMAIN roll : CancelMeanwhile(p)) \/ UploadRestart
    PROVE  PremiumInv'
  <1>1. UNCHANGED <<people, posted, records, finished, refused>>
    BY DEF CancelMeanwhile, UploadRestart
  <1>2. /\ roll' \in Seq(RollRow) /\ DOMAIN roll' = DOMAIN roll
        /\ \A p \in DOMAIN roll :
             /\ roll'[p].pincode = roll[p].pincode /\ roll'[p].client = roll[p].client
             /\ roll'[p].policyNo = roll[p].policyNo /\ roll'[p].product = roll[p].product
    <2>1. roll \in Seq(RollRow)
      BY DEF PremiumInv, PremiumTypes
    <2>2. ASSUME NEW p \in DOMAIN roll, CancelMeanwhile(p)
          PROVE  /\ roll' \in Seq(RollRow) /\ DOMAIN roll' = DOMAIN roll
                 /\ \A q \in DOMAIN roll :
                      /\ roll'[q].pincode = roll[q].pincode /\ roll'[q].client = roll[q].client
                      /\ roll'[q].policyNo = roll[q].policyNo
                      /\ roll'[q].product = roll[q].product
      <3>1. PICK row : row = [roll[p] EXCEPT !.cancelled = TRUE]
        OBVIOUS
      <3>2. roll[p] \in RollRow
        BY <2>1
      <3>3. row \in RollRow
        BY <3>1, <3>2 DEF RollRow
      <3>4. /\ row.pincode = roll[p].pincode /\ row.client = roll[p].client
            /\ row.policyNo = roll[p].policyNo /\ row.product = roll[p].product
        BY <3>1, <3>2 DEF RollRow
      <3>5. roll' = [roll EXCEPT ![p] = row]
        BY <2>2, <3>1 DEF CancelMeanwhile
      <3>6. QED
        BY <2>1, <3>3, <3>4, <3>5
    <2>3. QED
      BY <2>1, <2>2 DEF UploadRestart
  <1>3. Onward
    BY <1>1, <1>2 DEF Onward
  <1>4. upload' \in [Uploaders -> UploadRow] /\ \A c \in Uploaders : UploadOK(upload[c])'
    <2>1. CASE UNCHANGED upload
      <3>1. ASSUME NEW c \in Uploaders PROVE UploadOK(upload[c])'
        <4>1. PICK v : v = upload[c]
          OBVIOUS
        <4>2. UploadOK(v)'
          BY <1>3, <4>1, UploadKept DEF PremiumInv
        <4>3. QED
          BY <2>1, <4>1, <4>2
      <3>2. QED
        BY <2>1, <3>1 DEF PremiumInv, PremiumTypes
    <2>2. CASE UploadRestart
      <3>1. Out \in UploadRow
        BY DEF Out, UploadRow, UploadSteps, FileIds
      <3>2. upload' = [c \in Uploaders |-> Out]
        BY <2>2 DEF UploadRestart
      <3>3. QED
        BY <3>1, <3>2, OutOK
    <2>3. QED
      BY <2>1, <2>2 DEF CancelMeanwhile
  <1>5. PremiumTypes' /\ RollOK' /\ PeopleOK' /\ RecordsOK'
    BY <1>1, <1>2, <1>4, SingleIsBoolean
       DEF PremiumInv, PremiumTypes, RollOK, PeopleOK, RecordsOK, Keyed
  <1>6. \A f \in finished' : f \in DOMAIN Files /\ \A i \in DOMAIN SheetRows(f) : RowDone(f, i)'
    BY <1>1, <1>3, QuietTurn DEF PremiumInv
  <1>7. QED
    BY <1>1, <1>3, <1>4, <1>5, <1>6, PostedKept DEF PremiumInv

LEMMA PremiumStarts ==
    ASSUME NEW rolls, NEW clientele, RowsInOrder, TablesInOrder(rolls, clientele),
           PremiumInit(rolls, clientele)
    PROVE  PremiumInv
  <1>1. roll \in Seq(RollRow) /\ people \in Seq(PersonRow)
        /\ \A p \in DOMAIN roll : roll[p].client \in DOMAIN people
    <2>1. people \in Seq(PersonRow)
      BY DEF PremiumInit, TablesInOrder, PersonRow
    <2>2. PICK T : T = [policyNo: PolicyNumber, pincode: Nat, client: DOMAIN clientele,
                        product: Products, cancelled: BOOLEAN]
      OBVIOUS
    <2>3. DOMAIN clientele \subseteq Nat /\ people = clientele /\ roll = rolls
      BY <2>1 DEF PremiumInit
    <2>4. roll \in Seq(T)
      BY <2>2, <2>3 DEF TablesInOrder, PolicyNumber
    <2>5. \A t \in T : t \in RollRow /\ t.client \in DOMAIN people
      BY <2>2, <2>3 DEF RollRow
    <2>6. \A p \in DOMAIN roll : roll[p] \in T
      BY <2>4
    <2>7. roll \in Seq(RollRow)
      BY <2>4, <2>5, <2>6, IsASeq, ElementOfSeq, LenProperties, SeqDef
    <2>8. QED
      BY <2>1, <2>5, <2>6, <2>7
  <1>2. Out \in UploadRow /\ UploadOK(Out)
    BY DEF Out, UploadRow, UploadSteps, FileIds, UploadOK
  <1>3. PeopleOK
    BY DEF PremiumInit, TablesInOrder, PeopleOK
  <1>4. QED
    BY <1>1, <1>2, <1>3 DEF PremiumInit, PremiumInv, PremiumTypes, RollOK, RecordsOK

THEOREM PremiumInvariant ==
    ASSUME NEW rolls, NEW clientele, RowsInOrder, TablesInOrder(rolls, clientele)
    PROVE  PremiumSpec(rolls, clientele) => []PremiumInv
  <1>1. PremiumInit(rolls, clientele) => PremiumInv
    BY PremiumStarts
  <1>2. ASSUME PremiumInv, [PremiumNext]_premiumVars
        PROVE  PremiumInv'
    <2>1. CASE UNCHANGED premiumVars
      <3>1. UNCHANGED <<roll, people, posted, records, upload, finished, refused, single>>
        BY <2>1 DEF premiumVars
      <3>2. Onward
        BY <3>1 DEF Onward
      <3>3. ASSUME NEW c \in Uploaders PROVE UploadOK(upload[c])'
        <4>1. PICK v : v = upload[c]
          OBVIOUS
        <4>2. UploadOK(v)'
          BY <1>2, <3>2, <4>1, UploadKept DEF PremiumInv
        <4>3. QED
          BY <3>1, <4>1, <4>2
      <3>4. PremiumTypes' /\ RollOK' /\ PeopleOK' /\ RecordsOK'
        BY <1>2, <3>1 DEF PremiumInv, PremiumTypes, RollOK, PeopleOK, RecordsOK, Keyed
      <3>5. \A f \in finished' :
               f \in DOMAIN Files /\ \A i \in DOMAIN SheetRows(f) : RowDone(f, i)'
        BY <1>2, <3>1, <3>2, QuietTurn DEF PremiumInv
      <3>6. QED
        BY <1>2, <3>1, <3>2, <3>3, <3>4, <3>5, PostedKept DEF PremiumInv
    <2>2. CASE PremiumNext
      BY <1>2, <2>2, StartUploadStep, EndUploadStep, MatchDeductionStep, RecordDeductionStep,
         MatchEmployeeStep, CreateEmployeeStep, FindPolicyStep, IssuePolicyStep,
         MatchPolicyNoStep, PostStep, MeanwhileStep DEF PremiumNext
    <2>3. QED
      BY <1>2, <2>1, <2>2
  <1>3. QED
    BY <1>1, <1>2, PTL DEF PremiumSpec
-------------------------------------------------------------------------------
(* Uploads one after the other.                                             *)

OneAtWork ==
    \A c, d \in Uploaders : upload[c].step # "idle" /\ upload[d].step # "idle" => c = d
PhonesOnce == \A k, j \in DOMAIN people : people[k].phone = people[j].phone => k = j
EndowmentsOnce ==
    \A p, q \in DOMAIN roll :
       (roll[p].client = roll[q].client
          /\ roll[p].product = "Endowment" /\ roll[q].product = "Endowment") => p = q
RecordedPosted(i, pincode, month) ==
    records[i].status = "Posted" /\ records[i].pincode = pincode /\ records[i].period = month
PostedOnce ==
    \A i, j \in DOMAIN records :
       (records[i].status = "Posted" /\ RecordedPosted(j, records[i].pincode, records[i].period))
          => i = j
\* What an upload that is alone looked for is still not there.
AloneOK(u) ==
    /\ u.step = "enrol" => \A k \in DOMAIN people : people[k].phone # Now(u).phone
    /\ u.step = "issue" => EndowmentsOf(u.client) = {}
    /\ u.step = "post" /\ Deductions(u.file) => ~Paid(u.file, Now(u))
    /\ u.step = "record" =>
         \A i \in DOMAIN records : ~RecordedPosted(i, Now(u).pincode, Now(u).month)
AloneInv ==
    single => /\ OneAtWork /\ PhonesOnce /\ EndowmentsOnce /\ PostedOnce
              /\ \A c \in Uploaders : AloneOK(upload[c])

LEMMA OneWorks ==
    ASSUME PremiumNext, single'
    PROVE  single /\ OneAtWork'
  <1>1. single /\ Cardinality({c \in Uploaders : upload'[c].step # "idle"}) <= 1
    BY DEF PremiumNext
  <1>2. PICK B : B = {c \in Uploaders : upload'[c].step # "idle"}
    OBVIOUS
  <1>3. IsFiniteSet(B) /\ Cardinality(B) <= 1
    BY <1>1, <1>2, PremiumAssumption, FS_Subset DEF PremiumAssumption
  <1>4. QED
    BY <1>1, <1>2, <1>3, NoTwoRequests DEF OneAtWork

\* The one upload at work takes a turn.
LEMMA AloneTurn ==
    ASSUME PremiumInv, AloneInv, PremiumNext, single', NEW c \in Uploaders, NEW u,
           upload' = [upload EXCEPT ![c] = u], upload[c].step # "idle" \/ u.step # "idle",
           PhonesOnce', EndowmentsOnce', PostedOnce', AloneOK(u)'
    PROVE  AloneInv'
  <1>1. single /\ OneAtWork' /\ OneAtWork
    BY OneWorks DEF AloneInv
  <1>2. \A d \in Uploaders : upload'[d] = IF d = c THEN u ELSE upload[d]
    BY DEF PremiumInv, PremiumTypes
  <1>3. \A d \in Uploaders \ {c} : upload'[d].step = "idle"
    BY <1>1, <1>2 DEF OneAtWork
  <1>4. ASSUME NEW d \in Uploaders PROVE AloneOK(upload[d])'
    BY <1>2, <1>3 DEF AloneOK
  <1>5. QED
    BY <1>1, <1>4 DEF AloneInv

LEMMA TablesAlone ==
    ASSUME UNCHANGED <<people, roll, records>>, PhonesOnce, EndowmentsOnce, PostedOnce
    PROVE  PhonesOnce' /\ EndowmentsOnce' /\ PostedOnce'
  BY DEF PhonesOnce, EndowmentsOnce, PostedOnce, RecordedPosted

\* Reading, refusing and going on to the next row change no table.
LEMMA AloneMoves ==
    ASSUME PremiumInv, AloneInv, PremiumNext, single', NEW c \in Uploaders, NEW u,
           UNCHANGED <<people, roll, records>>,
           upload' = [upload EXCEPT ![c] = u], upload[c].step # "idle" \/ u.step # "idle",
           AloneOK(u)'
    PROVE  AloneInv'
  <1>1. PhonesOnce /\ EndowmentsOnce /\ PostedOnce
    BY OneWorks DEF AloneInv
  <1>2. QED
    BY <1>1, TablesAlone, AloneTurn
LEMMA NextRowAlone ==
    ASSUME PremiumInv, NEW c \in Uploaders, upload[c].step # "idle", NextRow(c)
    PROVE  \E u : upload' = [upload EXCEPT ![c] = u] /\ u.step = "row" /\ AloneOK(u)'
  <1>1. PICK v : v = upload[c]
    OBVIOUS
  <1>2. v \in UploadRow
    BY <1>1 DEF PremiumInv, PremiumTypes
  <1>3. PICK u : u = [v EXCEPT !.step = "row", !.at = @ + 1, !.client = 0, !.policy = 0]
    OBVIOUS
  <1>4. u.step = "row"
    BY <1>2, <1>3 DEF UploadRow
  <1>5. upload' = [upload EXCEPT ![c] = u]
    BY <1>1, <1>3 DEF NextRow, Move
  <1>6. QED
    BY <1>4, <1>5 DEF AloneOK

LEMMA UploadAlone ==
    ASSUME PremiumInv, AloneInv, PremiumNext, single', NEW c \in Uploaders,
           (\E f \in DOMAIN Files : StartUpload(c, f)) \/ EndUpload(c)
    PROVE  AloneInv'
  <1>1. CASE \E f \in DOMAIN Files : StartUpload(c, f)
    <2>1. PICK f : StartUpload(c, f)
      BY <1>1
    <2>2. PICK u : u = [Out EXCEPT !.step = "row", !.file = f, !.at = 1]
      OBVIOUS
    <2>3. u.step = "row"
      BY <2>2 DEF Out
    <2>4. upload' = [upload EXCEPT ![c] = u] /\ UNCHANGED <<people, roll, records>>
      BY <2>1, <2>2 DEF StartUpload, Move
    <2>5. AloneOK(u)'
      BY <2>3 DEF AloneOK
    <2>6. QED
      BY <2>3, <2>4, <2>5, AloneMoves
  <1>2. CASE EndUpload(c)
    <2>1. upload' = [upload EXCEPT ![c] = Out] /\ UNCHANGED <<people, roll, records>>
          /\ upload[c].step # "idle"
      BY <1>2 DEF EndUpload, Move, StepIs
    <2>2. AloneOK(Out)'
      BY DEF AloneOK, Out
    <2>3. QED
      BY <2>1, <2>2, AloneMoves
  <1>3. QED
    BY <1>1, <1>2

\* A record is written, of a payment that has no record yet or of none.
LEMMA RecordAlone ==
    ASSUME PremiumInv, AloneInv, PremiumNext, single', NEW c \in Uploaders,
           upload[c].step # "idle", NEW row, NEW status, NEW p, Record(row, status, p), NextRow(c),
           RowAt(c) = row, row.pincode \in Nat, row.month \in Nat,
           status \in DeductionRecordStatus, p \in Nat,
           UNCHANGED <<people, roll>>,
           status = "Posted" => \A i \in DOMAIN records : ~RecordedPosted(i, row.pincode, row.month)
    PROVE  AloneInv'
  <1>1. PICK rec : rec = [period |-> row.month, pincode |-> row.pincode, status |-> status,
                          matchedPolicy |-> p]
    OBVIOUS
  <1>2. rec \in DeductionImportRecord /\ records' = Append(records, rec)
    BY <1>1 DEF Record, DeductionImportRecord
  <1>3. records \in Seq(DeductionImportRecord)
    BY DEF PremiumInv, PremiumTypes
  <1>4. /\ DOMAIN records' = DOMAIN records \union {Len(records) + 1}
        /\ \A i \in DOMAIN records : records'[i] = records[i]
        /\ records'[Len(records) + 1] = rec
    BY <1>2, <1>3
  <1>5. rec.status = status /\ rec.pincode = row.pincode /\ rec.period = row.month
    BY <1>1
  <1>6. PhonesOnce /\ EndowmentsOnce /\ PostedOnce
    BY OneWorks DEF AloneInv
  <1>7. PostedOnce'
    <2>1. ASSUME NEW i \in DOMAIN records', NEW j \in DOMAIN records',
                 records'[i].status = "Posted", records'[j].status = "Posted",
                 records'[j].pincode = records'[i].pincode, records'[j].period = records'[i].period
          PROVE  i = j
      <3>1. CASE i \in DOMAIN records /\ j \in DOMAIN records
        BY <1>4, <1>6, <2>1, <3>1 DEF PostedOnce, RecordedPosted
      <3>2. CASE i \in DOMAIN records /\ j = Len(records) + 1
        BY <1>4, <1>5, <2>1, <3>2 DEF RecordedPosted
      <3>3. CASE i = Len(records) + 1 /\ j \in DOMAIN records
        BY <1>4, <1>5, <2>1, <3>3 DEF RecordedPosted
      <3>4. QED
        BY <1>4, <3>1, <3>2, <3>3
    <2>2. QED
      BY <2>1 DEF PostedOnce, RecordedPosted
  <1>8. PhonesOnce' /\ EndowmentsOnce'
    BY <1>6 DEF PhonesOnce, EndowmentsOnce
  <1>9. QED
    BY <1>7, <1>8, NextRowAlone, AloneTurn

LEMMA DeductionsAlone ==
    ASSUME PremiumInv, AloneInv, PremiumNext, single', NEW c \in Uploaders,
           MatchDeduction(c) \/ RecordDeduction(c)
    PROVE  AloneInv'
  <1>1. PICK v, row : v = upload[c] /\ row = RowAt(c)
    OBVIOUS
  <1>2. UploadOK(v) /\ UNCHANGED <<people, roll, posted>> /\ v.step # "idle"
    BY <1>1 DEF PremiumInv, MatchDeduction, RecordDeduction, HasRow, StepIs
  <1>3. v.at \in DOMAIN SheetRows(v.file) /\ Deductions(v.file)
    BY <1>1, <1>2 DEF UploadOK, MatchDeduction, RecordDeduction, HasRow, StepIs, Is, Deductions
  <1>4. row = Now(v) /\ row.pincode \in Nat /\ row.month \in Nat /\ v \in UploadRow
    BY <1>1, <1>2, <1>3, RowAtWork DEF Deductions, SheetRow
  <1>5. roll \in Seq(RollRow)
    BY DEF PremiumInv, PremiumTypes
  <1>6. ASSUME NEW status \in DeductionRecordStatus \ {"Posted"}, NEW p \in Nat,
               Record(row, status, p), NextRow(c)
        PROVE  AloneInv'
    BY <1>1, <1>2, <1>4, <1>6, RecordAlone
  <1>7. CASE MatchDeduction(c)
    <2>1. CASE Record(row, IF row.amount = 0 THEN "Zero" ELSE "Unmatched", 0) /\ NextRow(c)
      BY <1>6, <2>1 DEF DeductionRecordStatus
    <2>2. ASSUME NEW p \in ByPin(row.pincode),
                 Record(row, "PolicyCancelled", p) \/ Record(row, "AlreadyPosted", p), NextRow(c)
          PROVE  AloneInv'
      BY <1>5, <1>6, <2>2 DEF DeductionRecordStatus, ByPin
    <2>3. ASSUME NEW p \in ByPin(row.pincode), UNCHANGED records,
                 ~Keyed(KeyOf(v.file, row)), Move(c, [v EXCEPT !.step = "post", !.policy = p])
          PROVE  AloneInv'
      <3>1. PICK u : u = [v EXCEPT !.step = "post", !.policy = p]
        OBVIOUS
      <3>2. u.step = "post" /\ u.file = v.file /\ u.at = v.at
        BY <1>4, <3>1 DEF UploadRow
      <3>3. Now(u) = row
        BY <1>4, <3>2 DEF Now
      <3>4. ~Paid(u.file, Now(u))'
        BY <1>2, <2>3, <3>2, <3>3 DEF Paid, Keyed, Now
      <3>5. AloneOK(u)'
        BY <3>2, <3>4 DEF AloneOK, Now
      <3>6. upload' = [upload EXCEPT ![c] = u]
        BY <2>3, <3>1 DEF Move
      <3>7. QED
        BY <1>2, <2>3, <3>2, <3>5, <3>6, AloneMoves
    <2>4. QED
      BY <1>1, <1>7, <2>1, <2>2, <2>3 DEF MatchDeduction
  <1>8. CASE RecordDeduction(c)
    <2>1. v.step = "record" /\ v.policy \in Nat /\ "Posted" \in DeductionRecordStatus
      BY <1>1, <1>4, <1>8 DEF RecordDeduction, StepIs, UploadRow, DeductionRecordStatus
    <2>2. AloneOK(v)
      BY <1>1, OneWorks DEF AloneInv
    <2>3. \A i \in DOMAIN records : ~RecordedPosted(i, row.pincode, row.month)
      BY <1>4, <2>1, <2>2 DEF AloneOK
    <2>4. PICK p : p = v.policy
      OBVIOUS
    <2>5. Record(row, "Posted", p) /\ NextRow(c)
      BY <1>1, <1>8, <2>4 DEF RecordDeduction
    <2>6. QED
      BY <1>1, <1>2, <1>4, <2>1, <2>3, <2>4, <2>5, RecordAlone
  <1>9. QED
    BY <1>7, <1>8

LEMMA EmployeesAlone ==
    ASSUME PremiumInv, AloneInv, PremiumNext, single', NEW c \in Uploaders,
           MatchEmployee(c) \/ CreateEmployee(c)
    PROVE  AloneInv'
  <1>1. PICK v, row : v = upload[c] /\ row = RowAt(c)
    OBVIOUS
  <1>2. UploadOK(v) /\ UNCHANGED <<roll, records>> /\ v.step # "idle"
    BY <1>1 DEF PremiumInv, MatchEmployee, CreateEmployee, HasRow, StepIs
  <1>3. v.at \in DOMAIN SheetRows(v.file) /\ Files[v.file].layout = "payroll"
    BY <1>1, <1>2 DEF UploadOK, MatchEmployee, CreateEmployee, HasRow, StepIs, Is
  <1>4. row = Now(v) /\ row.phone \in Nat /\ row.nationalId \in Nat /\ v \in UploadRow
    BY <1>1, <1>2, <1>3, RowAtWork DEF SheetRow
  <1>5. CASE MatchEmployee(c)
    <2>1. UNCHANGED people
      BY <1>5 DEF MatchEmployee
    <2>2. CASE NextRow(c)
      BY <1>1, <1>2, <2>1, <2>2, NextRowAlone, AloneMoves
    <2>3. CASE FindClient(row) = {} /\ Move(c, [v EXCEPT !.step = "enrol"])
      <3>1. PICK u : u = [v EXCEPT !.step = "enrol"]
        OBVIOUS
      <3>2. u.step = "enrol" /\ u.file = v.file /\ u.at = v.at
        BY <1>4, <3>1 DEF UploadRow
      <3>3. \A k \in DOMAIN people : people[k].phone # row.phone
        BY <2>3 DEF FindClient
      <3>4. Now(u) = row
        BY <1>4, <3>2 DEF Now
      <3>5. AloneOK(u)'
        BY <2>1, <3>2, <3>3, <3>4 DEF AloneOK, Now
      <3>6. upload' = [upload EXCEPT ![c] = u]
        BY <2>3, <3>1 DEF Move
      <3>7. QED
        BY <1>2, <2>1, <3>2, <3>5, <3>6, AloneMoves
    <2>4. ASSUME NEW k \in FindClient(row), Move(c, [v EXCEPT !.step = "policy", !.client = k])
          PROVE  AloneInv'
      <3>1. PICK u : u = [v EXCEPT !.step = "policy", !.client = k]
        OBVIOUS
      <3>2. u.step = "policy"
        BY <1>4, <3>1 DEF UploadRow
      <3>3. AloneOK(u)'
        BY <3>2 DEF AloneOK
      <3>4. upload' = [upload EXCEPT ![c] = u]
        BY <2>4, <3>1 DEF Move
      <3>5. QED
        BY <1>2, <2>1, <3>2, <3>3, <3>4, AloneMoves
    <2>5. QED
      BY <1>1, <1>5, <2>2, <2>3, <2>4 DEF MatchEmployee
  <1>6. CASE CreateEmployee(c)
    <2>1. AloneOK(v) /\ v.step = "enrol" /\ PhonesOnce /\ EndowmentsOnce /\ PostedOnce
      BY <1>1, <1>6, OneWorks DEF AloneInv, CreateEmployee, StepIs
    <2>2. PICK person : person = [nationalId |-> row.nationalId, phone |-> row.phone]
      OBVIOUS
    <2>3. person \in PersonRow /\ person.phone = row.phone
      BY <1>4, <2>2 DEF PersonRow
    <2>4. people \in Seq(PersonRow) /\ people' = Append(people, person)
      BY <1>1, <1>6, <2>2 DEF PremiumInv, PremiumTypes, CreateEmployee
    <2>5. /\ DOMAIN people' = DOMAIN people \union {Len(people) + 1}
          /\ \A k \in DOMAIN people : people'[k] = people[k]
          /\ people'[Len(people) + 1] = person
      BY <2>3, <2>4
    <2>6. PhonesOnce'
      BY <1>4, <2>1, <2>3, <2>5 DEF PhonesOnce, AloneOK
    <2>7. EndowmentsOnce' /\ PostedOnce'
      BY <1>2, <2>1 DEF EndowmentsOnce, PostedOnce, RecordedPosted
    <2>8. PICK u : u = [v EXCEPT !.step = "policy", !.client = Len(people) + 1]
      OBVIOUS
    <2>9. u.step = "policy"
      BY <1>4, <2>8 DEF UploadRow
    <2>10. AloneOK(u)'
      BY <2>9 DEF AloneOK
    <2>11. upload' = [upload EXCEPT ![c] = u]
      BY <1>1, <1>6, <2>8 DEF CreateEmployee, Move
    <2>12. QED
      BY <2>6, <2>7, <2>9, <2>10, <2>11, AloneTurn
  <1>7. QED
    BY <1>5, <1>6

LEMMA PoliciesAlone ==
    ASSUME PremiumInv, AloneInv, PremiumNext, single', NEW c \in Uploaders,
           FindPolicy(c) \/ IssuePolicy(c)
    PROVE  AloneInv'
  <1>1. PICK v : v = upload[c]
    OBVIOUS
  <1>2. UploadOK(v) /\ UNCHANGED <<people, records>> /\ v.step \in {"policy", "issue"}
    BY <1>1 DEF PremiumInv, FindPolicy, IssuePolicy, StepIs
  <1>3. Files[v.file].layout = "payroll" /\ v \in UploadRow /\ ~Deductions(v.file)
    BY <1>2 DEF UploadOK, Deductions
  <1>4. CASE FindPolicy(c)
    <2>1. UNCHANGED roll
      BY <1>4 DEF FindPolicy
    <2>2. CASE EndowmentsOf(v.client) = {} /\ Move(c, [v EXCEPT !.step = "issue"])
      <3>1. PICK u : u = [v EXCEPT !.step = "issue"]
        OBVIOUS
      <3>2. u.step = "issue" /\ u.client = v.client
        BY <1>3, <3>1 DEF UploadRow
      <3>3. AloneOK(u)'
        BY <2>1, <2>2, <3>2 DEF AloneOK, EndowmentsOf
      <3>4. upload' = [upload EXCEPT ![c] = u]
        BY <2>2, <3>1 DEF Move
      <3>5. QED
        BY <1>2, <2>1, <3>2, <3>3, <3>4, AloneMoves
    <2>3. ASSUME NEW p, Move(c, [v EXCEPT !.step = "post", !.policy = p])
          PROVE  AloneInv'
      <3>1. PICK u : u = [v EXCEPT !.step = "post", !.policy = p]
        OBVIOUS
      <3>2. u.step = "post" /\ u.file = v.file
        BY <1>3, <3>1 DEF UploadRow
      <3>3. AloneOK(u)'
        BY <1>3, <3>2 DEF AloneOK
      <3>4. upload' = [upload EXCEPT ![c] = u]
        BY <2>3, <3>1 DEF Move
      <3>5. QED
        BY <1>2, <2>1, <3>2, <3>3, <3>4, AloneMoves
    <2>4. QED
      BY <1>1, <1>4, <2>2, <2>3 DEF FindPolicy
  <1>5. CASE IssuePolicy(c)
    <2>1. AloneOK(v) /\ v.step = "issue" /\ PhonesOnce /\ EndowmentsOnce /\ PostedOnce
      BY <1>1, <1>5, OneWorks DEF AloneInv, IssuePolicy, StepIs
    <2>2. PICK made : made = [policyNo |-> [number |-> Absent, spelling |-> 0], pincode |-> Absent,
                              client |-> v.client, product |-> "Endowment", cancelled |-> FALSE]
      OBVIOUS
    <2>3. made.client = v.client
      BY <2>2
    <2>4. roll \in Seq(RollRow) /\ roll' = Append(roll, made)
      BY <1>1, <1>5, <2>2 DEF PremiumInv, PremiumTypes, IssuePolicy
    <2>5. /\ DOMAIN roll' = DOMAIN roll \union {Len(roll) + 1}
          /\ \A p \in DOMAIN roll : roll'[p] = roll[p]
          /\ roll'[Len(roll) + 1] = made
      BY <2>4
    <2>6. \A p \in DOMAIN roll : ~(roll[p].client = v.client /\ roll[p].product = "Endowment")
      BY <2>1 DEF AloneOK, EndowmentsOf
    <2>7. EndowmentsOnce'
      BY <2>1, <2>3, <2>5, <2>6 DEF EndowmentsOnce
    <2>8. PhonesOnce' /\ PostedOnce'
      BY <1>2, <2>1 DEF PhonesOnce, PostedOnce, RecordedPosted
    <2>9. PICK u : u = [v EXCEPT !.step = "post", !.policy = Len(roll) + 1]
      OBVIOUS
    <2>10. u.step = "post" /\ u.file = v.file
      BY <1>3, <2>9 DEF UploadRow
    <2>11. AloneOK(u)'
      BY <1>3, <2>10 DEF AloneOK
    <2>12. upload' = [upload EXCEPT ![c] = u]
      BY <1>1, <1>5, <2>9 DEF IssuePolicy, Move
    <2>13. QED
      BY <2>7, <2>8, <2>10, <2>11, <2>12, AloneTurn
  <1>6. QED
    BY <1>4, <1>5

LEMMA NumbersAlone ==
    ASSUME PremiumInv, AloneInv, PremiumNext, single', NEW c \in Uploaders, MatchPolicyNo(c)
    PROVE  AloneInv'
  <1>1. PICK v : v = upload[c]
    OBVIOUS
  <1>2. /\ v.step = "row" /\ Files[v.file].layout \in {"office", "bulk"} /\ v \in UploadRow
        /\ UNCHANGED <<people, roll, records>>
    BY <1>1 DEF MatchPolicyNo, HasRow, StepIs, Is, PremiumInv, PremiumTypes
  <1>3. CASE NextRow(c)
    BY <1>1, <1>2, <1>3, NextRowAlone, AloneMoves
  <1>4. ASSUME NEW p, Move(c, [v EXCEPT !.step = "post", !.policy = p])
        PROVE  AloneInv'
    <2>1. PICK u : u = [v EXCEPT !.step = "post", !.policy = p]
      OBVIOUS
    <2>2. u.step = "post" /\ u.file = v.file
      BY <1>2, <2>1 DEF UploadRow
    <2>3. AloneOK(u)'
      BY <1>2, <2>2 DEF AloneOK, Deductions
    <2>4. upload' = [upload EXCEPT ![c] = u]
      BY <1>4, <2>1 DEF Move
    <2>5. QED
      BY <1>2, <2>2, <2>3, <2>4, AloneMoves
  <1>5. QED
    BY <1>1, <1>3, <1>4 DEF MatchPolicyNo

LEMMA PostAlone ==
    ASSUME PremiumInv, AloneInv, PremiumNext, single', NEW c \in Uploaders, Post(c)
    PROVE  AloneInv'
  <1>1. PICK v, row : v = upload[c] /\ row = RowAt(c)
    OBVIOUS
  <1>2. /\ UploadOK(v) /\ AloneOK(v) /\ v.step = "post" /\ v \in UploadRow
        /\ UNCHANGED <<people, roll, records>>
    BY <1>1, OneWorks DEF PremiumInv, AloneInv, Post, StepIs, UploadOK
  <1>3. row = Now(v)
    BY <1>1, <1>2, RowAtWork DEF UploadOK
  <1>4. CASE NextRow(c)
    BY <1>1, <1>2, <1>4, NextRowAlone, AloneMoves
  <1>5. CASE Move(c, Out)
    <2>1. AloneOK(Out)'
      BY DEF AloneOK, Out
    <2>2. QED
      BY <1>1, <1>2, <1>5, <2>1, AloneMoves DEF Move
  <1>6. CASE Deductions(v.file) /\ Move(c, [v EXCEPT !.step = "record"])
    <2>1. PICK u : u = [v EXCEPT !.step = "record"]
      OBVIOUS
    <2>2. u.step = "record" /\ u.file = v.file /\ u.at = v.at
      BY <1>2, <2>1 DEF UploadRow
    <2>3. Now(u) = row
      BY <1>3, <2>2 DEF Now
    <2>4. ~Keyed(<<"deduction", row.pincode, row.month>>)
      BY <1>2, <1>3, <1>6 DEF AloneOK, Paid, KeyOf
    <2>5. \A i \in DOMAIN records : ~RecordedPosted(i, row.pincode, row.month)
      BY <2>4 DEF PremiumInv, RecordsOK, RecordedPosted
    <2>6. AloneOK(u)'
      BY <1>2, <2>2, <2>3, <2>5 DEF AloneOK, Now, RecordedPosted
    <2>7. upload' = [upload EXCEPT ![c] = u]
      BY <1>6, <2>1 DEF Move
    <2>8. QED
      BY <1>2, <2>2, <2>6, <2>7, AloneMoves
  <1>7. QED
    BY <1>1, <1>4, <1>5, <1>6 DEF Post

LEMMA MeanwhileAlone ==
    ASSUME PremiumInv, AloneInv, PremiumNext, single',
           (\E p \in DOMAIN roll : CancelMeanwhile(p)) \/ UploadRestart
    PROVE  AloneInv'
  <1>1. single /\ OneAtWork'
    BY OneWorks
  <1>2. PhonesOnce /\ EndowmentsOnce /\ PostedOnce /\ \A c \in Uploaders : AloneOK(upload[c])
    BY <1>1 DEF AloneInv
  <1>3. UNCHANGED <<people, records, posted>>
    BY DEF CancelMeanwhile, UploadRestart
  <1>4. CASE UploadRestart
    <2>1. UNCHANGED roll /\ \A c \in Uploaders : upload'[c].step = "idle"
      BY <1>4 DEF UploadRestart, Out
    <2>2. \A c \in Uploaders : AloneOK(upload[c])'
      BY <2>1 DEF AloneOK
    <2>3. QED
      BY <1>1, <1>2, <1>3, <2>1, <2>2, TablesAlone DEF AloneInv
  <1>5. ASSUME NEW p \in DOMAIN roll, CancelMeanwhile(p)
        PROVE  AloneInv'
    <2>1. roll \in Seq(RollRow)
      BY DEF PremiumInv, PremiumTypes
    <2>2. /\ DOMAIN roll' = DOMAIN roll
          /\ \A q \in DOMAIN roll :
               roll'[q].client = roll[q].client /\ roll'[q].product = roll[q].product
      <3>1. PICK row : row = [roll[p] EXCEPT !.cancelled = TRUE]
        OBVIOUS
      <3>2. row.client = roll[p].client /\ row.product = roll[p].product
        BY <2>1, <3>1 DEF RollRow
      <3>3. roll' = [roll EXCEPT ![p] = row]
        BY <1>5, <3>1 DEF CancelMeanwhile
      <3>4. QED
        BY <2>1, <3>2, <3>3
    <2>3. EndowmentsOnce'
      BY <1>2, <2>2 DEF EndowmentsOnce
    <2>4. PhonesOnce' /\ PostedOnce'
      BY <1>2, <1>3 DEF PhonesOnce, PostedOnce, RecordedPosted
    <2>5. ASSUME NEW c \in Uploaders PROVE AloneOK(upload[c])'
      <3>1. UNCHANGED upload
        BY <1>5 DEF CancelMeanwhile
      <3>2. EndowmentsOf(upload[c].client) = {} => (EndowmentsOf(upload[c].client) = {})'
        BY <2>2, <3>1 DEF EndowmentsOf
      <3>3. QED
        BY <1>2, <1>3, <3>1, <3>2 DEF AloneOK, Now, Paid, Keyed, RecordedPosted
    <2>6. QED
      BY <1>1, <2>3, <2>4, <2>5 DEF AloneInv
  <1>6. QED
    BY <1>4, <1>5

\* Two rows of one policy, month and amount, of one kind of list, have one key.
LEMMA SameKey ==
    ASSUME PremiumInv, RowsInOrder, PhonesOnce, NEW p,
           NEW f \in DOMAIN Files, NEW g \in DOMAIN Files,
           NEW i \in DOMAIN SheetRows(f), NEW j \in DOMAIN SheetRows(g), NEW row, NEW other,
           row = SheetRows(f)[i], other = SheetRows(g)[j],
           Meant(f, row, p), Meant(g, other, p),
           row.month = other.month, row.amount = other.amount,
           KeyOf(f, row)[1] = KeyOf(g, other)[1]
    PROVE  KeyOf(f, row) = KeyOf(g, other)
  <1>1. Files[f].layout \in Layouts /\ Files[g].layout \in Layouts
    BY PremiumAssumption DEF PremiumAssumption
  <1>2. row \in RowsOf(Files[f].layout) /\ other \in RowsOf(Files[g].layout)
    BY DEF RowsOf, Range
  <1>3. CASE Deductions(f)
    <2>1. Deductions(g)
      BY <1>1, <1>3 DEF KeyOf, Layouts, Deductions
    <2>2. QED
      BY <1>3, <2>1 DEF KeyOf, Meant
  <1>4. CASE Files[f].layout = "payroll"
    <2>1. Files[g].layout = "payroll"
      BY <1>1, <1>4 DEF KeyOf, Layouts, Deductions
    <2>2. row.phone = other.phone
      BY <1>4, <2>1 DEF Meant
    <2>3. row.nationalId = other.nationalId
      BY <1>2, <1>4, <2>1, <2>2 DEF RowsInOrder
    <2>4. QED
      BY <1>4, <2>1, <2>2, <2>3 DEF KeyOf, Deductions
  <1>5. CASE Files[f].layout \in {"office", "bulk"}
    <2>1. Files[g].layout = Files[f].layout
      BY <1>1, <1>5 DEF KeyOf, Layouts, Deductions
    <2>2. row.policyNo = other.policyNo
      BY <1>2, <1>5, <2>1 DEF Meant, RowsInOrder
    <2>3. QED
      BY <1>5, <2>1, <2>2 DEF KeyOf, Deductions
  <1>6. QED
    BY <1>1, <1>3, <1>4, <1>5 DEF Layouts, Deductions

\* Uploaded premiums: however often files are cut off and sent again, and
\* whatever is cancelled meanwhile, every row of a file that was answered is paid
\* once or was refused, one employee has one client and one Endowment policy, and
\* the record of a deduction tells whether it was paid; for any files and tables.
THEOREM UploadsAccountedHolds ==
    ASSUME NEW rolls, NEW clientele, RowsInOrder, TablesInOrder(rolls, clientele)
    PROVE  PremiumSpec(rolls, clientele) => []UploadsAccounted
  <1>1. PremiumInit(rolls, clientele) => AloneInv
    BY DEF PremiumInit, TablesInOrder, AloneInv, OneAtWork, PhonesOnce, EndowmentsOnce, PostedOnce,
           AloneOK, Out
  <1>2. ASSUME PremiumInv, AloneInv, [PremiumNext]_premiumVars
        PROVE  AloneInv'
    <2>1. CASE UNCHANGED premiumVars
      BY <1>2, <2>1
         DEF premiumVars, AloneInv, OneAtWork, PhonesOnce, EndowmentsOnce, PostedOnce, AloneOK,
             RecordedPosted, EndowmentsOf, Paid, Keyed, Now
    <2>2. CASE PremiumNext /\ single'
      BY <1>2, <2>2, UploadAlone, DeductionsAlone, EmployeesAlone, PoliciesAlone, NumbersAlone,
         PostAlone, MeanwhileAlone DEF PremiumNext
    <2>3. CASE ~single'
      BY <2>3 DEF AloneInv
    <2>4. QED
      BY <1>2, <2>1, <2>2, <2>3
  <1>3. PremiumInv /\ AloneInv => UploadsAccounted
    <2> SUFFICES ASSUME PremiumInv, AloneInv PROVE UploadsAccounted
      OBVIOUS
    <2>1. RecordsTellPayments
      BY DEF PremiumInv, AloneInv, RecordsOK, PostedOnce, RecordedPosted, RowDone, RecordsTellPayments
    <2>2. ASSUME single PROVE UploadsPayOnce
      <3>1. \A f \in finished : \A i \in DOMAIN SheetRows(f) :
              Keyed(KeyOf(f, SheetRows(f)[i])) \/ <<f, i>> \in refused
        BY DEF PremiumInv, RowDone, Paid
      <3>2. PhonesOnce /\ EndowmentsOnce
        BY <2>2 DEF AloneInv
      <3>3. ASSUME NEW k \in DOMAIN people PROVE Cardinality(EndowmentsOf(k)) <= 1
        <4>1. CASE EndowmentsOf(k) = {}
          BY <4>1, FS_EmptySet
        <4>2. ASSUME NEW p \in EndowmentsOf(k) PROVE EndowmentsOf(k) = {p}
          BY <3>2, <4>2 DEF EndowmentsOf, EndowmentsOnce
        <4>3. QED
          BY <4>1, <4>2, FS_Singleton
      <3>4. ASSUME NEW p \in posted, NEW q \in posted, p.key[1] = q.key[1], p.policy = q.policy,
                   p.month = q.month, p.amount = q.amount
            PROVE  p = q
        <4>1. PICK f \in DOMAIN Files : \E i \in DOMAIN SheetRows(f) : OfRow(p, f, i)
          BY DEF PremiumInv, PaymentOK
        <4>2. PICK i \in DOMAIN SheetRows(f) : OfRow(p, f, i)
          BY <4>1
        <4>3. PICK g \in DOMAIN Files : \E j \in DOMAIN SheetRows(g) : OfRow(q, g, j)
          BY DEF PremiumInv, PaymentOK
        <4>4. PICK j \in DOMAIN SheetRows(g) : OfRow(q, g, j)
          BY <4>3
        <4>5. PICK row, other : row = SheetRows(f)[i] /\ other = SheetRows(g)[j]
          OBVIOUS
        <4>6. PICK x : x = p.policy
          OBVIOUS
        <4>7. /\ p.key = KeyOf(f, row) /\ q.key = KeyOf(g, other)
              /\ row.month = other.month /\ row.amount = other.amount
              /\ Meant(f, row, x) /\ Meant(g, other, x)
          BY <3>4, <4>2, <4>4, <4>5, <4>6 DEF OfRow
        <4>8. KeyOf(f, row)[1] = KeyOf(g, other)[1]
          BY <3>4, <4>7
        <4>9. KeyOf(f, row) = KeyOf(g, other)
          BY <3>2, <4>5, <4>7, <4>8, SameKey
        <4>10. QED
          BY <4>7, <4>9 DEF PremiumInv
      <3>5. QED
        BY <3>1, <3>2, <3>3, <3>4 DEF UploadsPayOnce, PhonesOnce
    <2>3. QED
      BY <2>1, <2>2 DEF UploadsAccounted, UploadsPayOnce
  <1>4. QED
    BY <1>1, <1>2, <1>3, PremiumInvariant, PTL DEF PremiumSpec
-------------------------------------------------------------------------------
(* Rosters.                                                                 *)

RosterSpec == RosterInit /\ [][RosterNext]_rosterVars

Cells(s, i) == RowsOfSheet(s)[i]
AllRows == UNION {Range(RowsOfSheet(s)) : s \in DOMAIN Sheets}
IssueRow == [row: AllRows, status: {"Pending", "Resolved", "Dismissed"}]
IsClerk(q) ==
    q = [step |-> q.step, sheet |-> q.sheet, at |-> q.at, numbers |-> q.numbers, pins |-> q.pins,
         pending |-> q.pending, families |-> q.families, client |-> q.client, issue |-> q.issue,
         fix |-> q.fix]
IsRosterPolicy(p) ==
    p = [policyNo |-> p.policyNo, pincode |-> p.pincode, client |-> p.client, sheet |-> p.sheet,
         at |-> p.at]
Importing == {"row", "policy"}

Numbered(no) ==
    no # NoNumber /\ \E p \in rosterPolicies : normalizePolicyNo(p.policyNo) = normalizePolicyNo(no)
Flagged(row) == \E k \in DOMAIN issues : Fingerprint(issues[k].row) = Fingerprint(row)
Pinned(pin) == \E p \in rosterPolicies : p.pincode = pin
Twice(s, column, value) ==
    Cardinality({i \in DOMAIN RowsOfSheet(s) : RowsOfSheet(s)[i][column] = value}) > 1
\* A row that goes to review whenever its sheet is imported.
Doubtful(s, i) ==
    \/ Cells(s, i).policyNo = NoNumber
    \/ Twice(s, "policyNo", Cells(s, i).policyNo)
    \/ /\ Cells(s, i).pincode # NoPin
       /\ Twice(s, "pincode", Cells(s, i).pincode) \/ Pinned(Cells(s, i).pincode)
    \/ Cells(s, i).bad

\* What an import has read and done.
ClerkOK(q) ==
    /\ IsClerk(q)
    /\ q.step \in Importing =>
         /\ q.sheet \in DOMAIN Sheets /\ q.at \in Nat \ {0}
         /\ \A i \in DOMAIN RowsOfSheet(q.sheet) : i < q.at =>
              Numbered(Cells(q.sheet, i).policyNo) \/ Flagged(Cells(q.sheet, i))
         /\ \A no \in q.numbers :
              \E p \in rosterPolicies : p.policyNo = no \/ normalizePolicyNo(p.policyNo) = no
         /\ \A mark \in q.pending : \E k \in DOMAIN issues : Fingerprint(issues[k].row) = mark
         /\ \A pin \in q.pins : pin # NoPin /\ Pinned(pin)
    /\ q.step = "policy" =>
         q.at \in DOMAIN RowsOfSheet(q.sheet) /\ Cells(q.sheet, q.at).policyNo # NoNumber
RosterInv ==
    /\ issues \in Seq(IssueRow)
    /\ \A p \in rosterPolicies : IsRosterPolicy(p)
    /\ clerk = [c \in Clerks |-> clerk[c]] /\ \A c \in Clerks : ClerkOK(clerk[c])
    /\ \A k \in DOMAIN issues : \E s \in DOMAIN Sheets : \E i \in DOMAIN RowsOfSheet(s) :
         issues[k].row = Cells(s, i) /\ Doubtful(s, i)
    /\ \A s \in uploaded : s \in DOMAIN Sheets /\ \A i \in DOMAIN RowsOfSheet(s) :
         Numbered(Cells(s, i).policyNo) \/ Flagged(Cells(s, i))
    /\ serial \in BOOLEAN

\* No number, pincode or issue is lost.
Kept ==
    /\ \A p \in rosterPolicies : \E q \in rosterPolicies' :
         q.policyNo = p.policyNo /\ (p.pincode # NoPin => q.pincode = p.pincode)
    /\ \A k \in DOMAIN issues : k \in DOMAIN issues' /\ issues'[k].row = issues[k].row
    /\ \A p \in rosterPolicies' : IsRosterPolicy(p)
-------------------------------------------------------------------------------
\* A number without its spelling has no spelling to lose.
LEMMA NormalTwice ==
    ASSUME NEW no
    PROVE  normalizePolicyNo(normalizePolicyNo(no)) = normalizePolicyNo(no)
  BY DEF normalizePolicyNo
LEMMA RowsOfSheetCounted ==
    ASSUME NEW s \in DOMAIN Sheets
    PROVE  \E n \in Nat : DOMAIN RowsOfSheet(s) = 1 .. n
  <1>1. DOMAIN RowsOfSheet(s) = DOMAIN Sheets[s].sheet
    BY DEF RowsOfSheet, parseCssRoster, parsePikinRoster, parseSuperSavingsPlusRoster,
           parsePaySmolSmolRoster
  <1>2. PICK sheet : sheet = Sheets[s].sheet
    OBVIOUS
  <1>3. sheet \in Seq(Range(sheet))
    BY <1>2, RosterAssumption DEF RosterAssumption
  <1>4. DOMAIN sheet = 1 .. Len(sheet) /\ Len(sheet) \in Nat
    BY <1>3, LenProperties
  <1>5. QED
    BY <1>1, <1>2, <1>4
LEMMA TwoAreTwice ==
    ASSUME NEW s \in DOMAIN Sheets, NEW i \in DOMAIN RowsOfSheet(s), NEW j \in DOMAIN RowsOfSheet(s),
           i # j, Cells(s, i).policyNo = Cells(s, j).policyNo
    PROVE  Twice(s, "policyNo", Cells(s, i).policyNo)
  <1>1. PICK B : B = {k \in DOMAIN RowsOfSheet(s) :
                        RowsOfSheet(s)[k]["policyNo"] = Cells(s, i).policyNo}
    OBVIOUS
  <1>2. i \in B /\ j \in B
    BY <1>1 DEF Cells
  <1>3. PICK n \in Nat : DOMAIN RowsOfSheet(s) = 1 .. n
    BY RowsOfSheetCounted
  <1>4. IsFiniteSet(B)
    BY <1>1, <1>3, FS_Interval, FS_Subset
  <1>5. Cardinality(B) \in Nat
    BY <1>4, FS_CardinalityType
  <1>6. Cardinality(B) > 1
    BY <1>2, <1>4, <1>5, NoTwoRequests
  <1>7. QED
    BY <1>1, <1>6 DEF Twice

\* What was found or flagged stays found or flagged.
LEMMA RosterStays ==
    ASSUME Kept
    PROVE  /\ \A no : Numbered(no) => Numbered(no)'
           /\ \A row : Flagged(row) => Flagged(row)'
           /\ \A pin : pin # NoPin /\ Pinned(pin) => Pinned(pin)'
           /\ \A s, i : Doubtful(s, i) => Doubtful(s, i)'
  BY DEF Kept, Numbered, Flagged, Pinned, Doubtful
LEMMA ClerkKept ==
    ASSUME Kept, NEW q, ClerkOK(q)
    PROVE  ClerkOK(q)'
  <1>1. ASSUME q.step \in Importing
        PROVE  /\ \A i \in DOMAIN RowsOfSheet(q.sheet) : i < q.at =>
                     Numbered(Cells(q.sheet, i).policyNo)' \/ Flagged(Cells(q.sheet, i))'
               /\ \A pin \in q.pins : pin # NoPin /\ Pinned(pin)'
    BY <1>1, RosterStays DEF ClerkOK
  <1>2. ASSUME q.step \in Importing
        PROVE  /\ \A no \in q.numbers :
                    \E p \in rosterPolicies' : p.policyNo = no \/ normalizePolicyNo(p.policyNo) = no
               /\ \A mark \in q.pending : \E k \in DOMAIN issues' : Fingerprint(issues'[k].row) = mark
    <2>1. ASSUME NEW no \in q.numbers
          PROVE  \E p \in rosterPolicies' : p.policyNo = no \/ normalizePolicyNo(p.policyNo) = no
      <3>1. PICK p \in rosterPolicies : p.policyNo = no \/ normalizePolicyNo(p.policyNo) = no
        BY <1>2 DEF ClerkOK
      <3>2. PICK r \in rosterPolicies' : r.policyNo = p.policyNo
        BY DEF Kept
      <3>3. QED
        BY <3>1, <3>2
    <2>2. ASSUME NEW mark \in q.pending
          PROVE  \E k \in DOMAIN issues' : Fingerprint(issues'[k].row) = mark
      BY <1>2 DEF ClerkOK, Kept
    <2>3. QED
      BY <2>1, <2>2
  <1>3. QED
    BY <1>1, <1>2 DEF ClerkOK

\* A clerk takes a turn: the tables keep what they have, and it has `q' in hand.
Takes(c, q) == clerk' = [clerk EXCEPT ![c] = q] /\ ClerkOK(q)'
LEMMA ClerksKept ==
    ASSUME RosterInv, Kept, NEW c \in Clerks, NEW q, Takes(c, q)
    PROVE  clerk' = [d \in Clerks |-> clerk'[d]] /\ \A d \in Clerks : ClerkOK(clerk[d])'
  <1>1. \A d \in Clerks : clerk'[d] = IF d = c THEN q ELSE clerk[d]
    BY DEF RosterInv, Takes
  <1>2. ASSUME NEW d \in Clerks PROVE ClerkOK(clerk[d])'
    <2>1. CASE d = c
      BY <1>1, <2>1 DEF Takes
    <2>2. CASE d # c
      <3>1. PICK v : v = clerk[d]
        OBVIOUS
      <3>2. ClerkOK(v)'
        BY <3>1, ClerkKept DEF RosterInv
      <3>3. QED
        BY <1>1, <2>2, <3>1, <3>2
    <2>3. QED
      BY <2>1, <2>2
  <1>3. QED
    BY <1>2 DEF RosterInv, Takes
LEMMA IssuesKept ==
    ASSUME RosterInv, Kept
    PROVE  \A k \in DOMAIN issues : \E s \in DOMAIN Sheets : \E i \in DOMAIN RowsOfSheet(s) :
             issues'[k].row = Cells(s, i) /\ Doubtful(s, i)'
  <1> SUFFICES ASSUME NEW k \in DOMAIN issues
               PROVE  \E s \in DOMAIN Sheets : \E i \in DOMAIN RowsOfSheet(s) :
                        issues'[k].row = Cells(s, i) /\ Doubtful(s, i)'
    OBVIOUS
  <1>1. PICK s \in DOMAIN Sheets : \E i \in DOMAIN RowsOfSheet(s) :
           issues[k].row = Cells(s, i) /\ Doubtful(s, i)
    BY DEF RosterInv
  <1>2. PICK i \in DOMAIN RowsOfSheet(s) : issues[k].row = Cells(s, i) /\ Doubtful(s, i)
    BY <1>1
  <1>3. Doubtful(s, i)' /\ issues'[k].row = issues[k].row
    BY <1>2, RosterStays DEF Kept
  <1>4. QED
    BY <1>2, <1>3
LEMMA PoliciesKept ==
    ASSUME Kept
    PROVE  \A p \in rosterPolicies' : IsRosterPolicy(p)
  BY DEF Kept
LEMMA UploadedKept ==
    ASSUME RosterInv, Kept, NEW s \in uploaded
    PROVE  s \in DOMAIN Sheets /\ \A i \in DOMAIN RowsOfSheet(s) :
              Numbered(Cells(s, i).policyNo)' \/ Flagged(Cells(s, i))'
  BY RosterStays DEF RosterInv
LEMMA SerialIsBoolean ==
    ASSUME RosterInv, RosterNext
    PROVE  serial' \in BOOLEAN
  BY DEF RosterInv, RosterNext

\* A turn that flags no row and ends no import.
LEMMA TurnTaken ==
    ASSUME RosterInv, RosterNext, Kept, NEW c \in Clerks, NEW q, Takes(c, q),
           UNCHANGED uploaded, issues' \in Seq(IssueRow), DOMAIN issues' = DOMAIN issues
    PROVE  RosterInv'
  BY ClerksKept, IssuesKept, UploadedKept, SerialIsBoolean, PoliciesKept DEF RosterInv

\* On to the next row, when this one is a policy or an issue by now.
LEMMA NextRowTaken ==
    ASSUME Kept, NEW v, ClerkOK(v), v.step \in Importing, v.at \in DOMAIN RowsOfSheet(v.sheet),
           Numbered(Cells(v.sheet, v.at).policyNo)' \/ Flagged(Cells(v.sheet, v.at))',
           NEW numbers, NEW pins, NEW client, NEW q,
           q = [v EXCEPT !.step = "row", !.at = v.at + 1, !.client = client,
                         !.numbers = numbers, !.pins = pins],
           \A no \in numbers \ v.numbers : \E p \in rosterPolicies' : p.policyNo = no,
           \A pin \in pins \ v.pins : pin # NoPin /\ Pinned(pin)'
    PROVE  ClerkOK(q)'
  <1>1. /\ IsClerk(q) /\ q.step = "row" /\ q.sheet = v.sheet /\ q.at = v.at + 1
        /\ q.numbers = numbers /\ q.pins = pins /\ q.pending = v.pending
    BY DEF ClerkOK, IsClerk
  <1>2. v.sheet \in DOMAIN Sheets /\ v.at \in Nat
    BY DEF ClerkOK
  <1>3. PICK n \in Nat : DOMAIN RowsOfSheet(v.sheet) = 1 .. n
    BY <1>2, RowsOfSheetCounted
  <1>4. ClerkOK(v)'
    BY ClerkKept
  <1>5. \A i \in DOMAIN RowsOfSheet(q.sheet) : i < q.at => i < v.at \/ i = v.at
    BY <1>1, <1>2, <1>3
  <1>6. \A i \in DOMAIN RowsOfSheet(q.sheet) : i < q.at =>
           Numbered(Cells(q.sheet, i).policyNo)' \/ Flagged(Cells(q.sheet, i))'
    BY <1>1, <1>4, <1>5 DEF ClerkOK, Cells
  <1>7. \A no \in q.numbers :
           \E p \in rosterPolicies' : p.policyNo = no \/ normalizePolicyNo(p.policyNo) = no
    BY <1>1, <1>4 DEF ClerkOK
  <1>8. \A pin \in q.pins : pin # NoPin /\ Pinned(pin)'
    BY <1>1, <1>4 DEF ClerkOK
  <1>9. \A mark \in q.pending : \E k \in DOMAIN issues' : Fingerprint(issues'[k].row) = mark
    BY <1>1, <1>4 DEF ClerkOK
  <1>10. QED
    BY <1>1, <1>2, <1>6, <1>7, <1>8, <1>9 DEF ClerkOK, Importing
-------------------------------------------------------------------------------
(* The steps of an import.                                                  *)

LEMMA StartImportStep ==
    ASSUME RosterInv, RosterNext, NEW c \in Clerks, NEW s \in DOMAIN Sheets, StartImport(c, s)
    PROVE  RosterInv'
  <1>1. UNCHANGED <<rosterPolicies, issues, uploaded>>
    BY DEF StartImport
  <1>2. Kept
    BY <1>1 DEF Kept, RosterInv
  <1>3. PICK q : q = [Away EXCEPT !.step = "row", !.sheet = s, !.at = 1,
          !.numbers = {normalizePolicyNo(p.policyNo) : p \in rosterPolicies},
          !.pins = {p.pincode : p \in rosterPolicies} \ {NoPin},
          !.pending = {Fingerprint(issues[i].row) :
                         i \in {j \in DOMAIN issues : issues[j].status = "Pending"}}]
    OBVIOUS
  <1>4. /\ IsClerk(q) /\ q.step = "row" /\ q.sheet = s /\ q.at = 1
        /\ q.numbers = {normalizePolicyNo(p.policyNo) : p \in rosterPolicies}
        /\ q.pins = {p.pincode : p \in rosterPolicies} \ {NoPin}
        /\ q.pending = {Fingerprint(issues[i].row) :
                         i \in {j \in DOMAIN issues : issues[j].status = "Pending"}}
    BY <1>3 DEF Away, IsClerk
  <1>5. \A i \in DOMAIN RowsOfSheet(s) : ~(i < 1)
    BY RowsOfSheetCounted
  <1>6. ClerkOK(q)
    BY <1>4, <1>5 DEF ClerkOK, Pinned
  <1>7. Takes(c, q)
    BY <1>2, <1>3, <1>6, ClerkKept DEF Takes, StartImport, Moves
  <1>8. QED
    BY <1>1, <1>2, <1>7, TurnTaken DEF RosterInv

\* The row a clerk reads.
LEMMA RowRead ==
    ASSUME RosterInv, NEW c \in Clerks, clerk[c].step \in Importing, NEW v, v = clerk[c]
    PROVE  /\ ClerkOK(v) /\ v.sheet \in DOMAIN Sheets /\ v.at \in Nat \ {0}
           /\ Row(c) = Cells(v.sheet, v.at)
  BY DEF RosterInv, ClerkOK, Row, Cells

LEMMA SkipRowStep ==
    ASSUME RosterInv, RosterNext, NEW c \in Clerks, SkipRow(c)
    PROVE  RosterInv'
  <1>1. PICK v, row : v = clerk[c] /\ row = Row(c)
    OBVIOUS
  <1>2. v.step \in Importing /\ v.at \in DOMAIN RowsOfSheet(v.sheet)
    BY <1>1 DEF SkipRow, ClerkAt, Importing
  <1>3. ClerkOK(v) /\ row = Cells(v.sheet, v.at) /\ v.at \in Nat
    BY <1>1, <1>2, RowRead
  <1>4. UNCHANGED <<rosterPolicies, issues, uploaded>>
    BY DEF SkipRow
  <1>5. Kept
    BY <1>4 DEF Kept, RosterInv
  <1>6. Numbered(row.policyNo) \/ Flagged(row)
    <2>1. CASE Known(c, row)
      <3>1. PICK no : no = normalizePolicyNo(row.policyNo)
        OBVIOUS
      <3>2. PICK p \in rosterPolicies : p.policyNo = no \/ normalizePolicyNo(p.policyNo) = no
        BY <1>1, <1>2, <1>3, <2>1, <3>1 DEF Known, ClerkOK
      <3>3. normalizePolicyNo(p.policyNo) = no
        BY <3>1, <3>2, NormalTwice
      <3>4. QED
        BY <2>1, <3>1, <3>3 DEF Known, Numbered
    <2>2. CASE Fingerprint(row) \in v.pending
      BY <1>2, <1>3, <2>2 DEF ClerkOK, Flagged
    <2>3. QED
      BY <1>1, <2>1, <2>2 DEF SkipRow, Skipped
  <1>7. Numbered(row.policyNo)' \/ Flagged(row)'
    BY <1>5, <1>6, RosterStays
  <1>8. PICK q : q = [v EXCEPT !.at = @ + 1]
    OBVIOUS
  <1>9. v.step = "row" /\ IsClerk(v)
    BY <1>1, <1>3 DEF SkipRow, ClerkAt, ClerkOK
  <1>10. q = [v EXCEPT !.step = "row", !.at = v.at + 1, !.client = v.client,
                       !.numbers = v.numbers, !.pins = v.pins]
    BY <1>8, <1>9 DEF IsClerk
  <1>11. ClerkOK(q)'
    BY <1>2, <1>3, <1>5, <1>7, <1>10, NextRowTaken
  <1>12. Takes(c, q)
    BY <1>1, <1>8, <1>11 DEF SkipRow, Moves, Takes
  <1>13. QED
    BY <1>4, <1>5, <1>12, TurnTaken DEF RosterInv

\* Doubts come from the sheet, or from a pincode that is a policy's by now.
LEMMA SuspicionsAreDoubts ==
    ASSUME RosterInv, NEW c \in Clerks, clerk[c].step \in Importing,
           NEW v, v = clerk[c], NEW row, row = Cells(v.sheet, v.at)
    PROVE  /\ Suspicious(c, row) => Doubtful(v.sheet, v.at)
           /\ ~Suspicious(c, row) =>
                row.policyNo # NoNumber /\ ~Twice(v.sheet, "policyNo", row.policyNo)
  <1>1. ClerkOK(v)
    BY RowRead
  <1>2. /\ Times(c, "policyNo", row.policyNo) > 1 <=> Twice(v.sheet, "policyNo", row.policyNo)
        /\ Times(c, "pincode", row.pincode) > 1 <=> Twice(v.sheet, "pincode", row.pincode)
    BY DEF Times, Twice
  <1>3. row.pincode \in clerk[c].pins => Pinned(row.pincode)
    BY <1>1 DEF ClerkOK
  <1>4. QED
    BY <1>2, <1>3 DEF Suspicious, Doubtful

LEMMA FlagRowStep ==
    ASSUME RosterInv, RosterNext, NEW c \in Clerks, FlagRow(c)
    PROVE  RosterInv'
  <1>1. PICK v, row : v = clerk[c] /\ row = Row(c)
    OBVIOUS
  <1>2. /\ v.step = "row" /\ v.step \in Importing /\ v.at \in DOMAIN RowsOfSheet(v.sheet)
        /\ Suspicious(c, row)
    BY <1>1 DEF FlagRow, ClerkAt, Importing
  <1>3. ClerkOK(v) /\ row = Cells(v.sheet, v.at) /\ v.at \in Nat /\ v.sheet \in DOMAIN Sheets
    BY <1>1, <1>2, RowRead
  <1>4. PICK issue : issue = [row |-> row, status |-> "Pending"]
    OBVIOUS
  <1>5. issue \in IssueRow /\ issue.row = row
    <2>1. row \in AllRows
      BY <1>2, <1>3 DEF AllRows, Cells, Range
    <2>2. QED
      BY <1>4, <2>1 DEF IssueRow
  <1>6. issues' = Append(issues, issue) /\ UNCHANGED <<rosterPolicies, uploaded>>
    BY <1>1, <1>4 DEF FlagRow
  <1>7. /\ issues \in Seq(IssueRow) /\ issues' \in Seq(IssueRow)
        /\ DOMAIN issues' = DOMAIN issues \union {Len(issues) + 1}
        /\ \A k \in DOMAIN issues : issues'[k] = issues[k]
        /\ issues'[Len(issues) + 1] = issue
    <2>1. issues \in Seq(IssueRow)
      BY DEF RosterInv
    <2>2. QED
      BY <1>5, <1>6, <2>1, AppendProperties, LenProperties
  <1>8. Kept
    BY <1>6, <1>7 DEF Kept, RosterInv
  <1>9. Doubtful(v.sheet, v.at)'
    BY <1>1, <1>2, <1>3, <1>8, SuspicionsAreDoubts, RosterStays
  <1>10. Flagged(row)'
    BY <1>5, <1>7 DEF Flagged
  <1>11. PICK q : q = [v EXCEPT !.at = @ + 1]
    OBVIOUS
  <1>12. q = [v EXCEPT !.step = "row", !.at = v.at + 1, !.client = v.client,
                       !.numbers = v.numbers, !.pins = v.pins]
    BY <1>2, <1>3, <1>11 DEF IsClerk, ClerkOK
  <1>13. ClerkOK(q)'
    BY <1>2, <1>3, <1>8, <1>10, <1>12, NextRowTaken
  <1>14. Takes(c, q)
    BY <1>1, <1>11, <1>13 DEF FlagRow, Moves, Takes
  <1>15. \A k \in DOMAIN issues' : \E s \in DOMAIN Sheets : \E i \in DOMAIN RowsOfSheet(s) :
            issues'[k].row = Cells(s, i) /\ Doubtful(s, i)'
    <2>1. \E s \in DOMAIN Sheets : \E i \in DOMAIN RowsOfSheet(s) :
             issues'[Len(issues) + 1].row = Cells(s, i) /\ Doubtful(s, i)'
      BY <1>2, <1>3, <1>5, <1>7, <1>9
    <2>2. QED
      BY <1>7, <1>8, <2>1, IssuesKept
  <1>16. \A s \in uploaded' : s \in DOMAIN Sheets /\ \A i \in DOMAIN RowsOfSheet(s) :
            Numbered(Cells(s, i).policyNo)' \/ Flagged(Cells(s, i))'
    BY <1>6, <1>8, UploadedKept
  <1>17. QED
    BY <1>7, <1>8, <1>14, <1>15, <1>16, ClerksKept, SerialIsBoolean, PoliciesKept
    DEF RosterInv

\* The client has no say in the numbers: a clerk that is not importing has
\* nothing to answer for, and one that takes a client has the row before it.
LEMMA TakeClientStep ==
    ASSUME RosterInv, RosterNext, NEW c \in Clerks, TakeClient(c)
    PROVE  RosterInv'
  <1>1. PICK v, row : v = clerk[c] /\ row = Row(c)
    OBVIOUS
  <1>2. /\ v.step \in Importing /\ v.at \in DOMAIN RowsOfSheet(v.sheet)
        /\ ~Suspicious(c, row)
    BY <1>1 DEF TakeClient, ClerkAt, Importing
  <1>3. ClerkOK(v) /\ row = Cells(v.sheet, v.at)
    BY <1>1, <1>2, RowRead
  <1>4. row.policyNo # NoNumber
    BY <1>1, <1>2, <1>3, SuspicionsAreDoubts
  <1>5. UNCHANGED <<rosterPolicies, issues, uploaded>>
    BY DEF TakeClient
  <1>6. Kept
    BY <1>5 DEF Kept, RosterInv
  <1>7. PICK client, families :
           clerk' = [clerk EXCEPT ![c] =
                       [v EXCEPT !.step = "policy", !.client = client, !.families = families]]
    BY <1>1, Zenon DEF TakeClient, Moves
  <1>8. PICK q : /\ q = [v EXCEPT !.step = "policy", !.client = client, !.families = families]
                 /\ clerk' = [clerk EXCEPT ![c] = q]
    BY <1>7
  <1>9. /\ IsClerk(q) /\ q.step = "policy" /\ q.sheet = v.sheet /\ q.at = v.at
        /\ q.numbers = v.numbers /\ q.pins = v.pins /\ q.pending = v.pending
    BY <1>3, <1>8 DEF ClerkOK, IsClerk
  <1>10. ClerkOK(v)'
    BY <1>3, <1>6, ClerkKept
  <1>11. ClerkOK(q)'
    BY <1>2, <1>3, <1>4, <1>9, <1>10 DEF ClerkOK, Importing
  <1>12. Takes(c, q)
    BY <1>8, <1>11 DEF Takes
  <1>13. QED
    BY <1>5, <1>6, <1>12, TurnTaken DEF RosterInv

\* A clerk that imports nothing answers for nothing.
LEMMA AwayTaken ==
    ASSUME NEW q, IsClerk(q), q.step \notin Importing
    PROVE  ClerkOK(q) /\ ClerkOK(q)'
  BY DEF ClerkOK, Importing
LEMMA AwayIsFree == IsClerk(Away) /\ Away.step = "idle" /\ Away.step \notin Importing
  BY DEF Away, IsClerk, Importing

LEMMA SaveRosterPolicyStep ==
    ASSUME RosterInv, RosterNext, NEW c \in Clerks, SaveRosterPolicy(c)
    PROVE  RosterInv'
  <1>1. PICK v, row : v = clerk[c] /\ row = Row(c)
    OBVIOUS
  <1>2. v.step \in Importing /\ v.step = "policy"
    BY <1>1 DEF SaveRosterPolicy, ClerkAt, Importing
  <1>3. /\ ClerkOK(v) /\ row = Cells(v.sheet, v.at)
        /\ v.at \in DOMAIN RowsOfSheet(v.sheet) /\ row.policyNo # NoNumber
    <2>1. ClerkOK(v) /\ row = Cells(v.sheet, v.at)
      BY <1>1, <1>2, RowRead
    <2>2. QED
      BY <1>2, <2>1 DEF ClerkOK
  <1>4. UNCHANGED <<issues, uploaded>>
    BY DEF SaveRosterPolicy
  <1>5. CASE Taken(row.policyNo)
    <2>1. Moves(c, Away) /\ UNCHANGED rosterPolicies
      BY <1>1, <1>5 DEF SaveRosterPolicy
    <2>2. Kept
      BY <1>4, <2>1 DEF Kept, RosterInv
    <2>3. Takes(c, Away)
      BY <2>1, AwayTaken, AwayIsFree DEF Moves, Takes
    <2>4. QED
      BY <1>4, <2>2, <2>3, TurnTaken DEF RosterInv
  <1>6. CASE ~Taken(row.policyNo)
    <2>1. PICK p : p = [policyNo |-> row.policyNo, pincode |-> row.pincode,
                        client |-> v.client, sheet |-> v.sheet, at |-> v.at]
      OBVIOUS
    <2>2. rosterPolicies' = rosterPolicies \union {p}
      BY <1>1, <1>6, <2>1 DEF SaveRosterPolicy, NewPolicy
    <2>3. p.policyNo = row.policyNo /\ p.pincode = row.pincode
      BY <2>1
    <2>4. Kept
      BY <1>4, <2>1, <2>2 DEF Kept, RosterInv, IsRosterPolicy
    <2>5. Numbered(row.policyNo)' /\ Pinned(row.pincode)'
      BY <1>3, <2>2, <2>3 DEF Numbered, Pinned
    <2>6. PICK numbers, pins : /\ numbers = v.numbers \union {row.policyNo}
                               /\ pins = v.pins \union ({row.pincode} \ {NoPin})
      OBVIOUS
    <2>7. PICK q : q = [v EXCEPT !.step = "row", !.at = v.at + 1, !.client = 0,
                                 !.numbers = numbers, !.pins = pins]
      OBVIOUS
    <2>8. clerk' = [clerk EXCEPT ![c] = q]
      <3>1. clerk' = [clerk EXCEPT ![c] =
                        [v EXCEPT !.step = "row", !.at = @ + 1, !.client = 0,
                           !.numbers = @ \union {row.policyNo},
                           !.pins = @ \union ({row.pincode} \ {NoPin})]]
        BY <1>1, <1>6 DEF SaveRosterPolicy, Moves
      <3>2. IsClerk(v)
        BY <1>3 DEF ClerkOK
      <3>3. QED
        BY <2>6, <2>7, <3>1, <3>2 DEF IsClerk
    <2>9. \A no \in numbers \ v.numbers : \E r \in rosterPolicies' : r.policyNo = no
      BY <2>2, <2>3, <2>6
    <2>10. \A pin \in pins \ v.pins : pin # NoPin /\ Pinned(pin)'
      BY <2>5, <2>6
    <2>11. Numbered(Cells(v.sheet, v.at).policyNo)'
      BY <1>3, <2>5
    <2>12. ClerkOK(q)'
      BY <1>2, <1>3, <2>4, <2>7, <2>9, <2>10, <2>11, NextRowTaken
    <2>13. Takes(c, q)
      BY <2>8, <2>12 DEF Takes
    <2>14. QED
      BY <1>4, <2>4, <2>13, TurnTaken DEF RosterInv
  <1>7. QED
    BY <1>5, <1>6

LEMMA EndImportStep ==
    ASSUME RosterInv, RosterNext, NEW c \in Clerks, EndImport(c)
    PROVE  RosterInv'
  <1>1. PICK v : v = clerk[c]
    OBVIOUS
  <1>2. v.step = "row" /\ v.step \in Importing /\ v.at \notin DOMAIN RowsOfSheet(v.sheet)
    BY <1>1 DEF EndImport, ClerkAt, Importing
  <1>3. ClerkOK(v) /\ v.sheet \in DOMAIN Sheets /\ v.at \in Nat \ {0}
    BY <1>1, <1>2, RowRead
  <1>4. /\ UNCHANGED <<rosterPolicies, issues>> /\ uploaded' = uploaded \union {v.sheet}
        /\ Moves(c, Away)
    BY <1>1 DEF EndImport
  <1>5. Kept
    BY <1>4 DEF Kept, RosterInv
  <1>6. Takes(c, Away)
    BY <1>4, AwayTaken, AwayIsFree DEF Moves, Takes
  <1>7. \A i \in DOMAIN RowsOfSheet(v.sheet) : i < v.at
    BY <1>2, <1>3, RowsOfSheetCounted
  <1>8. \A i \in DOMAIN RowsOfSheet(v.sheet) :
           Numbered(Cells(v.sheet, i).policyNo)' \/ Flagged(Cells(v.sheet, i))'
    <2>1. \A i \in DOMAIN RowsOfSheet(v.sheet) :
             Numbered(Cells(v.sheet, i).policyNo) \/ Flagged(Cells(v.sheet, i))
      BY <1>2, <1>3, <1>7 DEF ClerkOK
    <2>2. QED
      BY <1>5, <2>1, RosterStays
  <1>9. \A s \in uploaded' : s \in DOMAIN Sheets /\ \A i \in DOMAIN RowsOfSheet(s) :
            Numbered(Cells(s, i).policyNo)' \/ Flagged(Cells(s, i))'
    BY <1>3, <1>4, <1>5, <1>8, UploadedKept
  <1>10. issues' \in Seq(IssueRow) /\ DOMAIN issues' = DOMAIN issues
    BY <1>4 DEF RosterInv
  <1>11. QED
    BY <1>5, <1>6, <1>9, <1>10, ClerksKept, IssuesKept, SerialIsBoolean, PoliciesKept DEF RosterInv
-------------------------------------------------------------------------------
(* The steps of the review.                                                 *)

LEMMA ResolveIssueStep ==
    ASSUME RosterInv, RosterNext, NEW c \in Clerks, NEW i \in DOMAIN issues, NEW no \in FixNumbers,
           ResolveIssue(c, i, no)
    PROVE  RosterInv'
  <1>1. UNCHANGED <<rosterPolicies, issues, uploaded>>
    BY DEF ResolveIssue
  <1>2. Kept
    BY <1>1 DEF Kept, RosterInv
  <1>3. PICK q : q = [Away EXCEPT !.step = "fixed policy", !.issue = i, !.fix = no,
                                  !.client = rosterClients + 1]
    OBVIOUS
  <1>4. IsClerk(q) /\ q.step \notin Importing
    BY <1>3 DEF Away, IsClerk, Importing
  <1>5. Takes(c, q)
    BY <1>3, <1>4, AwayTaken DEF ResolveIssue, Moves, Takes
  <1>6. QED
    BY <1>1, <1>2, <1>5, TurnTaken DEF RosterInv

LEMMA SaveFixedPolicyStep ==
    ASSUME RosterInv, RosterNext, NEW c \in Clerks, SaveFixedPolicy(c)
    PROVE  RosterInv'
  <1>1. UNCHANGED <<issues, uploaded>> /\ clerk[c].step = "fixed policy"
    BY DEF SaveFixedPolicy, ClerkAt
  <1>2. Kept
    <2>1. CASE UNCHANGED rosterPolicies
      BY <1>1, <2>1 DEF Kept, RosterInv
    <2>2. CASE \E no, pincode, client, sheet, at : NewPolicy(no, pincode, client, sheet, at)
      <3>1. PICK no, pincode, client, sheet, at : NewPolicy(no, pincode, client, sheet, at)
        BY <2>2
      <3>2. PICK p : p = [policyNo |-> no, pincode |-> pincode, client |-> client,
                          sheet |-> sheet, at |-> at]
        OBVIOUS
      <3>3. IsRosterPolicy(p) /\ rosterPolicies' = rosterPolicies \union {p}
        BY <3>1, <3>2 DEF NewPolicy, IsRosterPolicy
      <3>4. QED
        BY <1>1, <3>3 DEF Kept, RosterInv
    <2>3. QED
      BY <2>1, <2>2 DEF SaveFixedPolicy
  <1>3. PICK q : clerk' = [clerk EXCEPT ![c] = q]
                 /\ (q = Away \/ q = [clerk[c] EXCEPT !.step = "close", !.client = 0])
    BY DEF SaveFixedPolicy, Moves
  <1>4. IsClerk(clerk[c])
    BY DEF RosterInv, ClerkOK
  <1>5. IsClerk(q) /\ q.step \notin Importing
    BY <1>3, <1>4, AwayIsFree DEF IsClerk, Importing
  <1>6. Takes(c, q)
    BY <1>3, <1>5, AwayTaken DEF Takes
  <1>7. QED
    BY <1>1, <1>2, <1>6, TurnTaken DEF RosterInv

\* A policy keeps its number, and the pincode it has.
LEMMA LinkIssueKeeps ==
    ASSUME RosterInv, NEW c, NEW i, LinkIssue(c, i)
    PROVE  Kept
  <1>1. UNCHANGED <<issues>>
    BY DEF LinkIssue
  <1>2. PICK no \in FixNumbers : \E p \in FindByNumber(no) :
          rosterPolicies' = (rosterPolicies \ {p}) \union
             {[p EXCEPT !.pincode = IF @ = NoPin THEN issues[i].row.pincode ELSE @]}
    BY DEF LinkIssue
  <1>3. PICK p \in FindByNumber(no) :
          rosterPolicies' = (rosterPolicies \ {p}) \union
             {[p EXCEPT !.pincode = IF @ = NoPin THEN issues[i].row.pincode ELSE @]}
    BY <1>2
  <1>4. PICK r : r = [p EXCEPT !.pincode = IF @ = NoPin THEN issues[i].row.pincode ELSE @]
    OBVIOUS
  <1>5. /\ IsRosterPolicy(r) /\ r.policyNo = p.policyNo
        /\ p.pincode # NoPin => r.pincode = p.pincode
    <2>1. IsRosterPolicy(p)
      BY DEF FindByNumber, RosterInv
    <2>2. r = [policyNo |-> p.policyNo,
               pincode |-> IF p.pincode = NoPin THEN issues[i].row.pincode ELSE p.pincode,
               client |-> p.client, sheet |-> p.sheet, at |-> p.at]
      BY <1>4, <2>1 DEF IsRosterPolicy
    <2>3. QED
      BY <2>2 DEF IsRosterPolicy
  <1>6. QED
    BY <1>1, <1>3, <1>4, <1>5 DEF Kept, RosterInv
LEMMA LinkIssueStep ==
    ASSUME RosterInv, RosterNext, NEW c \in Clerks, NEW i \in DOMAIN issues, LinkIssue(c, i)
    PROVE  RosterInv'
  <1>1. UNCHANGED <<issues, uploaded>>
    BY DEF LinkIssue
  <1>2. Kept
    BY LinkIssueKeeps
  <1>3. PICK q : q = [Away EXCEPT !.step = "close", !.issue = i]
    OBVIOUS
  <1>4. IsClerk(q) /\ q.step \notin Importing
    BY <1>3 DEF Away, IsClerk, Importing
  <1>5. Takes(c, q)
    BY <1>3, <1>4, AwayTaken DEF LinkIssue, Moves, Takes
  <1>6. QED
    BY <1>1, <1>2, <1>5, TurnTaken DEF RosterInv

LEMMA StatusSet ==
    ASSUME RosterInv, NEW i, NEW status \in {"Resolved", "Dismissed"}, SetIssue(i, status),
           UNCHANGED rosterPolicies
    PROVE  issues' \in Seq(IssueRow) /\ DOMAIN issues' = DOMAIN issues /\ Kept
  <1>1. issues \in Seq(IssueRow)
    BY DEF RosterInv
  <1>2. issues' = [issues EXCEPT ![i].status = status]
    BY DEF SetIssue
  <1>3. DOMAIN issues' = DOMAIN issues
    BY <1>2
  <1>4. \A k \in DOMAIN issues : issues'[k] \in IssueRow /\ issues'[k].row = issues[k].row
    <2>1. \A k \in DOMAIN issues : issues[k] \in IssueRow
      BY <1>1, ElementOfSeq, LenProperties
    <2>2. QED
      BY <1>2, <2>1 DEF IssueRow
  <1>5. issues' \in Seq(IssueRow)
    <2>1. CASE i \in DOMAIN issues
      <3>1. PICK issue : issue = [issues[i] EXCEPT !.status = status]
        OBVIOUS
      <3>2. issues' = [issues EXCEPT ![i] = issue]
        BY <1>2, <3>1
      <3>3. issue \in IssueRow
        BY <1>3, <1>4, <2>1, <3>2
      <3>4. QED
        BY <1>1, <2>1, <3>2, <3>3, ExceptSeq, LenProperties
    <2>2. CASE i \notin DOMAIN issues
      <3>1. issues' = issues
        BY <1>1, <1>2, <2>2
      <3>2. QED
        BY <1>1, <3>1
    <2>3. QED
      BY <2>1, <2>2
  <1>6. QED
    BY <1>3, <1>4, <1>5 DEF Kept, RosterInv
LEMMA CloseIssueStep ==
    ASSUME RosterInv, RosterNext, NEW c \in Clerks, CloseIssue(c)
    PROVE  RosterInv'
  <1>1. /\ UNCHANGED <<rosterPolicies, uploaded>> /\ Moves(c, Away)
        /\ \E i : SetIssue(i, "Resolved")
    BY DEF CloseIssue
  <1>2. issues' \in Seq(IssueRow) /\ DOMAIN issues' = DOMAIN issues /\ Kept
    BY <1>1, StatusSet
  <1>3. Takes(c, Away)
    BY <1>1, AwayTaken, AwayIsFree DEF Moves, Takes
  <1>4. QED
    BY <1>1, <1>2, <1>3, TurnTaken

LEMMA ClerksStay ==
    ASSUME RosterInv, RosterNext, Kept, UNCHANGED uploaded,
           issues' \in Seq(IssueRow), DOMAIN issues' = DOMAIN issues,
           clerk' = [c \in Clerks |-> clerk'[c]],
           \A c \in Clerks : ClerkOK(clerk'[c]) \/ clerk'[c] = Away
    PROVE  RosterInv'
  <1>1. \A c \in Clerks : ClerkOK(clerk[c])'
    <2>1. ASSUME NEW c \in Clerks PROVE ClerkOK(clerk[c])'
      <3>1. PICK v : v = clerk'[c]
        OBVIOUS
      <3>2. ClerkOK(v) \/ v = Away
        BY <3>1
      <3>3. ClerkOK(v)'
        BY <3>2, ClerkKept, AwayTaken, AwayIsFree
      <3>4. QED
        BY <3>1, <3>3
    <2>2. QED
      BY <2>1
  <1>2. QED
    BY <1>1, IssuesKept, UploadedKept, SerialIsBoolean, PoliciesKept DEF RosterInv
LEMMA DismissIssueStep ==
    ASSUME RosterInv, RosterNext, NEW c \in Clerks, NEW i \in DOMAIN issues, DismissIssue(c, i)
    PROVE  RosterInv'
  <1>1. UNCHANGED <<rosterPolicies, uploaded, clerk>> /\ SetIssue(i, "Dismissed")
    BY DEF DismissIssue
  <1>2. issues' \in Seq(IssueRow) /\ DOMAIN issues' = DOMAIN issues /\ Kept
    BY <1>1, StatusSet
  <1>3. clerk' = [d \in Clerks |-> clerk'[d]] /\ \A d \in Clerks : ClerkOK(clerk'[d])
    BY <1>1 DEF RosterInv
  <1>4. QED
    BY <1>1, <1>2, <1>3, ClerksStay
LEMMA RosterRestartStep ==
    ASSUME RosterInv, RosterNext, RosterRestart
    PROVE  RosterInv'
  <1>1. UNCHANGED <<rosterPolicies, issues, uploaded>> /\ clerk' = [c \in Clerks |-> Away]
    BY DEF RosterRestart
  <1>2. Kept /\ issues' \in Seq(IssueRow) /\ DOMAIN issues' = DOMAIN issues
    BY <1>1 DEF Kept, RosterInv
  <1>3. clerk' = [d \in Clerks |-> clerk'[d]] /\ \A d \in Clerks : clerk'[d] = Away
    BY <1>1
  <1>4. QED
    BY <1>1, <1>2, <1>3, ClerksStay

LEMMA RosterStarts ==
    ASSUME RosterInit
    PROVE  RosterInv
  <1>1. issues \in Seq(IssueRow) /\ DOMAIN issues = {}
    BY EmptySeq DEF RosterInit
  <1>2. clerk = [c \in Clerks |-> clerk[c]] /\ \A c \in Clerks : ClerkOK(clerk[c])
    <2>1. clerk = [c \in Clerks |-> Away]
      BY DEF RosterInit
    <2>2. ClerkOK(Away)
      BY AwayTaken, AwayIsFree
    <2>3. QED
      BY <2>1, <2>2
  <1>3. rosterPolicies = {} /\ uploaded = {} /\ serial \in BOOLEAN
    BY DEF RosterInit
  <1>4. QED
    BY <1>1, <1>2, <1>3 DEF RosterInv
LEMMA RosterPauses ==
    ASSUME RosterInv, UNCHANGED rosterVars
    PROVE  RosterInv'
  BY DEF RosterInv, ClerkOK, rosterVars, Numbered, Flagged, Doubtful, Pinned
LEMMA RosterSteps ==
    ASSUME RosterInv, RosterNext
    PROVE  RosterInv'
  <1>1. ASSUME NEW c \in Clerks, NEW s \in DOMAIN Sheets, StartImport(c, s) PROVE RosterInv'
    BY <1>1, StartImportStep
  <1>2. ASSUME NEW c \in Clerks,
               SkipRow(c) \/ FlagRow(c) \/ TakeClient(c) \/ SaveRosterPolicy(c) \/ EndImport(c)
        PROVE  RosterInv'
    BY <1>2, SkipRowStep, FlagRowStep, TakeClientStep, SaveRosterPolicyStep, EndImportStep
  <1>3. ASSUME NEW c \in Clerks, SaveFixedPolicy(c) \/ CloseIssue(c) PROVE RosterInv'
    BY <1>3, SaveFixedPolicyStep, CloseIssueStep
  <1>4. ASSUME NEW c \in Clerks, NEW i \in DOMAIN issues,
               \/ \E no \in FixNumbers : ResolveIssue(c, i, no)
               \/ LinkIssue(c, i) \/ DismissIssue(c, i)
        PROVE  RosterInv'
    BY <1>4, ResolveIssueStep, LinkIssueStep, DismissIssueStep
  <1>5. CASE RosterRestart
    BY <1>5, RosterRestartStep
  <1>6. QED
    BY <1>1, <1>2, <1>3, <1>4, <1>5 DEF RosterNext

\* With requests in any order, with restarts and repeated uploads, no row of a
\* sheet whose upload ended is lost: it is a policy or an issue.
THEOREM RosterInvariant == RosterSpec => []RosterInv
  <1>1. RosterInit => RosterInv
    BY RosterStarts
  <1>2. RosterInv /\ [RosterNext]_rosterVars => RosterInv'
    BY RosterSteps, RosterPauses
  <1>3. QED
    BY <1>1, <1>2, PTL DEF RosterSpec
-------------------------------------------------------------------------------
(* One request after the other.                                             *)

OnceEach ==
    \A p, q \in rosterPolicies : p # q => normalizePolicyNo(p.policyNo) # normalizePolicyNo(q.policyNo)
\* What a clerk on its own knows of every policy there is.
TurnOK(q) ==
    /\ q.step \in Importing =>
         /\ \A p \in rosterPolicies :
              \/ normalizePolicyNo(p.policyNo) \in q.numbers
              \/ \E k \in DOMAIN RowsOfSheet(q.sheet) :
                   k < q.at /\ Cells(q.sheet, k).policyNo = p.policyNo
         /\ \A p \in rosterPolicies : p.pincode = NoPin \/ p.pincode \in q.pins
    /\ q.step = "policy" =>
         /\ normalizePolicyNo(Cells(q.sheet, q.at).policyNo) \notin q.numbers
         /\ ~Doubtful(q.sheet, q.at)
    /\ q.step = "fixed policy" =>
         \A p \in rosterPolicies : normalizePolicyNo(p.policyNo) # normalizePolicyNo(q.fix)
SerialInv ==
    serial =>
        /\ \A c, d \in Clerks : clerk[c].step # "idle" /\ clerk[d].step # "idle" => c = d
        /\ OnceEach
        /\ \A c \in Clerks : TurnOK(clerk[c])

\* While one clerk works, or begins or ends to, the others do not.
LEMMA OneTurn ==
    ASSUME RosterInv, SerialInv, RosterNext, serial', NEW c \in Clerks, NEW q,
           clerk' = [clerk EXCEPT ![c] = q], clerk[c].step # "idle" \/ q.step # "idle"
    PROVE  /\ serial /\ OnceEach /\ TurnOK(clerk[c]) /\ clerk'[c] = q
           /\ \A d \in Clerks : d # c => clerk'[d] = clerk[d] /\ clerk[d].step = "idle"
  <1>1. serial
    BY DEF RosterNext
  <1>2. clerk'[c] = q /\ \A d \in Clerks : d # c => clerk'[d] = clerk[d]
    BY DEF RosterInv
  <1>3. \A d \in Clerks : d # c => clerk[d].step = "idle"
    <2>1. CASE clerk[c].step # "idle"
      BY <1>1, <2>1 DEF SerialInv
    <2>2. CASE q.step # "idle"
      <3>1. PICK W : W = {d \in Clerks : clerk'[d].step # "idle"}
        OBVIOUS
      <3>2. IsFiniteSet(W) /\ Cardinality(W) <= 1
        BY <3>1, RosterAssumption, FS_Subset DEF RosterNext, RosterAssumption
      <3>3. c \in W
        BY <1>2, <2>2, <3>1
      <3>4. \A d \in W : d = c
        BY <3>2, <3>3, NoTwoRequests
      <3>5. QED
        BY <1>2, <3>1, <3>4
    <2>3. QED
      BY <2>1, <2>2
  <1>4. QED
    BY <1>1, <1>2, <1>3 DEF SerialInv
LEMMA TurnEnds ==
    ASSUME NEW q, q.step \notin Importing, q.step # "fixed policy"
    PROVE  TurnOK(q)'
  BY DEF TurnOK, Importing
LEMMA TurnsTaken ==
    ASSUME RosterInv, SerialInv, RosterNext, NEW c \in Clerks, NEW q,
           clerk' = [clerk EXCEPT ![c] = q], clerk[c].step # "idle" \/ q.step # "idle",
           serial => OnceEach' /\ TurnOK(q)'
    PROVE  SerialInv'
  <1> SUFFICES ASSUME serial' PROVE SerialInv'
    BY DEF SerialInv
  <1>1. /\ serial /\ clerk'[c] = q
        /\ \A d \in Clerks : d # c => clerk'[d] = clerk[d] /\ clerk[d].step = "idle"
    BY OneTurn
  <1>2. \A d \in Clerks : TurnOK(clerk[d])'
    <2>1. ASSUME NEW d \in Clerks PROVE TurnOK(clerk[d])'
      <3>1. PICK v : v = clerk'[d]
        OBVIOUS
      <3>2. d # c => v.step \notin Importing /\ v.step # "fixed policy"
        BY <1>1, <3>1 DEF Importing
      <3>3. TurnOK(v)'
        BY <1>1, <3>1, <3>2, TurnEnds
      <3>4. QED
        BY <3>1, <3>3
    <2>2. QED
      BY <2>1
  <1>3. QED
    BY <1>1, <1>2 DEF SerialInv
\* A step that leaves the policies alone.
LEMMA TurnMoves ==
    ASSUME RosterInv, SerialInv, RosterNext, NEW c \in Clerks, NEW q, UNCHANGED rosterPolicies,
           clerk' = [clerk EXCEPT ![c] = q], clerk[c].step # "idle" \/ q.step # "idle",
           serial /\ TurnOK(clerk[c]) => TurnOK(q)
    PROVE  SerialInv'
  <1>1. serial => OnceEach /\ TurnOK(q)
    BY DEF SerialInv
  <1>2. serial => OnceEach' /\ TurnOK(q)'
    BY <1>1 DEF OnceEach, TurnOK, Doubtful, Pinned
  <1>3. QED
    BY <1>2, TurnsTaken
LEMMA TurnsEnd ==
    ASSUME RosterInv, SerialInv, RosterNext, NEW c \in Clerks, UNCHANGED rosterPolicies,
           clerk[c].step # "idle", Moves(c, Away)
    PROVE  SerialInv'
  <1>1. clerk' = [clerk EXCEPT ![c] = Away]
    BY DEF Moves
  <1>2. serial => OnceEach' /\ TurnOK(Away)'
    BY TurnEnds, AwayIsFree DEF SerialInv, OnceEach
  <1>3. QED
    BY <1>1, <1>2, TurnsTaken

LEMMA StartImportTurn ==
    ASSUME RosterInv, SerialInv, RosterNext, NEW c \in Clerks, NEW s \in DOMAIN Sheets,
           StartImport(c, s)
    PROVE  SerialInv'
  <1>1. PICK q : q = [Away EXCEPT !.step = "row", !.sheet = s, !.at = 1,
          !.numbers = {normalizePolicyNo(p.policyNo) : p \in rosterPolicies},
          !.pins = {p.pincode : p \in rosterPolicies} \ {NoPin},
          !.pending = {Fingerprint(issues[i].row) :
                         i \in {j \in DOMAIN issues : issues[j].status = "Pending"}}]
    OBVIOUS
  <1>2. /\ q.step = "row"
        /\ q.numbers = {normalizePolicyNo(p.policyNo) : p \in rosterPolicies}
        /\ q.pins = {p.pincode : p \in rosterPolicies} \ {NoPin}
    BY <1>1 DEF Away
  <1>3. TurnOK(q)
    BY <1>2 DEF TurnOK
  <1>4. clerk' = [clerk EXCEPT ![c] = q] /\ UNCHANGED rosterPolicies
    BY <1>1 DEF StartImport, Moves
  <1>5. QED
    BY <1>2, <1>3, <1>4, TurnMoves

LEMMA RowPassed ==
    ASSUME RosterInv, SerialInv, RosterNext, NEW c \in Clerks, clerk[c].step = "row",
           Moves(c, [clerk[c] EXCEPT !.at = @ + 1]), UNCHANGED rosterPolicies
    PROVE  SerialInv'
  <1>1. PICK v : v = clerk[c]
    OBVIOUS
  <1>2. ClerkOK(v) /\ v.at \in Nat /\ v.step = "row" /\ v.sheet \in DOMAIN Sheets
    BY <1>1, RowRead DEF Importing
  <1>3. PICK q : q = [v EXCEPT !.at = @ + 1]
    OBVIOUS
  <1>4. /\ q.step = "row" /\ q.sheet = v.sheet /\ q.at = v.at + 1 /\ q.numbers = v.numbers
        /\ q.pins = v.pins
    BY <1>2, <1>3 DEF ClerkOK, IsClerk
  <1>5. \A k \in DOMAIN RowsOfSheet(v.sheet) : k < v.at => k < q.at
    BY <1>2, <1>4, RowsOfSheetCounted
  <1>6. TurnOK(v) => TurnOK(q)
    BY <1>2, <1>4, <1>5 DEF TurnOK
  <1>7. clerk' = [clerk EXCEPT ![c] = q]
    BY <1>1, <1>3 DEF Moves
  <1>8. QED
    BY <1>1, <1>2, <1>6, <1>7, TurnMoves

LEMMA TakeClientTurn ==
    ASSUME RosterInv, SerialInv, RosterNext, NEW c \in Clerks, TakeClient(c)
    PROVE  SerialInv'
  <1>1. PICK v, row : v = clerk[c] /\ row = Row(c)
    OBVIOUS
  <1>2. /\ v.step = "row" /\ v.step \in Importing /\ v.at \in DOMAIN RowsOfSheet(v.sheet)
        /\ ~Suspicious(c, row) /\ ~Known(c, row)
    BY <1>1 DEF TakeClient, ClerkAt, Importing, Skipped
  <1>3. ClerkOK(v) /\ row = Cells(v.sheet, v.at)
    BY <1>1, <1>2, RowRead
  <1>4. PICK client, families : clerk' = [clerk EXCEPT ![c] =
           [v EXCEPT !.step = "policy", !.client = client, !.families = families]]
    BY <1>1 DEF TakeClient, Moves
  <1>5. PICK q : q = [v EXCEPT !.step = "policy", !.client = client, !.families = families]
    OBVIOUS
  <1>6. /\ q.step = "policy" /\ q.sheet = v.sheet /\ q.at = v.at
        /\ q.numbers = v.numbers /\ q.pins = v.pins
    BY <1>3, <1>5 DEF ClerkOK, IsClerk
  <1>7. TurnOK(v) => ~Doubtful(v.sheet, v.at)
    <2>1. TurnOK(v) /\ row.pincode # NoPin /\ Pinned(row.pincode) => row.pincode \in v.pins
      BY <1>2 DEF TurnOK, Pinned
    <2>2. QED
      BY <1>1, <1>2, <1>3, <2>1 DEF Suspicious, Doubtful, Times, Twice
  <1>8. normalizePolicyNo(row.policyNo) \notin v.numbers
    BY <1>1, <1>2 DEF Known, Suspicious
  <1>9. TurnOK(v) => TurnOK(q)
    BY <1>2, <1>3, <1>6, <1>7, <1>8 DEF TurnOK, Importing
  <1>10. clerk' = [clerk EXCEPT ![c] = q] /\ UNCHANGED rosterPolicies
    BY <1>4, <1>5 DEF TakeClient
  <1>11. QED
    BY <1>1, <1>2, <1>9, <1>10, TurnMoves

\* The number of the row is no policy's: neither of one the clerk read nor of one
\* it made.
LEMMA NumberIsFree ==
    ASSUME SheetsInOrder, NEW v, ClerkOK(v), TurnOK(v), v.step = "policy", NEW p \in rosterPolicies
    PROVE  normalizePolicyNo(p.policyNo) # normalizePolicyNo(Cells(v.sheet, v.at).policyNo)
  <1>1. v.step \in Importing
    BY DEF Importing
  <1>2. v.sheet \in DOMAIN Sheets /\ v.at \in DOMAIN RowsOfSheet(v.sheet) /\ v.at \in Nat
    BY <1>1 DEF ClerkOK
  <1>3. CASE normalizePolicyNo(p.policyNo) \in v.numbers
    BY <1>3 DEF TurnOK
  <1>4. ASSUME NEW k \in DOMAIN RowsOfSheet(v.sheet), k < v.at,
               Cells(v.sheet, k).policyNo = p.policyNo
        PROVE  normalizePolicyNo(p.policyNo) # normalizePolicyNo(Cells(v.sheet, v.at).policyNo)
    <2>1. k # v.at
      BY <1>2, <1>4, RowsOfSheetCounted
    <2>2. ~Twice(v.sheet, "policyNo", Cells(v.sheet, v.at).policyNo)
      BY DEF TurnOK, Doubtful
    <2>3. Cells(v.sheet, k).policyNo # Cells(v.sheet, v.at).policyNo
      BY <1>2, <2>1, <2>2, TwoAreTwice
    <2>4. QED
      BY <1>2, <1>4, <2>3 DEF SheetsInOrder, Cells
  <1>5. QED
    BY <1>1, <1>3, <1>4 DEF TurnOK

\* What saving a policy does, when its number is free.
Saved(v, row, p) ==
    /\ p = [policyNo |-> row.policyNo, pincode |-> row.pincode, client |-> v.client,
            sheet |-> v.sheet, at |-> v.at]
    /\ rosterPolicies' = rosterPolicies \union {p}
LEMMA SaveRosterPolicyDone ==
    ASSUME RosterInv, NEW c \in Clerks, SaveRosterPolicy(c), NEW v, v = clerk[c],
           NEW row, row = Row(c), ~Taken(row.policyNo)
    PROVE  \E p, q : /\ Saved(v, row, p) /\ clerk' = [clerk EXCEPT ![c] = q]
                     /\ q.step = "row" /\ q.sheet = v.sheet /\ q.at = v.at + 1
                     /\ q.numbers = v.numbers \union {row.policyNo}
                     /\ q.pins = v.pins \union ({row.pincode} \ {NoPin})
                     /\ q.families = v.families
  <1>1. IsClerk(v)
    BY DEF RosterInv, ClerkOK
  <1>2. PICK q : q = [v EXCEPT !.step = "row", !.at = @ + 1, !.client = 0,
                        !.numbers = @ \union {row.policyNo},
                        !.pins = @ \union ({row.pincode} \ {NoPin})]
    OBVIOUS
  <1>3. clerk' = [clerk EXCEPT ![c] = q]
    BY <1>2 DEF SaveRosterPolicy, Moves
  <1>4. /\ q.step = "row" /\ q.sheet = v.sheet /\ q.at = v.at + 1
        /\ q.numbers = v.numbers \union {row.policyNo}
        /\ q.pins = v.pins \union ({row.pincode} \ {NoPin})
        /\ q.families = v.families
    BY <1>1, <1>2 DEF IsClerk
  <1>5. PICK p : Saved(v, row, p)
    BY DEF SaveRosterPolicy, NewPolicy, Saved
  <1>6. QED
    BY <1>3, <1>4, <1>5

LEMMA SaveRosterPolicyTurn ==
    ASSUME SheetsInOrder, RosterInv, SerialInv, RosterNext, NEW c \in Clerks, SaveRosterPolicy(c)
    PROVE  SerialInv'
  <1>1. PICK v, row : v = clerk[c] /\ row = Row(c)
    OBVIOUS
  <1>2. v.step = "policy" /\ v.step \in Importing
    BY <1>1 DEF SaveRosterPolicy, ClerkAt, Importing
  <1>3. ClerkOK(v) /\ row = Cells(v.sheet, v.at) /\ v.at \in Nat /\ v.sheet \in DOMAIN Sheets
    BY <1>1, <1>2, RowRead
  <1>4. CASE Taken(row.policyNo)
    <2>1. Moves(c, Away) /\ UNCHANGED rosterPolicies
      BY <1>1, <1>4 DEF SaveRosterPolicy
    <2>2. QED
      BY <1>1, <1>2, <2>1, TurnsEnd
  <1>5. CASE ~Taken(row.policyNo)
    <2>1. PICK p, q : /\ Saved(v, row, p) /\ clerk' = [clerk EXCEPT ![c] = q]
                      /\ q.step = "row" /\ q.sheet = v.sheet /\ q.at = v.at + 1
                      /\ q.numbers = v.numbers \union {row.policyNo}
                      /\ q.pins = v.pins \union ({row.pincode} \ {NoPin})
      BY <1>1, <1>5, SaveRosterPolicyDone
    <2>2. p.policyNo = row.policyNo /\ p.pincode = row.pincode
          /\ rosterPolicies' = rosterPolicies \union {p}
      BY <2>1 DEF Saved
    <2>3. ASSUME serial PROVE OnceEach' /\ TurnOK(q)'
      <3>1. OnceEach /\ TurnOK(v)
        BY <1>1, <2>3 DEF SerialInv
      <3>2. \A r \in rosterPolicies : normalizePolicyNo(r.policyNo) # normalizePolicyNo(p.policyNo)
        BY <1>2, <1>3, <2>2, <3>1, NumberIsFree
      <3>3. OnceEach'
        BY <2>2, <3>1, <3>2 DEF OnceEach
      <3>4. \A r \in rosterPolicies' :
              \/ normalizePolicyNo(r.policyNo) \in q.numbers
              \/ \E k \in DOMAIN RowsOfSheet(q.sheet) :
                   k < q.at /\ Cells(q.sheet, k).policyNo = r.policyNo
        <4>1. v.at \in DOMAIN RowsOfSheet(v.sheet)
          BY <1>2, <1>3 DEF ClerkOK
        <4>2. \A k \in DOMAIN RowsOfSheet(v.sheet) : k < v.at => k < q.at
          BY <1>3, <2>1, RowsOfSheetCounted
        <4>3. ASSUME NEW r \in rosterPolicies
              PROVE  \/ normalizePolicyNo(r.policyNo) \in q.numbers
                     \/ \E k \in DOMAIN RowsOfSheet(q.sheet) :
                          k < q.at /\ Cells(q.sheet, k).policyNo = r.policyNo
          BY <1>2, <2>1, <3>1, <4>2 DEF TurnOK
        <4>4. v.at < q.at
          BY <1>3, <2>1
        <4>5. QED
          BY <1>3, <2>1, <2>2, <4>1, <4>3, <4>4
      <3>5. \A r \in rosterPolicies' : r.pincode = NoPin \/ r.pincode \in q.pins
        BY <1>2, <2>1, <2>2, <3>1 DEF TurnOK
      <3>6. QED
        BY <2>1, <3>3, <3>4, <3>5 DEF TurnOK
    <2>4. QED
      BY <1>1, <1>2, <2>1, <2>3, TurnsTaken
  <1>6. QED
    BY <1>4, <1>5

LEMMA ResolveIssueTurn ==
    ASSUME RosterInv, SerialInv, RosterNext, NEW c \in Clerks, NEW i \in DOMAIN issues,
           NEW no \in FixNumbers, ResolveIssue(c, i, no)
    PROVE  SerialInv'
  <1>1. PICK q : q = [Away EXCEPT !.step = "fixed policy", !.issue = i, !.fix = no,
                                  !.client = rosterClients + 1]
    OBVIOUS
  <1>2. q.step = "fixed policy" /\ q.fix = no
    BY <1>1 DEF Away
  <1>3. TurnOK(q)
    BY <1>2 DEF TurnOK, ResolveIssue, FindByNumber, Importing
  <1>4. clerk' = [clerk EXCEPT ![c] = q] /\ UNCHANGED rosterPolicies
    BY <1>1 DEF ResolveIssue, Moves
  <1>5. QED
    BY <1>2, <1>3, <1>4, TurnMoves

LEMMA SaveFixedPolicyTurn ==
    ASSUME RosterInv, SerialInv, RosterNext, NEW c \in Clerks, SaveFixedPolicy(c)
    PROVE  SerialInv'
  <1>1. PICK v : v = clerk[c] /\ v.step = "fixed policy"
    BY DEF SaveFixedPolicy, ClerkAt
  <1>2. CASE Taken(v.fix)
    <2>1. Moves(c, Away) /\ UNCHANGED rosterPolicies
      BY <1>1, <1>2 DEF SaveFixedPolicy
    <2>2. QED
      BY <1>1, <2>1, TurnsEnd
  <1>3. CASE ~Taken(v.fix)
    <2>1. PICK q : q = [v EXCEPT !.step = "close", !.client = 0]
      OBVIOUS
    <2>2. IsClerk(v)
      BY <1>1 DEF RosterInv, ClerkOK
    <2>3. q.step = "close" /\ clerk' = [clerk EXCEPT ![c] = q]
      BY <1>1, <1>3, <2>1, <2>2 DEF SaveFixedPolicy, Moves, IsClerk
    <2>4. PICK p : p.policyNo = v.fix /\ rosterPolicies' = rosterPolicies \union {p}
      BY <1>1, <1>3 DEF SaveFixedPolicy, NewPolicy
    <2>5. serial => OnceEach'
      <3>1. serial => OnceEach /\ TurnOK(v)
        BY <1>1 DEF SerialInv
      <3>2. serial => \A r \in rosterPolicies :
                        normalizePolicyNo(r.policyNo) # normalizePolicyNo(p.policyNo)
        BY <1>1, <2>4, <3>1 DEF TurnOK
      <3>3. QED
        BY <2>4, <3>1, <3>2 DEF OnceEach
    <2>6. TurnOK(q)'
      BY <2>3, TurnEnds DEF Importing
    <2>7. QED
      BY <1>1, <2>3, <2>5, <2>6, TurnsTaken
  <1>4. QED
    BY <1>2, <1>3

\* The policy that is linked: all as before, but for the pincode of one.
Linked(p, r) ==
    /\ p \in rosterPolicies /\ rosterPolicies' = (rosterPolicies \ {p}) \union {r}
    /\ r.policyNo = p.policyNo /\ r.client = p.client /\ r.sheet = p.sheet /\ r.at = p.at
LEMMA LinkIssueDone ==
    ASSUME RosterInv, NEW c, NEW i, LinkIssue(c, i)
    PROVE  \E p, r : Linked(p, r)
  <1>1. PICK no \in FixNumbers : \E p \in FindByNumber(no) :
          rosterPolicies' = (rosterPolicies \ {p}) \union
             {[p EXCEPT !.pincode = IF @ = NoPin THEN issues[i].row.pincode ELSE @]}
    BY DEF LinkIssue
  <1>2. PICK p \in FindByNumber(no) :
          rosterPolicies' = (rosterPolicies \ {p}) \union
             {[p EXCEPT !.pincode = IF @ = NoPin THEN issues[i].row.pincode ELSE @]}
    BY <1>1
  <1>3. PICK r : r = [p EXCEPT !.pincode = IF @ = NoPin THEN issues[i].row.pincode ELSE @]
    OBVIOUS
  <1>4. p \in rosterPolicies
    BY DEF FindByNumber
  <1>5. r.policyNo = p.policyNo /\ r.client = p.client /\ r.sheet = p.sheet /\ r.at = p.at
    BY <1>3
  <1>6. QED
    BY <1>2, <1>3, <1>4, <1>5 DEF Linked

LEMMA LinkIssueTurn ==
    ASSUME RosterInv, SerialInv, RosterNext, NEW c \in Clerks, NEW i \in DOMAIN issues,
           LinkIssue(c, i)
    PROVE  SerialInv'
  <1>1. PICK p, r : Linked(p, r)
    BY LinkIssueDone
  <1>2. PICK q : q = [Away EXCEPT !.step = "close", !.issue = i]
    OBVIOUS
  <1>3. q.step = "close" /\ clerk' = [clerk EXCEPT ![c] = q]
    BY <1>2 DEF Away, LinkIssue, Moves
  <1>4. serial => OnceEach'
    BY <1>1 DEF SerialInv, Linked, OnceEach
  <1>5. TurnOK(q)'
    BY <1>3, TurnEnds DEF Importing
  <1>6. QED
    BY <1>3, <1>4, <1>5, TurnsTaken

LEMMA OthersTurn ==
    ASSUME RosterInv, SerialInv, RosterNext, UNCHANGED rosterPolicies,
           \A c \in Clerks : clerk'[c] = clerk[c] \/ clerk'[c] = Away
    PROVE  SerialInv'
  <1> SUFFICES ASSUME serial' PROVE SerialInv'
    BY DEF SerialInv
  <1>1. serial
    BY DEF RosterNext
  <1>2. ASSUME NEW c \in Clerks PROVE TurnOK(clerk[c])'
    <2>1. PICK v : v = clerk'[c]
      OBVIOUS
    <2>2. TurnOK(v)
      <3>1. CASE v = clerk[c]
        BY <1>1, <3>1 DEF SerialInv
      <3>2. CASE v = Away
        BY <3>2 DEF Away, TurnOK, Importing
      <3>3. QED
        BY <2>1, <3>1, <3>2
    <2>3. TurnOK(v)'
      BY <2>2 DEF TurnOK, Doubtful, Pinned
    <2>4. QED
      BY <2>1, <2>3
  <1>3. \A c, d \in Clerks : clerk'[c].step # "idle" /\ clerk'[d].step # "idle" => c = d
    BY <1>1, AwayIsFree DEF SerialInv
  <1>4. OnceEach'
    BY <1>1 DEF SerialInv, OnceEach
  <1>5. QED
    BY <1>2, <1>3, <1>4 DEF SerialInv

LEMMA TurnSteps ==
    ASSUME SheetsInOrder, RosterInv, SerialInv, RosterNext
    PROVE  SerialInv'
  <1>1. ASSUME NEW c \in Clerks, NEW s \in DOMAIN Sheets, StartImport(c, s) PROVE SerialInv'
    BY <1>1, StartImportTurn
  <1>2. ASSUME NEW c \in Clerks, SkipRow(c) \/ FlagRow(c) PROVE SerialInv'
    <2>1. /\ clerk[c].step = "row" /\ Moves(c, [clerk[c] EXCEPT !.at = @ + 1])
          /\ UNCHANGED rosterPolicies
      BY <1>2 DEF SkipRow, FlagRow, ClerkAt
    <2>2. QED
      BY <2>1, RowPassed
  <1>3. ASSUME NEW c \in Clerks, TakeClient(c) \/ SaveRosterPolicy(c) \/ SaveFixedPolicy(c)
        PROVE  SerialInv'
    BY <1>3, TakeClientTurn, SaveRosterPolicyTurn, SaveFixedPolicyTurn
  <1>4. ASSUME NEW c \in Clerks, EndImport(c) \/ CloseIssue(c) PROVE SerialInv'
    <2>1. clerk[c].step # "idle" /\ Moves(c, Away) /\ UNCHANGED rosterPolicies
      BY <1>4 DEF EndImport, CloseIssue, ClerkAt
    <2>2. QED
      BY <2>1, TurnsEnd
  <1>5. ASSUME NEW c \in Clerks, NEW i \in DOMAIN issues,
               (\E no \in FixNumbers : ResolveIssue(c, i, no)) \/ LinkIssue(c, i)
        PROVE  SerialInv'
    BY <1>5, ResolveIssueTurn, LinkIssueTurn
  <1>6. ASSUME NEW c \in Clerks, NEW i \in DOMAIN issues, DismissIssue(c, i) PROVE SerialInv'
    <2>1. UNCHANGED rosterPolicies /\ \A d \in Clerks : clerk'[d] = clerk[d]
      BY <1>6 DEF DismissIssue
    <2>2. QED
      BY <2>1, OthersTurn
  <1>7. CASE RosterRestart
    <2>1. UNCHANGED rosterPolicies /\ \A d \in Clerks : clerk'[d] = Away
      BY <1>7 DEF RosterRestart
    <2>2. QED
      BY <2>1, OthersTurn
  <1>8. QED
    BY <1>1, <1>2, <1>3, <1>4, <1>5, <1>6, <1>7 DEF RosterNext
LEMMA TurnStarts ==
    ASSUME RosterInit
    PROVE  SerialInv
  BY AwayIsFree DEF RosterInit, SerialInv, OnceEach, TurnOK
LEMMA TurnPauses ==
    ASSUME SerialInv, UNCHANGED rosterVars
    PROVE  SerialInv'
  <1>1. UNCHANGED <<rosterPolicies, clerk, serial>>
    BY DEF rosterVars
  <1>2. OnceEach => OnceEach'
    BY <1>1 DEF OnceEach
  <1>3. \A s, i : Doubtful(s, i)' <=> Doubtful(s, i)
    BY <1>1 DEF Doubtful, Pinned
  <1>4. \A q : TurnOK(q) => TurnOK(q)'
    BY <1>1, <1>3 DEF TurnOK
  <1>5. QED
    BY <1>1, <1>2, <1>4 DEF SerialInv
-------------------------------------------------------------------------------
(* One client for a family.                                                 *)

\* A row that will not be imported again.
Settled(s, i) ==
    Cells(s, i).family = 0 \/ Numbered(Cells(s, i).policyNo) \/ Doubtful(s, i)
SettledSheet(s) == \A i \in DOMAIN RowsOfSheet(s) : Settled(s, i)
FamilyOf(p) == RowsOfSheet(p.sheet)[p.at].family

ClientsCounted == \A p \in rosterPolicies : p.client \in Nat /\ p.client <= rosterClients
OneClientEach ==
    \A p, q \in rosterPolicies :
       (p.sheet # 0 /\ p.sheet = q.sheet /\ FamilyOf(p) # 0) =>
          (p.client = q.client <=> FamilyOf(p) = FamilyOf(q))
UploadsDone ==
    \A p \in rosterPolicies :
       p.sheet # 0 => \/ SettledSheet(p.sheet)
                      \/ \E c \in Clerks : clerk[c].step \in Importing /\ clerk[c].sheet = p.sheet

\* The policies of the sheet are all of this upload.
FirstUpload(q) ==
    \A p \in rosterPolicies : p.sheet = q.sheet =>
       /\ FamilyOf(p) # 0 =>
            FamilyOf(p) \in DOMAIN q.families /\ p.client = q.families[FamilyOf(p)]
       /\ FamilyOf(p) = 0 => \A f \in DOMAIN q.families : q.families[f] # p.client
FamiliesOK(families) ==
    /\ \A f \in DOMAIN families : families[f] \in Nat /\ families[f] <= rosterClients
    /\ \A f, g \in DOMAIN families : families[f] = families[g] => f = g
ClientTaken(q) ==
    /\ Cells(q.sheet, q.at).family # 0 =>
         /\ Cells(q.sheet, q.at).family \in DOMAIN q.families
         /\ q.client = q.families[Cells(q.sheet, q.at).family]
    /\ Cells(q.sheet, q.at).family = 0 =>
         /\ \A f \in DOMAIN q.families : q.families[f] # q.client
         /\ \A p \in rosterPolicies : p.client # q.client
ImportOK(q) ==
    /\ q.step \in Importing =>
         /\ \A i \in DOMAIN RowsOfSheet(q.sheet) : i < q.at => Settled(q.sheet, i)
         /\ FamiliesOK(q.families)
         /\ SettledSheet(q.sheet) \/ FirstUpload(q)
    /\ q.step = "policy" => ClientTaken(q)
    /\ q.step \in {"policy", "fixed policy"} => q.client \in Nat /\ q.client <= rosterClients
Undisturbed == serial /\ restarts = 0
FamilyInv ==
    /\ rosterClients \in Nat /\ restarts \in Nat
    /\ Undisturbed =>
         ClientsCounted /\ OneClientEach /\ UploadsDone /\ \A c \in Clerks : ImportOK(clerk[c])

LEMMA SheetIsNotZero == ASSUME NEW s \in DOMAIN Sheets PROVE s # 0
  <1>1. DOMAIN Sheets = 1 .. Len(Sheets) /\ Len(Sheets) \in Nat
    BY RosterAssumption, LenProperties DEF RosterAssumption
  <1>2. QED
    BY <1>1
LEMMA SettledStays ==
    ASSUME Kept
    PROVE  \A s, i : Settled(s, i) => Settled(s, i)'
  BY RosterStays DEF Settled
LEMMA SettledSheetStays ==
    ASSUME Kept
    PROVE  \A s : SettledSheet(s) => SettledSheet(s)'
  BY SettledStays DEF SettledSheet

\* What an import skips it has no need to import again: the number is a
\* policy's, or an issue waits for the number and is of this sheet.
LEMMA SkippedIsSettled ==
    ASSUME SheetsInOrder, RosterInv, NEW c \in Clerks, NEW v, v = clerk[c], v.step = "row",
           v.at \in DOMAIN RowsOfSheet(v.sheet), Skipped(c, Row(c))
    PROVE  Settled(v.sheet, v.at)
  <1>1. PICK row : row = Row(c)
    OBVIOUS
  <1>2. ClerkOK(v) /\ row = Cells(v.sheet, v.at) /\ v.sheet \in DOMAIN Sheets
    BY <1>1, RowRead DEF Importing
  <1>3. CASE Known(c, row)
    <2>1. PICK no : no = normalizePolicyNo(row.policyNo)
      OBVIOUS
    <2>2. PICK p \in rosterPolicies : p.policyNo = no \/ normalizePolicyNo(p.policyNo) = no
      BY <1>2, <1>3, <2>1 DEF Known, ClerkOK, Importing
    <2>3. normalizePolicyNo(p.policyNo) = no
      BY <2>1, <2>2, NormalTwice
    <2>4. Numbered(row.policyNo)
      BY <1>3, <2>1, <2>3 DEF Known, Numbered
    <2>5. QED
      BY <1>2, <2>4 DEF Settled
  <1>4. CASE Fingerprint(row) \in v.pending /\ row.policyNo # NoNumber /\ row.family # 0
    <2>1. PICK k \in DOMAIN issues : Fingerprint(issues[k].row) = Fingerprint(row)
      BY <1>2, <1>4 DEF ClerkOK, Importing
    <2>2. PICK s \in DOMAIN Sheets : \E i \in DOMAIN RowsOfSheet(s) :
            issues[k].row = Cells(s, i) /\ Doubtful(s, i)
      BY DEF RosterInv
    <2>3. PICK i \in DOMAIN RowsOfSheet(s) : issues[k].row = Cells(s, i) /\ Doubtful(s, i)
      BY <2>2
    <2>4. Cells(s, i).policyNo = row.policyNo
      <3>1. Fingerprint(row) = <<row.policyNo>>
        BY <1>4 DEF Fingerprint
      <3>2. CASE Cells(s, i).policyNo = NoNumber
        <4>1. PICK a, b : Fingerprint(Cells(s, i)) = <<a, b>>
          BY <3>2 DEF Fingerprint
        <4>2. <<a, b>> # <<row.policyNo>>
          OBVIOUS
        <4>3. QED
          BY <2>1, <2>3, <3>1, <4>1, <4>2
      <3>3. CASE Cells(s, i).policyNo # NoNumber
        <4>1. Fingerprint(Cells(s, i)) = <<Cells(s, i).policyNo>>
          BY <3>3 DEF Fingerprint
        <4>2. <<Cells(s, i).policyNo>> = <<row.policyNo>>
          BY <2>1, <2>3, <3>1, <4>1
        <4>3. QED
          BY <4>2
      <3>4. QED
        BY <3>2, <3>3
    <2>5. s = v.sheet
      BY <1>2, <1>4, <2>4 DEF SheetsInOrder, Cells
    <2>6. CASE i = v.at
      BY <2>3, <2>5, <2>6 DEF Settled
    <2>7. CASE i # v.at
      <3>1. Twice(v.sheet, "policyNo", row.policyNo)
        BY <1>2, <2>4, <2>5, <2>7, TwoAreTwice
      <3>2. QED
        BY <1>2, <3>1 DEF Settled, Doubtful
    <2>8. QED
      BY <2>6, <2>7
  <1>5. CASE row.policyNo = NoNumber \/ row.family = 0
    BY <1>2, <1>5 DEF Settled, Doubtful
  <1>6. QED
    BY <1>1, <1>3, <1>4, <1>5 DEF Skipped

\* A step of the clerk at work.
LEMMA FamiliesTaken ==
    ASSUME RosterInv, SerialInv, FamilyInv, RosterNext, NEW c \in Clerks, NEW q,
           clerk' = [clerk EXCEPT ![c] = q], clerk[c].step # "idle" \/ q.step # "idle",
           UNCHANGED restarts, rosterClients' \in Nat,
           serial' /\ Undisturbed =>
              ClientsCounted' /\ OneClientEach' /\ UploadsDone' /\ ImportOK(q)'
    PROVE  FamilyInv'
  <1>1. rosterClients' \in Nat /\ restarts' \in Nat
    BY DEF FamilyInv
  <1> SUFFICES ASSUME Undisturbed'
               PROVE  /\ ClientsCounted' /\ OneClientEach' /\ UploadsDone'
                      /\ \A d \in Clerks : ImportOK(clerk[d])'
    BY <1>1 DEF FamilyInv
  <1>2. /\ serial /\ clerk'[c] = q
        /\ \A d \in Clerks : d # c => clerk'[d] = clerk[d] /\ clerk[d].step = "idle"
    BY OneTurn DEF Undisturbed
  <1>3. Undisturbed /\ serial'
    BY <1>2 DEF Undisturbed
  <1>4. ASSUME NEW d \in Clerks PROVE ImportOK(clerk[d])'
    <2>1. PICK v : v = clerk'[d]
      OBVIOUS
    <2>2. d # c => v.step = "idle"
      BY <1>2, <2>1
    <2>3. ImportOK(v)'
      BY <1>2, <1>3, <2>1, <2>2 DEF ImportOK, Importing
    <2>4. QED
      BY <2>1, <2>3
  <1>5. QED
    BY <1>3, <1>4

\* Sheets whose upload ended are settled; the sheet of the clerk at work need
\* not be.
OfKnownSheets(q) ==
    \A p \in rosterPolicies' : p.sheet = 0 \/ (\E r \in rosterPolicies : r.sheet = p.sheet)
       \/ (q.step \in Importing /\ q.sheet = p.sheet)
GoesOn(v, q) ==
    v.step \in Importing =>
       (q.step \in Importing /\ q.sheet = v.sheet) \/ SettledSheet(v.sheet)'
LEMMA UploadsTaken ==
    ASSUME RosterInv, SerialInv, FamilyInv, RosterNext, Kept, NEW c \in Clerks, NEW q,
           clerk' = [clerk EXCEPT ![c] = q], clerk[c].step # "idle" \/ q.step # "idle",
           serial', Undisturbed, NEW v, v = clerk[c], OfKnownSheets(q), GoesOn(v, q)
    PROVE  UploadsDone'
  <1>1. /\ serial /\ clerk'[c] = q
        /\ \A d \in Clerks : d # c => clerk'[d] = clerk[d] /\ clerk[d].step = "idle"
    BY OneTurn
  <1>2. ASSUME NEW p \in rosterPolicies', p.sheet # 0
        PROVE  \/ SettledSheet(p.sheet)'
               \/ \E d \in Clerks : clerk'[d].step \in Importing /\ clerk'[d].sheet = p.sheet
    <2>1. CASE q.step \in Importing /\ q.sheet = p.sheet
      BY <1>1, <2>1
    <2>2. ASSUME NEW r \in rosterPolicies, r.sheet = p.sheet
          PROVE  \/ SettledSheet(p.sheet)'
                 \/ \E d \in Clerks : clerk'[d].step \in Importing /\ clerk'[d].sheet = p.sheet
      <3>1. CASE SettledSheet(r.sheet)
        <4>1. PICK s : s = r.sheet
          OBVIOUS
        <4>2. SettledSheet(s)'
          BY <3>1, <4>1, SettledSheetStays
        <4>3. QED
          BY <2>2, <4>1, <4>2
      <3>2. ASSUME NEW d \in Clerks, clerk[d].step \in Importing, clerk[d].sheet = r.sheet
            PROVE  \/ SettledSheet(p.sheet)'
                   \/ \E e \in Clerks : clerk'[e].step \in Importing /\ clerk'[e].sheet = p.sheet
        <4>1. d = c
          BY <1>1, <3>2 DEF Importing
        <4>2. v.sheet = p.sheet /\ ((q.step \in Importing /\ q.sheet = v.sheet) \/ SettledSheet(v.sheet)')
          BY <2>2, <3>2, <4>1 DEF GoesOn
        <4>3. SettledSheet(v.sheet)' => SettledSheet(p.sheet)'
          BY <4>2
        <4>4. QED
          BY <1>1, <4>2, <4>3
      <3>3. QED
        BY <1>2, <2>2, <3>1, <3>2 DEF FamilyInv, UploadsDone
    <2>3. QED
      BY <1>2, <2>1, <2>2 DEF OfKnownSheets
  <1>3. QED
    BY <1>2 DEF UploadsDone

\* A step that leaves the policies alone.
LEMMA FamilyMoves ==
    ASSUME RosterInv, SerialInv, FamilyInv, RosterNext, NEW c \in Clerks, NEW q,
           clerk' = [clerk EXCEPT ![c] = q], clerk[c].step # "idle" \/ q.step # "idle",
           UNCHANGED <<rosterPolicies, restarts>>, Kept,
           rosterClients' \in Nat, rosterClients <= rosterClients', NEW v, v = clerk[c],
           Undisturbed /\ v.step \in Importing =>
              (q.step \in Importing /\ q.sheet = v.sheet) \/ SettledSheet(v.sheet),
           serial' /\ Undisturbed => ImportOK(q)'
    PROVE  FamilyInv'
  <1> SUFFICES ASSUME serial', Undisturbed
               PROVE  ClientsCounted' /\ OneClientEach' /\ UploadsDone' /\ ImportOK(q)'
    BY FamiliesTaken
  <1>1. ClientsCounted' /\ OneClientEach'
    <2>1. ClientsCounted /\ OneClientEach /\ rosterClients \in Nat
      BY DEF FamilyInv
    <2>2. QED
      BY <2>1 DEF ClientsCounted, OneClientEach, FamilyOf
  <1>2. v.step \in Importing =>
           (q.step \in Importing /\ q.sheet = v.sheet) \/ SettledSheet(v.sheet)'
    BY SettledSheetStays
  <1>3. OfKnownSheets(q) /\ GoesOn(v, q)
    BY <1>2 DEF OfKnownSheets, GoesOn
  <1>4. UploadsDone'
    BY <1>3, UploadsTaken
  <1>5. QED
    BY <1>1, <1>4
\* A clerk that imports nothing and takes no client has nothing to answer for.
LEMMA NoImport ==
    ASSUME NEW q, q.step \notin Importing, q.step # "fixed policy"
    PROVE  ImportOK(q)'
  BY DEF ImportOK, Importing

\* Nobody imports when one starts to, so every sheet with policies is settled.
LEMMA StartImportFamily ==
    ASSUME RosterInv, SerialInv, FamilyInv, RosterNext, NEW c \in Clerks,
           NEW s \in DOMAIN Sheets, StartImport(c, s)
    PROVE  FamilyInv'
  <1>1. PICK q : q = [Away EXCEPT !.step = "row", !.sheet = s, !.at = 1,
          !.numbers = {normalizePolicyNo(p.policyNo) : p \in rosterPolicies},
          !.pins = {p.pincode : p \in rosterPolicies} \ {NoPin},
          !.pending = {Fingerprint(issues[i].row) :
                         i \in {j \in DOMAIN issues : issues[j].status = "Pending"}}]
    OBVIOUS
  <1>2. q.step = "row" /\ q.sheet = s /\ q.at = 1 /\ q.families = << >>
    BY <1>1 DEF Away
  <1>3. PICK v : v = clerk[c]
    OBVIOUS
  <1>4. /\ clerk' = [clerk EXCEPT ![c] = q] /\ v.step = "idle"
        /\ UNCHANGED <<rosterPolicies, rosterClients, issues, restarts>>
    BY <1>1, <1>3 DEF StartImport, ClerkAt, Moves
  <1>5. Kept /\ rosterClients' \in Nat /\ rosterClients <= rosterClients'
    BY <1>4 DEF Kept, RosterInv, FamilyInv
  <1>6. ASSUME serial', Undisturbed PROVE ImportOK(q)'
    <2>1. \A d \in Clerks : clerk[d].step \notin Importing
      <3>1. \A d \in Clerks : d # c => clerk[d].step = "idle"
        BY <1>2, <1>4, <1>6, OneTurn
      <3>2. QED
        BY <1>3, <1>4, <3>1 DEF Importing
    <2>2. \A p \in rosterPolicies : p.sheet = s => SettledSheet(s)
      BY <1>6, <2>1, SheetIsNotZero DEF FamilyInv, UploadsDone
    <2>3. (SettledSheet(s) \/ FirstUpload(q))'
      <3>1. CASE SettledSheet(s)
        BY <1>5, <3>1, SettledSheetStays
      <3>2. CASE ~SettledSheet(s)
        BY <1>2, <1>4, <2>2, <3>2 DEF FirstUpload
      <3>3. QED
        BY <3>1, <3>2
    <2>4. \A i \in DOMAIN RowsOfSheet(s) : ~(i < 1)
      BY RowsOfSheetCounted
    <2>5. FamiliesOK(q.families)'
      BY <1>2 DEF FamiliesOK
    <2>6. QED
      BY <1>2, <2>3, <2>4, <2>5 DEF ImportOK
  <1>7. QED
    BY <1>2, <1>3, <1>4, <1>5, <1>6, FamilyMoves DEF Importing

LEMMA RowPassedFamily ==
    ASSUME RosterInv, SerialInv, FamilyInv, RosterNext, NEW c \in Clerks, NEW v, v = clerk[c],
           v.step = "row", Moves(c, [clerk[c] EXCEPT !.at = @ + 1]),
           UNCHANGED <<rosterPolicies, rosterClients, restarts>>, Kept, Settled(v.sheet, v.at)
    PROVE  FamilyInv'
  <1>1. ClerkOK(v) /\ v.at \in Nat /\ v.sheet \in DOMAIN Sheets
    BY RowRead DEF Importing
  <1>2. PICK q : q = [v EXCEPT !.at = @ + 1]
    OBVIOUS
  <1>3. q.step = "row" /\ q.sheet = v.sheet /\ q.at = v.at + 1 /\ q.families = v.families
    BY <1>1, <1>2 DEF ClerkOK, IsClerk
  <1>4. clerk' = [clerk EXCEPT ![c] = q] /\ rosterClients' \in Nat /\ rosterClients <= rosterClients'
    BY <1>2 DEF Moves, FamilyInv
  <1>5. ASSUME Undisturbed PROVE ImportOK(q)'
    <2>1. ImportOK(v)
      BY <1>5 DEF FamilyInv
    <2>2. \A i \in DOMAIN RowsOfSheet(v.sheet) : i < v.at + 1 => i < v.at \/ i = v.at
      BY <1>1, RowsOfSheetCounted
    <2>3. \A i \in DOMAIN RowsOfSheet(v.sheet) : i < v.at + 1 => Settled(v.sheet, i)
      BY <2>1, <2>2 DEF ImportOK, Importing
    <2>4. \A i \in DOMAIN RowsOfSheet(v.sheet) : i < v.at + 1 => Settled(v.sheet, i)'
      BY <2>3, SettledStays
    <2>5. FamiliesOK(q.families)'
      BY <1>3, <2>1 DEF ImportOK, Importing, FamiliesOK
    <2>6. (SettledSheet(v.sheet) \/ FirstUpload(q))'
      <3>1. CASE SettledSheet(v.sheet)
        BY <3>1, SettledSheetStays
      <3>2. CASE FirstUpload(v)
        BY <1>3, <3>2 DEF FirstUpload, FamilyOf
      <3>3. QED
        BY <2>1, <3>1, <3>2 DEF ImportOK, Importing
    <2>7. QED
      BY <1>3, <2>4, <2>5, <2>6 DEF ImportOK
  <1>6. QED
    BY <1>3, <1>4, <1>5, FamilyMoves DEF Importing
LEMMA SkipRowFamily ==
    ASSUME SheetsInOrder, RosterInv, SerialInv, FamilyInv, RosterNext, NEW c \in Clerks, SkipRow(c)
    PROVE  FamilyInv'
  <1>1. PICK v : v = clerk[c]
    OBVIOUS
  <1>2. /\ v.step = "row" /\ v.at \in DOMAIN RowsOfSheet(v.sheet) /\ Skipped(c, Row(c))
        /\ Moves(c, [clerk[c] EXCEPT !.at = @ + 1])
        /\ UNCHANGED <<rosterPolicies, rosterClients, issues, restarts>>
    BY <1>1 DEF SkipRow, ClerkAt
  <1>3. Settled(v.sheet, v.at)
    BY <1>1, <1>2, SkippedIsSettled
  <1>4. Kept
    BY <1>2 DEF Kept, RosterInv
  <1>5. QED
    BY <1>1, <1>2, <1>3, <1>4, RowPassedFamily
LEMMA FlagRowFamily ==
    ASSUME RosterInv, SerialInv, FamilyInv, RosterNext, NEW c \in Clerks, FlagRow(c)
    PROVE  FamilyInv'
  <1>1. PICK v, row : v = clerk[c] /\ row = Row(c)
    OBVIOUS
  <1>2. /\ v.step = "row" /\ v.at \in DOMAIN RowsOfSheet(v.sheet) /\ Suspicious(c, row)
        /\ Moves(c, [clerk[c] EXCEPT !.at = @ + 1])
        /\ UNCHANGED <<rosterPolicies, rosterClients, restarts>>
        /\ issues' = Append(issues, [row |-> row, status |-> "Pending"])
    BY <1>1 DEF FlagRow, ClerkAt
  <1>3. row = Cells(v.sheet, v.at)
    BY <1>1, <1>2, RowRead DEF Importing
  <1>4. Settled(v.sheet, v.at)
    BY <1>1, <1>2, <1>3, SuspicionsAreDoubts DEF Settled, Importing
  <1>5. Kept
    <2>1. issues \in Seq(IssueRow)
      BY DEF RosterInv
    <2>2. PICK issue : issues' = Append(issues, issue)
      BY <1>2
    <2>3. \A k \in DOMAIN issues : k \in DOMAIN issues' /\ issues'[k] = issues[k]
      BY <2>1, <2>2, LenProperties
    <2>4. QED
      BY <1>2, <2>3 DEF Kept, RosterInv
  <1>6. QED
    BY <1>1, <1>2, <1>4, <1>5, RowPassedFamily

\* The client of the row: that of its family, or one no policy and no family has.
LEMMA TakeClientFamily ==
    ASSUME RosterInv, SerialInv, FamilyInv, RosterNext, NEW c \in Clerks, TakeClient(c)
    PROVE  FamilyInv'
  <1>1. PICK v, family : v = clerk[c] /\ family = Row(c).family
    OBVIOUS
  <1>2. PICK shared : shared = (family # 0 /\ family \in DOMAIN v.families)
    OBVIOUS
  <1>3. /\ v.step = "row" /\ v.at \in DOMAIN RowsOfSheet(v.sheet)
        /\ UNCHANGED <<rosterPolicies, issues, restarts>>
    BY <1>1 DEF TakeClient, ClerkAt
  <1>4. ClerkOK(v) /\ family = Cells(v.sheet, v.at).family /\ v.sheet \in DOMAIN Sheets
    BY <1>1, <1>3, RowRead DEF Importing
  <1>5. PICK client, families :
          /\ client = IF shared THEN v.families[family] ELSE rosterClients + 1
          /\ families = IF shared \/ family = 0 THEN v.families
                        ELSE [f \in DOMAIN v.families \union {family} |->
                                IF f = family THEN rosterClients + 1 ELSE v.families[f]]
    OBVIOUS
  <1>6. PICK q : q = [v EXCEPT !.step = "policy", !.client = client, !.families = families]
    OBVIOUS
  <1>7. /\ q.step = "policy" /\ q.sheet = v.sheet /\ q.at = v.at
        /\ q.client = client /\ q.families = families
    BY <1>4, <1>6 DEF ClerkOK, IsClerk
  <1>8. /\ clerk' = [clerk EXCEPT ![c] = q]
        /\ rosterClients' = IF shared THEN rosterClients ELSE rosterClients + 1
    <2>1. clerk' = [clerk EXCEPT ![c] =
             [v EXCEPT !.step = "policy", !.client = client,
                !.families = IF shared \/ family = 0 THEN @
                             ELSE [f \in DOMAIN @ \union {family} |->
                                     IF f = family THEN rosterClients + 1 ELSE @[f]]]]
      BY <1>1, <1>2, <1>5 DEF TakeClient, Moves
    <2>2. IsClerk(v)
      BY <1>4 DEF ClerkOK
    <2>3. rosterClients' = IF shared THEN rosterClients ELSE rosterClients + 1
      BY <1>1, <1>2 DEF TakeClient
    <2>4. QED
      BY <1>5, <1>6, <2>1, <2>2, <2>3 DEF IsClerk
  <1>9. rosterClients \in Nat /\ rosterClients' \in Nat /\ rosterClients <= rosterClients'
    BY <1>8 DEF FamilyInv
  <1>10. Kept
    BY <1>3 DEF Kept, RosterInv
  <1>11. ASSUME Undisturbed PROVE ImportOK(q)'
    <2>1. ImportOK(v) /\ ClientsCounted
      BY <1>1, <1>11 DEF FamilyInv
    <2>2. /\ \A i \in DOMAIN RowsOfSheet(v.sheet) : i < v.at => Settled(v.sheet, i)
          /\ FamiliesOK(v.families) /\ (SettledSheet(v.sheet) \/ FirstUpload(v))
      BY <1>3, <2>1 DEF ImportOK, Importing
    <2>3. \A i \in DOMAIN RowsOfSheet(v.sheet) : i < v.at => Settled(v.sheet, i)'
      BY <1>10, <2>2, SettledStays
    <2>4. CASE shared
      <3>1. client = v.families[family] /\ families = v.families /\ rosterClients' = rosterClients
            /\ family # 0 /\ family \in DOMAIN v.families
        BY <1>2, <1>5, <1>8, <2>4
      <3>2. FamiliesOK(q.families)'
        BY <1>7, <2>2, <3>1 DEF FamiliesOK
      <3>3. (SettledSheet(v.sheet) \/ FirstUpload(q))'
        BY <1>3, <1>7, <1>10, <2>2, <3>1, SettledSheetStays DEF FirstUpload, FamilyOf
      <3>4. ClientTaken(q)'
        BY <1>4, <1>7, <3>1 DEF ClientTaken, Cells
      <3>5. client \in Nat /\ client <= rosterClients'
        BY <2>2, <3>1 DEF FamiliesOK
      <3>6. QED
        BY <1>7, <2>3, <3>2, <3>3, <3>4, <3>5 DEF ImportOK
    <2>5. CASE ~shared /\ family = 0
      <3>1. client = rosterClients + 1 /\ families = v.families /\ rosterClients' = rosterClients + 1
        BY <1>5, <1>8, <2>5
      <3>2. FamiliesOK(q.families)'
        BY <1>7, <1>9, <2>2, <3>1 DEF FamiliesOK
      <3>3. (SettledSheet(v.sheet) \/ FirstUpload(q))'
        BY <1>3, <1>7, <1>10, <2>2, <3>1, SettledSheetStays DEF FirstUpload, FamilyOf
      <3>4. ClientTaken(q)'
        <4>1. \A f \in DOMAIN v.families : v.families[f] # client
          BY <1>9, <2>2, <3>1 DEF FamiliesOK
        <4>2. \A p \in rosterPolicies : p.client # client
          BY <1>9, <2>1, <3>1 DEF ClientsCounted
        <4>3. QED
          BY <1>3, <1>4, <1>7, <2>5, <3>1, <4>1, <4>2 DEF ClientTaken, Cells
      <3>5. client \in Nat /\ client <= rosterClients'
        BY <1>9, <3>1
      <3>6. QED
        BY <1>7, <2>3, <3>2, <3>3, <3>4, <3>5 DEF ImportOK
    <2>6. CASE ~shared /\ family # 0
      <3>1. /\ client = rosterClients + 1 /\ rosterClients' = rosterClients + 1
            /\ family \notin DOMAIN v.families
            /\ DOMAIN families = DOMAIN v.families \union {family}
            /\ families[family] = client
            /\ \A f \in DOMAIN v.families : families[f] = v.families[f]
        BY <1>2, <1>5, <1>8, <2>6
      <3>2. \A f \in DOMAIN v.families :
               v.families[f] \in Nat /\ v.families[f] <= rosterClients /\ v.families[f] # client
        BY <1>9, <2>2, <3>1 DEF FamiliesOK
      <3>3. FamiliesOK(q.families)'
        <4>1. \A f \in DOMAIN families : families[f] \in Nat /\ families[f] <= rosterClients'
          BY <1>9, <3>1, <3>2
        <4>2. \A f, g \in DOMAIN families : families[f] = families[g] => f = g
          BY <2>2, <3>1, <3>2 DEF FamiliesOK
        <4>3. QED
          BY <1>7, <4>1, <4>2 DEF FamiliesOK
      <3>4. (SettledSheet(v.sheet) \/ FirstUpload(q))'
        <4>1. CASE SettledSheet(v.sheet)
          BY <1>10, <4>1, SettledSheetStays
        <4>2. CASE FirstUpload(v)
          <5>1. \A p \in rosterPolicies : p.client # client
            BY <1>9, <2>1, <3>1 DEF ClientsCounted
          <5>2. \A p \in rosterPolicies : p.sheet = q.sheet =>
                  /\ FamilyOf(p) # 0 =>
                       FamilyOf(p) \in DOMAIN families /\ p.client = families[FamilyOf(p)]
                  /\ FamilyOf(p) = 0 => \A f \in DOMAIN families : families[f] # p.client
            BY <1>7, <3>1, <4>2, <5>1 DEF FirstUpload
          <5>3. QED
            BY <1>3, <1>7, <5>2 DEF FirstUpload, FamilyOf
        <4>3. QED
          BY <2>2, <4>1, <4>2
      <3>5. ClientTaken(q)'
        BY <1>4, <1>7, <2>6, <3>1 DEF ClientTaken, Cells
      <3>6. client \in Nat /\ client <= rosterClients'
        BY <1>9, <3>1
      <3>7. QED
        BY <1>7, <2>3, <3>3, <3>4, <3>5, <3>6 DEF ImportOK
    <2>7. QED
      BY <2>4, <2>5, <2>6
  <1>12. QED
    BY <1>1, <1>3, <1>7, <1>8, <1>9, <1>10, <1>11, FamilyMoves DEF Importing

LEMMA SavedKeeps ==
    ASSUME RosterInv, NEW v, NEW row, NEW p, Saved(v, row, p), UNCHANGED issues,
           row.policyNo # NoNumber
    PROVE  Kept /\ Numbered(row.policyNo)'
  <1>1. rosterPolicies' = rosterPolicies \union {p} /\ IsRosterPolicy(p) /\ p.policyNo = row.policyNo
    BY DEF Saved, IsRosterPolicy
  <1>2. QED
    BY <1>1 DEF Kept, Numbered, RosterInv
LEMMA SaveRosterPolicyFamily ==
    ASSUME SheetsInOrder, RosterInv, SerialInv, FamilyInv, RosterNext, NEW c \in Clerks,
           SaveRosterPolicy(c)
    PROVE  FamilyInv'
  <1>1. PICK v, row : v = clerk[c] /\ row = Row(c)
    OBVIOUS
  <1>2. /\ v.step = "policy" /\ v.step \in Importing
        /\ UNCHANGED <<rosterClients, issues, restarts>>
    BY <1>1 DEF SaveRosterPolicy, ClerkAt, Importing
  <1>3. ClerkOK(v) /\ row = Cells(v.sheet, v.at) /\ v.at \in Nat /\ v.sheet \in DOMAIN Sheets
    BY <1>1, <1>2, RowRead
  <1>4. v.at \in DOMAIN RowsOfSheet(v.sheet) /\ row.policyNo # NoNumber
    BY <1>2, <1>3 DEF ClerkOK
  <1>5. rosterClients \in Nat /\ rosterClients' = rosterClients
    BY <1>2 DEF FamilyInv
  <1>6. ASSUME Undisturbed
        PROVE  /\ \A r \in rosterPolicies : normalizePolicyNo(r.policyNo) # normalizePolicyNo(row.policyNo)
               /\ ~Taken(row.policyNo) /\ ~Numbered(row.policyNo) /\ ~Doubtful(v.sheet, v.at)
    <2>1. TurnOK(v)
      BY <1>1, <1>6 DEF SerialInv, Undisturbed
    <2>2. \A r \in rosterPolicies : normalizePolicyNo(r.policyNo) # normalizePolicyNo(row.policyNo)
      BY <1>2, <1>3, <2>1, NumberIsFree
    <2>3. ~Doubtful(v.sheet, v.at)
      BY <1>2, <2>1 DEF TurnOK
    <2>4. QED
      BY <2>2, <2>3 DEF Taken, Numbered
  <1>7. CASE Taken(row.policyNo)
    <2>1. clerk' = [clerk EXCEPT ![c] = Away] /\ rosterClients' \in Nat /\ ~Undisturbed
      BY <1>1, <1>5, <1>6, <1>7 DEF SaveRosterPolicy, Moves
    <2>2. QED
      BY <1>1, <1>2, <2>1, FamiliesTaken
  <1>8. CASE ~Taken(row.policyNo)
    <2>1. PICK p, q : /\ Saved(v, row, p) /\ clerk' = [clerk EXCEPT ![c] = q]
                      /\ q.step = "row" /\ q.sheet = v.sheet /\ q.at = v.at + 1
                      /\ q.families = v.families
      BY <1>1, <1>8, SaveRosterPolicyDone
    <2>2. PICK f : f = Cells(v.sheet, v.at).family
      OBVIOUS
    <2>3. /\ rosterPolicies' = rosterPolicies \union {p}
          /\ p.client = v.client /\ p.sheet = v.sheet /\ FamilyOf(p) = f
      BY <2>1, <2>2 DEF Saved, FamilyOf, Cells
    <2>4. Kept /\ Numbered(row.policyNo)'
      BY <1>2, <1>4, <2>1, SavedKeeps
    <2> SUFFICES ASSUME serial', Undisturbed
                 PROVE  ClientsCounted' /\ OneClientEach' /\ UploadsDone' /\ ImportOK(q)'
      BY <1>1, <1>2, <1>5, <2>1, FamiliesTaken
    <2>5. ImportOK(v) /\ ClientsCounted /\ OneClientEach
      BY <1>1 DEF FamilyInv
    <2>6. /\ FamiliesOK(v.families) /\ ClientTaken(v)
          /\ v.client \in Nat /\ v.client <= rosterClients
          /\ SettledSheet(v.sheet) \/ FirstUpload(v)
          /\ \A i \in DOMAIN RowsOfSheet(v.sheet) : i < v.at => Settled(v.sheet, i)
      BY <1>2, <2>5 DEF ImportOK
    <2>7. /\ f # 0 => f \in DOMAIN v.families /\ v.client = v.families[f]
          /\ f = 0 => /\ \A g \in DOMAIN v.families : v.families[g] # v.client
                      /\ \A r \in rosterPolicies : r.client # v.client
      BY <2>2, <2>6 DEF ClientTaken
    <2>8. f # 0 => FirstUpload(v)
      BY <1>3, <1>4, <1>6, <2>2, <2>6 DEF SettledSheet, Settled
    <2>9. ClientsCounted'
      BY <1>5, <2>3, <2>5, <2>6 DEF ClientsCounted
    <2>10. ASSUME NEW r \in rosterPolicies, r.sheet = v.sheet, FamilyOf(r) # 0 \/ f # 0
           PROVE  r.client = p.client <=> FamilyOf(r) = f
      <3>1. CASE f # 0
        <4>1. /\ FamilyOf(r) # 0 =>
                   FamilyOf(r) \in DOMAIN v.families /\ r.client = v.families[FamilyOf(r)]
              /\ FamilyOf(r) = 0 => \A g \in DOMAIN v.families : v.families[g] # r.client
          BY <2>8, <2>10, <3>1 DEF FirstUpload
        <4>2. QED
          BY <2>3, <2>6, <2>7, <3>1, <4>1 DEF FamiliesOK
      <3>2. CASE f = 0
        BY <2>3, <2>7, <2>10, <3>2
      <3>3. QED
        BY <3>1, <3>2
    <2>11. OneClientEach'
      <3>1. ASSUME NEW r \in rosterPolicies', NEW t \in rosterPolicies',
                   r.sheet # 0, r.sheet = t.sheet, FamilyOf(r) # 0
            PROVE  r.client = t.client <=> FamilyOf(r) = FamilyOf(t)
        <4>1. CASE r \in rosterPolicies /\ t \in rosterPolicies
          BY <2>5, <3>1, <4>1 DEF OneClientEach
        <4>2. CASE r \in rosterPolicies /\ t = p
          BY <2>3, <2>10, <3>1, <4>2
        <4>3. CASE r = p /\ t \in rosterPolicies
          BY <2>3, <2>10, <3>1, <4>3
        <4>4. CASE r = p /\ t = p
          BY <4>4
        <4>5. QED
          BY <2>3, <4>1, <4>2, <4>3, <4>4
      <3>2. QED
        BY <3>1 DEF OneClientEach, FamilyOf
    <2>12. UploadsDone'
      <3>1. OfKnownSheets(q)
        BY <2>1, <2>3 DEF Importing, OfKnownSheets
      <3>2. GoesOn(v, q)
        BY <2>1 DEF Importing, GoesOn
      <3>3. QED
        <4>1. clerk[c].step # "idle" \/ q.step # "idle"
          BY <2>1
        <4>2. v = clerk[c] /\ clerk' = [clerk EXCEPT ![c] = q] /\ Kept
          BY <1>1, <2>1, <2>4
        <4>3. QED
          BY <3>1, <3>2, <4>1, <4>2, UploadsTaken
    <2>13. ImportOK(q)'
      <3>1. \A i \in DOMAIN RowsOfSheet(v.sheet) : i < v.at + 1 => Settled(v.sheet, i)'
        <4>1. \A i \in DOMAIN RowsOfSheet(v.sheet) : i < v.at + 1 => i < v.at \/ i = v.at
          BY <1>3, RowsOfSheetCounted
        <4>2. Settled(v.sheet, v.at)'
          BY <1>3, <2>4 DEF Settled
        <4>3. QED
          BY <2>4, <2>6, <4>1, <4>2, SettledStays
      <3>2. FamiliesOK(q.families)'
        BY <1>5, <2>1, <2>6 DEF FamiliesOK
      <3>3. (SettledSheet(v.sheet) \/ FirstUpload(q))'
        <4>1. CASE SettledSheet(v.sheet)
          BY <2>4, <4>1, SettledSheetStays
        <4>2. CASE FirstUpload(v)
          <5>1. \A r \in rosterPolicies' : r.sheet = q.sheet =>
                  /\ FamilyOf(r) # 0 =>
                       FamilyOf(r) \in DOMAIN q.families /\ r.client = q.families[FamilyOf(r)]
                  /\ FamilyOf(r) = 0 => \A g \in DOMAIN q.families : q.families[g] # r.client
            BY <2>1, <2>3, <2>7, <4>2 DEF FirstUpload
          <5>2. QED
            BY <5>1 DEF FirstUpload, FamilyOf
        <4>3. QED
          BY <2>6, <4>1, <4>2
      <3>4. QED
        BY <2>1, <3>1, <3>2, <3>3 DEF ImportOK
    <2>14. QED
      BY <2>9, <2>11, <2>12, <2>13
  <1>9. QED
    BY <1>7, <1>8
LEMMA EndImportFamily ==
    ASSUME RosterInv, SerialInv, FamilyInv, RosterNext, NEW c \in Clerks, EndImport(c)
    PROVE  FamilyInv'
  <1>1. PICK v : v = clerk[c]
    OBVIOUS
  <1>2. /\ v.step = "row" /\ v.at \notin DOMAIN RowsOfSheet(v.sheet)
        /\ clerk' = [clerk EXCEPT ![c] = Away]
        /\ UNCHANGED <<rosterPolicies, rosterClients, issues, restarts>>
    BY <1>1 DEF EndImport, ClerkAt, Moves
  <1>3. v.sheet \in DOMAIN Sheets /\ v.at \in Nat \ {0}
    BY <1>1, <1>2, RowRead DEF Importing
  <1>4. \A i \in DOMAIN RowsOfSheet(v.sheet) : i < v.at
    BY <1>2, <1>3, RowsOfSheetCounted
  <1>5. Undisturbed => SettledSheet(v.sheet)
    <2>1. Undisturbed => ImportOK(v)
      BY <1>1 DEF FamilyInv
    <2>2. QED
      BY <1>2, <1>4, <2>1 DEF ImportOK, SettledSheet, Importing
  <1>6. Kept /\ rosterClients' \in Nat /\ rosterClients <= rosterClients'
    BY <1>2 DEF Kept, RosterInv, FamilyInv
  <1>7. ImportOK(Away)'
    BY AwayIsFree, NoImport
  <1>8. QED
    BY <1>1, <1>2, <1>5, <1>6, <1>7, FamilyMoves

LEMMA ResolveIssueFamily ==
    ASSUME RosterInv, SerialInv, FamilyInv, RosterNext, NEW c \in Clerks,
           NEW i \in DOMAIN issues, NEW no \in FixNumbers, ResolveIssue(c, i, no)
    PROVE  FamilyInv'
  <1>1. PICK v : v = clerk[c]
    OBVIOUS
  <1>2. PICK q : q = [Away EXCEPT !.step = "fixed policy", !.issue = i, !.fix = no,
                                  !.client = rosterClients + 1]
    OBVIOUS
  <1>3. q.step = "fixed policy" /\ q.client = rosterClients + 1
    BY <1>2 DEF Away
  <1>4. /\ clerk' = [clerk EXCEPT ![c] = q] /\ v.step = "idle" /\ rosterClients' = rosterClients + 1
        /\ UNCHANGED <<rosterPolicies, issues, restarts>>
    BY <1>1, <1>2 DEF ResolveIssue, ClerkAt, Moves
  <1>5. Kept /\ rosterClients' \in Nat /\ rosterClients <= rosterClients'
    BY <1>4 DEF Kept, RosterInv, FamilyInv
  <1>6. ImportOK(q)'
    <2>1. q.client \in Nat /\ q.client <= rosterClients'
      <3>1. PICK n \in Nat : n = rosterClients
        BY DEF FamilyInv
      <3>2. q.client = n + 1 /\ rosterClients' = n + 1
        BY <1>3, <1>4, <3>1
      <3>3. QED
        BY <3>2
    <2>2. q.step \notin Importing /\ q.step # "policy"
      BY <1>3 DEF Importing
    <2>3. QED
      BY <2>1, <2>2 DEF ImportOK
  <1>7. QED
    BY <1>1, <1>3, <1>4, <1>5, <1>6, FamilyMoves DEF Importing

LEMMA SaveFixedPolicyFamily ==
    ASSUME RosterInv, SerialInv, FamilyInv, RosterNext, NEW c \in Clerks, SaveFixedPolicy(c)
    PROVE  FamilyInv'
  <1>1. PICK v : v = clerk[c]
    OBVIOUS
  <1>2. /\ v.step = "fixed policy" /\ v.step \notin Importing
        /\ UNCHANGED <<rosterClients, issues, restarts>>
    BY <1>1 DEF SaveFixedPolicy, ClerkAt, Importing
  <1>3. rosterClients' \in Nat /\ rosterClients' = rosterClients /\ rosterClients <= rosterClients'
    <2>1. PICK n \in Nat : n = rosterClients
      BY DEF FamilyInv
    <2>2. rosterClients' = n
      BY <1>2, <2>1
    <2>3. QED
      BY <2>1, <2>2
  <1>4. CASE Taken(v.fix)
    <2>1. clerk' = [clerk EXCEPT ![c] = Away] /\ UNCHANGED rosterPolicies
      BY <1>1, <1>4 DEF SaveFixedPolicy, Moves
    <2>2. Kept
      BY <1>2, <2>1 DEF Kept, RosterInv
    <2>3. ImportOK(Away)'
      BY AwayIsFree, NoImport
    <2>4. UNCHANGED <<rosterPolicies, restarts>> /\ rosterClients <= rosterClients'
      BY <1>2, <1>3, <2>1
    <2>5. QED
      BY <1>1, <1>2, <1>3, <2>1, <2>2, <2>3, <2>4, FamilyMoves
  <1>5. CASE ~Taken(v.fix)
    <2>1. PICK q : q = [v EXCEPT !.step = "close", !.client = 0]
      OBVIOUS
    <2>2. IsClerk(v)
      BY <1>1 DEF RosterInv, ClerkOK
    <2>3. q.step = "close" /\ clerk' = [clerk EXCEPT ![c] = q]
      BY <1>1, <1>5, <2>1, <2>2 DEF SaveFixedPolicy, Moves, IsClerk
    <2>4. PICK p : /\ p.client = v.client /\ p.sheet = 0 /\ IsRosterPolicy(p)
                   /\ rosterPolicies' = rosterPolicies \union {p}
      <3>1. PICK p : p = [policyNo |-> v.fix, pincode |-> issues[v.issue].row.pincode,
                          client |-> v.client, sheet |-> 0, at |-> 0]
        OBVIOUS
      <3>2. rosterPolicies' = rosterPolicies \union {p}
        BY <1>1, <1>5, <3>1 DEF SaveFixedPolicy, NewPolicy
      <3>3. p.client = v.client /\ p.sheet = 0 /\ IsRosterPolicy(p)
        BY <3>1 DEF IsRosterPolicy
      <3>4. QED
        BY <3>2, <3>3
    <2>5. Kept
      BY <1>2, <2>4 DEF Kept, RosterInv
    <2> SUFFICES ASSUME serial', Undisturbed
                 PROVE  ClientsCounted' /\ OneClientEach' /\ UploadsDone' /\ ImportOK(q)'
      BY <1>1, <1>2, <1>3, <2>3, FamiliesTaken
    <2>6. ImportOK(v) /\ ClientsCounted /\ OneClientEach
      BY <1>1 DEF FamilyInv
    <2>7. ClientsCounted'
      BY <1>2, <1>3, <2>4, <2>6 DEF ClientsCounted, ImportOK
    <2>8. OneClientEach'
      BY <2>4, <2>6 DEF OneClientEach, FamilyOf
    <2>9. OfKnownSheets(q)
      BY <2>4 DEF OfKnownSheets
    <2>10. UploadsDone'
      <3>1. GoesOn(v, q)
        BY <1>1, <1>2, <2>3 DEF GoesOn, Importing
      <3>2. QED
        BY <1>1, <1>2, <2>3, <2>5, <2>9, <3>1, UploadsTaken
    <2>11. ImportOK(q)'
      BY <2>3, NoImport DEF Importing
    <2>12. QED
      BY <2>7, <2>8, <2>10, <2>11
  <1>6. QED
    BY <1>4, <1>5

LEMMA LinkIssueFamily ==
    ASSUME RosterInv, SerialInv, FamilyInv, RosterNext, NEW c \in Clerks,
           NEW i \in DOMAIN issues, LinkIssue(c, i)
    PROVE  FamilyInv'
  <1>1. PICK p, r : Linked(p, r)
    BY LinkIssueDone
  <1>2. PICK v : v = clerk[c]
    OBVIOUS
  <1>3. PICK q : q = [Away EXCEPT !.step = "close", !.issue = i]
    OBVIOUS
  <1>4. /\ q.step = "close" /\ clerk' = [clerk EXCEPT ![c] = q] /\ v.step = "idle"
        /\ UNCHANGED <<rosterClients, restarts>>
    BY <1>2, <1>3 DEF Away, LinkIssue, Moves, ClerkAt
  <1>5. Kept /\ rosterClients' \in Nat /\ rosterClients' = rosterClients
    BY <1>4, LinkIssueKeeps DEF FamilyInv
  <1> SUFFICES ASSUME serial', Undisturbed
               PROVE  ClientsCounted' /\ OneClientEach' /\ UploadsDone' /\ ImportOK(q)'
    BY <1>2, <1>4, <1>5, FamiliesTaken
  <1>6. ClientsCounted /\ OneClientEach
    BY DEF FamilyInv
  <1>7. ClientsCounted'
    BY <1>1, <1>5, <1>6 DEF ClientsCounted, Linked
  <1>8. OneClientEach'
    <2>1. FamilyOf(r) = FamilyOf(p)
      BY <1>1 DEF Linked, FamilyOf
    <2>2. QED
      BY <1>1, <1>6, <2>1 DEF OneClientEach, Linked, FamilyOf
  <1>9. OfKnownSheets(q)
    BY <1>1 DEF Linked, OfKnownSheets
  <1>10. UploadsDone'
    <2>1. GoesOn(v, q)
      BY <1>4 DEF Importing, GoesOn
    <2>2. QED
      BY <1>2, <1>4, <1>5, <1>9, <2>1, UploadsTaken
  <1>11. ImportOK(q)'
    BY <1>4, NoImport DEF Importing
  <1>12. QED
    BY <1>7, <1>8, <1>10, <1>11
LEMMA CloseIssueFamily ==
    ASSUME RosterInv, SerialInv, FamilyInv, RosterNext, NEW c \in Clerks, CloseIssue(c)
    PROVE  FamilyInv'
  <1>1. PICK v : v = clerk[c]
    OBVIOUS
  <1>2. /\ v.step = "close" /\ clerk' = [clerk EXCEPT ![c] = Away]
        /\ UNCHANGED <<rosterPolicies, rosterClients, restarts>>
        /\ \E i : SetIssue(i, "Resolved")
    BY <1>1 DEF CloseIssue, ClerkAt, Moves
  <1>3. Kept /\ rosterClients' \in Nat /\ rosterClients <= rosterClients'
    BY <1>2, StatusSet DEF FamilyInv
  <1>4. ImportOK(Away)'
    BY AwayIsFree, NoImport
  <1>5. QED
    BY <1>1, <1>2, <1>3, <1>4, FamilyMoves DEF Importing
LEMMA FamilyStays ==
    ASSUME FamilyInv, UNCHANGED <<rosterPolicies, rosterClients, clerk, restarts>>, serial' => serial
    PROVE  FamilyInv'
  <1> SUFFICES ASSUME Undisturbed'
               PROVE  /\ ClientsCounted' /\ OneClientEach' /\ UploadsDone'
                      /\ \A c \in Clerks : ImportOK(clerk[c])'
    BY DEF FamilyInv
  <1>1. ClientsCounted /\ OneClientEach /\ UploadsDone /\ \A c \in Clerks : ImportOK(clerk[c])
    BY DEF FamilyInv, Undisturbed
  <1>2. \A s, i : Settled(s, i)' <=> Settled(s, i)
    BY DEF Settled, Numbered, Doubtful, Pinned
  <1>3. \A s : SettledSheet(s)' <=> SettledSheet(s)
    BY <1>2 DEF SettledSheet
  <1>4. ASSUME NEW c \in Clerks PROVE ImportOK(clerk[c])'
    <2>1. PICK v : v = clerk[c]
      OBVIOUS
    <2>2. ImportOK(v)
      BY <1>1, <2>1
    <2>3. FirstUpload(v) => FirstUpload(v)'
      BY DEF FirstUpload, FamilyOf
    <2>4. ClientTaken(v) => ClientTaken(v)'
      BY DEF ClientTaken
    <2>5. FamiliesOK(v.families) => FamiliesOK(v.families)'
      BY DEF FamiliesOK
    <2>6. v.step \in Importing =>
            /\ \A i \in DOMAIN RowsOfSheet(v.sheet) : i < v.at => Settled(v.sheet, i)'
            /\ FamiliesOK(v.families)'
            /\ (SettledSheet(v.sheet) \/ FirstUpload(v))'
      BY <1>2, <1>3, <2>2, <2>3, <2>5 DEF ImportOK
    <2>7. /\ v.step = "policy" => ClientTaken(v)'
          /\ v.step \in {"policy", "fixed policy"} => v.client \in Nat /\ v.client <= rosterClients'
      BY <2>2, <2>4 DEF ImportOK
    <2>8. ImportOK(v)'
      BY <2>6, <2>7 DEF ImportOK
    <2>9. QED
      BY <2>1, <2>8
  <1>5. ClientsCounted' /\ OneClientEach'
    BY <1>1 DEF ClientsCounted, OneClientEach, FamilyOf
  <1>6. UploadsDone'
    BY <1>1, <1>3 DEF UploadsDone
  <1>7. QED
    BY <1>4, <1>5, <1>6
LEMMA DismissIssueFamily ==
    ASSUME FamilyInv, NEW c, NEW i, DismissIssue(c, i), RosterNext
    PROVE  FamilyInv'
  BY FamilyStays DEF DismissIssue, RosterNext
LEMMA RosterRestartFamily ==
    ASSUME FamilyInv, RosterRestart
    PROVE  FamilyInv'
  BY DEF FamilyInv, RosterRestart, Undisturbed
LEMMA FamilyPauses ==
    ASSUME FamilyInv, UNCHANGED rosterVars
    PROVE  FamilyInv'
  BY FamilyStays DEF rosterVars
LEMMA FamilyStarts ==
    ASSUME RosterInit
    PROVE  FamilyInv
  BY AwayIsFree DEF RosterInit, FamilyInv, ClientsCounted, OneClientEach, UploadsDone, ImportOK, Away,
     Importing
LEMMA FamilySteps ==
    ASSUME SheetsInOrder, RosterInv, SerialInv, FamilyInv, RosterNext
    PROVE  FamilyInv'
  <1>1. ASSUME NEW c \in Clerks, NEW s \in DOMAIN Sheets, StartImport(c, s) PROVE FamilyInv'
    BY <1>1, StartImportFamily
  <1>2. ASSUME NEW c \in Clerks,
               SkipRow(c) \/ FlagRow(c) \/ TakeClient(c) \/ SaveRosterPolicy(c) \/ EndImport(c)
        PROVE  FamilyInv'
    BY <1>2, SkipRowFamily, FlagRowFamily, TakeClientFamily, SaveRosterPolicyFamily, EndImportFamily
  <1>3. ASSUME NEW c \in Clerks, SaveFixedPolicy(c) \/ CloseIssue(c) PROVE FamilyInv'
    BY <1>3, SaveFixedPolicyFamily, CloseIssueFamily
  <1>4. ASSUME NEW c \in Clerks, NEW i \in DOMAIN issues,
               \/ \E no \in FixNumbers : ResolveIssue(c, i, no)
               \/ LinkIssue(c, i) \/ DismissIssue(c, i)
        PROVE  FamilyInv'
    BY <1>4, ResolveIssueFamily, LinkIssueFamily, DismissIssueFamily
  <1>5. CASE RosterRestart
    BY <1>5, RosterRestartFamily
  <1>6. QED
    BY <1>1, <1>2, <1>3, <1>4, <1>5 DEF RosterNext

LEMMA RowsAreAccounted ==
    ASSUME RosterInv, SerialInv, FamilyInv
    PROVE  RowsAccounted
  <1> SUFFICES ASSUME serial PROVE RowsAccounted
    BY DEF RowsAccounted
  <1>1. \A s \in uploaded : \A i \in DOMAIN RowsOfSheet(s) :
           \/ RowsOfSheet(s)[i].policyNo # NoNumber /\ FindByNumber(RowsOfSheet(s)[i].policyNo) # {}
           \/ \E k \in DOMAIN issues : Fingerprint(issues[k].row) = Fingerprint(RowsOfSheet(s)[i])
    BY DEF RosterInv, Numbered, Flagged, Cells, FindByNumber
  <1>2. OnceEach
    BY DEF SerialInv
  <1>3. restarts = 0 => OneClientEach
    BY DEF FamilyInv, Undisturbed
  <1>4. QED
    BY <1>1, <1>2, <1>3 DEF RowsAccounted, OnceEach, OneClientEach, FamilyOf

\* What a sheet promises once its upload ended, for all sheets, clerks and
\* bounds: when requests follow each other, no two policies have one number and a
\* family that an undisturbed server imported has one client.
THEOREM RowsAccountedHolds ==
    ASSUME SheetsInOrder
    PROVE  RosterSpec => []RowsAccounted
  <1>1. RosterInit => RosterInv /\ SerialInv /\ FamilyInv
    BY RosterStarts, TurnStarts, FamilyStarts
  <1>2. RosterInv /\ SerialInv /\ FamilyInv /\ [RosterNext]_rosterVars
           => (RosterInv /\ SerialInv /\ FamilyInv)'
    BY RosterSteps, TurnSteps, FamilySteps, RosterPauses, TurnPauses, FamilyPauses
  <1>3. RosterInv /\ SerialInv /\ FamilyInv => RowsAccounted
    BY RowsAreAccounted
  <1>4. QED
    BY <1>1, <1>2, <1>3, PTL DEF RosterSpec
===============================================================================
