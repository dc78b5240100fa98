------------------------ MODULE PythonHelpersProofs ------------------------
(* What holds of calls for any set of tools and any schemas.               *)
EXTENDS PythonHelpers, TLAPS, FiniteSetTheorems

(* A tool as the registry may hold it.                                     *)
Sound(d) ==
    /\ d \in Definition
    /\ d.req \subseteq Params(d) /\ d.nul \subseteq Params(d)
    /\ \A i, j \in DOMAIN d.params : d.params[i] = d.params[j] => i = j

(* The order of the parameters of a tool.                                  *)
LEMMA ParamsFinite ==
    ASSUME NEW d, Sound(d)
    PROVE  IsFiniteSet(Params(d)) /\ Params(d) \subseteq Words
<1>1. d.params \in Seq(Words)
  BY DEF Sound, Definition
<1>2. PICK n \in Nat : DOMAIN d.params = 1..n
  BY <1>1
<1>3. d.params \in [1..n -> Params(d)] /\ \A p \in Params(d) : \E i \in 1..n : d.params[i] = p
  BY <1>1, <1>2 DEF Params
<1>4. d.params \in Surjection(1..n, Params(d))
  BY <1>3 DEF Surjection
<1>5. IsFiniteSet(1..n)
  BY <1>2, FS_Interval
<1>6. IsFiniteSet(Params(d))
  BY <1>4, <1>5, FS_Surjection
<1>7. QED
  BY <1>1, <1>6 DEF Params

LEMMA BeforeOrder ==
    ASSUME NEW d, Sound(d)
    PROVE  /\ \A p \in Params(d) : Before(d, p, p)
           /\ \A p, q \in Params(d) : Before(d, p, q) \/ Before(d, q, p)
           /\ \A p, q \in Params(d) : Before(d, p, q) /\ Before(d, q, p) => p = q
           /\ \A p, q, r \in Params(d) : Before(d, p, q) /\ Before(d, q, r) => Before(d, p, r)
<1>1. d.params \in Seq(Words)
  BY DEF Sound, Definition
<1>2. DOMAIN d.params \subseteq Int
  BY <1>1
<1>3. \A i, j \in DOMAIN d.params : d.params[i] = d.params[j] => i = j
  BY DEF Sound
<1>4. QED
  BY <1>2, <1>3 DEF Before, Params

(* A place is a number, and differs from the places of all others.         *)
LEMMA PlaceGrows ==
    ASSUME NEW d, Sound(d), NEW S \in SUBSET Params(d),
           NEW p \in S, NEW q \in S, Before(d, p, q), p # q
    PROVE  Place(d, S, p) < Place(d, S, q)
<1> DEFINE P == {r \in S : Before(d, r, p)}
           Q == {r \in S : Before(d, r, q)}
<1>1. IsFiniteSet(Q)
  <2>1. Q \in SUBSET Params(d) /\ IsFiniteSet(Params(d))
    BY ParamsFinite
  <2>2. QED BY <2>1, FS_Subset
<1>2. P \subseteq Q
  BY BeforeOrder
<1>3. q \in Q /\ q \notin P
  BY BeforeOrder
<1>4. Cardinality(P) <= Cardinality(Q) /\ (Cardinality(Q) = Cardinality(P) => Q = P)
  <2>1. P \in SUBSET Q
    BY <1>2
  <2> HIDE DEF P, Q
  <2>2. QED BY <1>1, <2>1, FS_Subset
<1>5. Cardinality(P) \in Nat /\ Cardinality(Q) \in Nat
  <2>1. IsFiniteSet(P)
    <3>1. P \in SUBSET Q
      BY <1>2
    <3> HIDE DEF P, Q
    <3>2. QED BY <1>1, <3>1, FS_Subset
  <2> HIDE DEF P, Q
  <2>2. QED BY <1>1, <2>1, FS_CardinalityType
<1>6. Cardinality(P) < Cardinality(Q)
  <2>1. P # Q
    BY <1>3
  <2> HIDE DEF P, Q
  <2>2. QED BY <1>4, <1>5, <2>1
<1>7. QED BY <1>6 DEF Place

LEMMA PlaceUnique ==
    ASSUME NEW d, Sound(d), NEW S \in SUBSET Params(d),
           NEW p \in S, NEW q \in S, Place(d, S, p) = Place(d, S, q),
           Place(d, S, p) \in Int
    PROVE  p = q
<1>1. Before(d, p, q) \/ Before(d, q, p)
  BY BeforeOrder
<1>2. ASSUME p # q PROVE FALSE
  <2>1. CASE Before(d, p, q)
    <3>1. Place(d, S, p) < Place(d, S, q)
      BY <1>2, <2>1, PlaceGrows
    <3>2. QED BY <3>1
  <2>2. CASE Before(d, q, p)
    <3>1. Place(d, S, q) < Place(d, S, p)
      BY <1>2, <2>2, PlaceGrows
    <3>2. QED BY <3>1
  <2>3. QED BY <1>1, <2>1, <2>2
<1>3. QED BY <1>2

(* A parameter whose place is as early among more of them is preceded by   *)
(* the same ones: up to it, the two orders agree.                          *)
LEMMA SameUpTo ==
    ASSUME NEW d, Sound(d), NEW R \in SUBSET Params(d), NEW N \in SUBSET R,
           NEW last \in N, Place(d, R, last) <= Place(d, N, last)
    PROVE  /\ \A p \in R : Before(d, p, last) => p \in N
           /\ \A p \in N : Before(d, p, last) => Place(d, N, p) = Place(d, R, p)
           /\ Place(d, R, last) = Place(d, N, last)
<1> DEFINE UpTo(S, p) == {q \in S : Before(d, q, p)}
<1>1. IsFiniteSet(UpTo(R, last)) /\ UpTo(N, last) \in SUBSET UpTo(R, last)
  <2>1. UpTo(R, last) \in SUBSET Params(d) /\ IsFiniteSet(Params(d))
    BY ParamsFinite
  <2>2. QED BY <2>1, FS_Subset
<1>2. /\ IsFiniteSet(UpTo(N, last))
      /\ Cardinality(UpTo(N, last)) <= Cardinality(UpTo(R, last))
      /\ Cardinality(UpTo(R, last)) = Cardinality(UpTo(N, last)) => UpTo(R, last) = UpTo(N, last)
  <2> HIDE DEF UpTo
  <2>1. QED BY <1>1, FS_Subset
<1>3. Cardinality(UpTo(N, last)) \in Nat /\ Cardinality(UpTo(R, last)) \in Nat
  <2> HIDE DEF UpTo
  <2>1. QED BY <1>1, <1>2, FS_CardinalityType
<1>4. Cardinality(UpTo(R, last)) <= Cardinality(UpTo(N, last))
  BY DEF Place
<1>5. UpTo(R, last) = UpTo(N, last) /\ Cardinality(UpTo(R, last)) = Cardinality(UpTo(N, last))
  <2> HIDE DEF UpTo
  <2>1. QED BY <1>2, <1>3, <1>4
<1>6. \A p \in R : Before(d, p, last) => p \in N
  BY <1>5
<1>7. ASSUME NEW p \in N, Before(d, p, last) PROVE Place(d, N, p) = Place(d, R, p)
  <2>1. UpTo(R, p) \subseteq UpTo(N, p)
    <3>1. ASSUME NEW q \in R, Before(d, q, p) PROVE q \in N
      <4>1. Before(d, q, last)
        BY <1>7, <3>1, BeforeOrder
      <4>2. QED BY <1>6, <4>1
    <3>2. QED BY <3>1
  <2>2. UpTo(N, p) = UpTo(R, p)
    BY <2>1
  <2>3. QED BY <2>2 DEF Place
<1>8. QED BY <1>5, <1>6, <1>7 DEF Place

(* The tools of the execution are sound, and so is what ptc.help returns.  *)
Callables ==
    /\ \A d \in Tools : Sound(d)
    /\ \A d, e \in Tools : d.name = e.name => d = e
    /\ NamesValid(Tools)

(* The function that the metadata names is the tool's own, if there is one. *)
LEMMA OwnFunction ==
    ASSUME Callables, NEW d \in Tools, NEW e \in Tools, Defined(d) = Helper(e)
    PROVE  d = e
<1>1. CASE d.name = "read"
  <2>1. Helper(e) = "read"
    BY <1>1 DEF Defined
  <2>2. e.name = "read"
    BY <2>1 DEF Callables, NamesValid, Reserved
  <2>3. QED BY <1>1, <2>2 DEF Callables
<1>2. CASE d.name # "read"
  BY <1>2 DEF Defined, Callables, NamesValid
<1>3. QED BY <1>1, <1>2

LEMMA ReadsOwnFunction ==
    ASSUME Callables, NEW d \in Tools, Defined(d) # Helper(d)
    PROVE  RenamedRead(d)
  BY DEF Defined, RenamedRead

(* A call that Python accepts binds what is passed by position to the      *)
(* parameters it is meant for: a required parameter that lost its place    *)
(* would have to be passed by name, and so would be passed twice.          *)
LEMMA PositionsAgree ==
    ASSUME NEW d, Sound(d), NEW args, NEW may,
           args.first \in Nat, args.first > 0,
           Defined(d) \notin Rewrapped,
           Follows(d, args, may), ~Mismatch(d, args)
    PROVE  \A i \in 1..args.first : Takes(d, i) = Meant(d, i)
<1> DEFINE N == Mandatory(d)
           n == args.first
<1>1. d.name # "read"
  BY DEF Defined, Rewrapped
<1>2. N \in SUBSET d.req /\ d.req \in SUBSET Params(d)
  BY <1>1 DEF Mandatory, Sound
<1>3. \A i \in 1..n : Takes(d, i) = {p \in N : Place(d, N, p) = i}
  BY DEF Takes
<1>4. PICK last \in N : Place(d, N, last) = n
  <2>1. n \in 1..n
    OBVIOUS
  <2>2. Takes(d, n) # {}
    BY <2>1 DEF Mismatch
  <2>3. QED BY <1>3, <2>1, <2>2
<1>5. Place(d, d.req, last) \in 1..n
  <2>1. last \in UNION {Takes(d, i) : i \in 1..n}
    <3>1. n \in 1..n /\ last \in Takes(d, n)
      BY <1>3, <1>4
    <3>2. QED BY <3>1
  <2>2. last \notin args.named \cup args.none
    BY <2>1 DEF Mismatch
  <2>3. last \in First(d, n)
    BY <1>2, <1>4, <2>2 DEF Follows
  <2>4. QED BY <2>3 DEF First, Meant
<1>6. /\ \A p \in d.req : Before(d, p, last) => p \in N
      /\ \A p \in N : Before(d, p, last) => Place(d, N, p) = Place(d, d.req, p)
      /\ Place(d, d.req, last) = n
  <2>1. Place(d, d.req, last) <= Place(d, N, last)
    BY <1>4, <1>5
  <2> HIDE DEF N
  <2>2. QED BY <1>2, <1>4, <2>1, SameUpTo
<1>7. ASSUME NEW S \in SUBSET Params(d), last \in S, Place(d, S, last) = n,
             NEW p \in S, NEW i \in 1..n, Place(d, S, p) = i
      PROVE  Before(d, p, last)
  <2>1. last \in Params(d) /\ p \in Params(d)
    BY <1>7
  <2>2. CASE Before(d, last, p) /\ last # p
    <3>1. Place(d, S, last) < Place(d, S, p)
      BY <1>7, <2>2, PlaceGrows
    <3>2. QED BY <1>7, <3>1
  <2>3. QED BY <2>1, <2>2, BeforeOrder
<1>8. ASSUME NEW i \in 1..n PROVE Takes(d, i) = Meant(d, i)
  <2>1. ASSUME NEW p \in Takes(d, i) PROVE p \in Meant(d, i)
    <3>1. p \in N /\ Place(d, N, p) = i
      BY <1>3, <2>1
    <3>2. Before(d, p, last)
      BY <1>2, <1>4, <1>7, <3>1
    <3>3. Place(d, d.req, p) = i
      BY <1>6, <3>1, <3>2
    <3>4. QED BY <1>2, <3>1, <3>3 DEF Meant
  <2>2. ASSUME NEW q \in Meant(d, i) PROVE q \in Takes(d, i)
    <3>1. q \in d.req /\ Place(d, d.req, q) = i
      BY <2>2 DEF Meant
    <3>2. Before(d, q, last)
      BY <1>2, <1>4, <1>6, <1>7, <3>1
    <3>3. q \in N /\ Place(d, N, q) = i
      BY <1>6, <3>1, <3>2
    <3>4. QED BY <1>3, <3>3
  <2>3. QED BY <2>1, <2>2
<1>9. QED BY <1>8

(* Each position means one parameter.                                      *)
LEMMA MeantOne ==
    ASSUME NEW d, Sound(d), NEW i \in Int, NEW p \in Meant(d, i), NEW q \in Meant(d, i)
    PROVE  p = q
<1>1. d.req \in SUBSET Params(d) /\ p \in d.req /\ q \in d.req
  BY DEF Sound, Meant
<1>2. Place(d, d.req, p) = i /\ Place(d, d.req, q) = i
  BY DEF Meant
<1>3. QED BY <1>1, <1>2, PlaceUnique

-----------------------------------------------------------------------------
(* What is known of a call on its way: each stage keeps what the earlier   *)
(* ones found out, since nothing but End and Help changes it.              *)
HelperMay(d) == (Params(d) \ d.req) \cup d.nul

Raised ==
    \/ Helper(asked[1]) \in Rebound \/ Shadowed
    \/ \A d \in Tools : Defined(d) # Helper(asked[1])
    \/ \E d \in Tools : /\ Defined(d) = Helper(asked[1])
                        /\ Follows(asked[1], given, HelperMay(asked[1]))
                        /\ Mismatch(d, given)

SentByHelper ==
    \E d \in Tools : /\ Defined(d) = Helper(asked[1])
                     /\ Follows(asked[1], given, HelperMay(asked[1]))
                     /\ ~Mismatch(d, given)
                     /\ frame = [tool |-> d.name, params |-> DropNone(Bound(d, given))]

SentByName ==
    /\ given.first = 0
    /\ Follows(asked[1], given, asked[1].nul)
    /\ frame = [tool |-> asked[1].name, params |-> Bound(asked[1], given)]

Rejected == \E d \in Tools : d.name = frame.tool /\ ~Conforms(d, frame.params)
Served   == \E d \in Tools : /\ served = <<d>> /\ d.name = frame.tool
                             /\ Conforms(d, frame.params)
Returned == IF served[1].structured THEN kind \in Declared(frame.tool)
            ELSE kind = Adapted(frame.tool)

Executed == {"served", "returned", "lost"}

Journey ==
    /\ IF phase \in {"asked", "called", "raised", "rejected"} \cup Executed
       THEN \E a \in Tools : asked = <<a>> ELSE asked = <<>>
    /\ phase = "raised" => Raised
    /\ phase \in {"called", "rejected"} \cup Executed => SentByHelper \/ SentByName
    /\ phase = "rejected" => Rejected
    /\ IF phase \in Executed THEN Served ELSE served = <<>>
    /\ phase = "returned" => Returned

HelpersInv == TypeOK /\ Callables /\ Journey

LEMMA RegistrySound ==
    ASSUME NEW defs \in Registries
    PROVE  /\ IsFiniteSet(defs) /\ defs \subseteq Definition
           /\ \A d \in defs : Sound(d)
           /\ \A d, e \in defs : d.name = e.name => d = e
  BY HelpersAssumption DEF HelpersAssumption, Sound

LEMMA NothingTyped ==
    /\ NoArguments \in [first : Nat, named : SUBSET Words, none : SUBSET Words]
    /\ NoFrame.tool \in Words
    /\ NoFrame.params \subseteq Words \X (Words \cup {Null})
  BY HelpersAssumption DEF NoArguments, NoFrame, HelpersAssumption

(* Only what a call is made of matters for where it is.                    *)
LEMMA SentKept ==
    ASSUME UNCHANGED <<tools, asked, given, frame>>
    PROVE  /\ Tools' = Tools
           /\ SentByHelper => SentByHelper'
           /\ SentByName => SentByName'
           /\ Raised => Raised'
           /\ Rejected => Rejected'
<1>1. Tools' = Tools
  BY DEF Tools
<1>2. ASSUME NEW d PROVE Bound(d, given)' = Bound(d, given)
  BY DEF Bound, Positional
<1>3. SentByHelper => SentByHelper'
  BY <1>1, <1>2 DEF SentByHelper
<1>4. SentByName => SentByName'
  BY <1>2 DEF SentByName, Bound, Positional
<1>5. Raised => Raised'
  BY <1>1 DEF Raised, Shadowed
<1>6. Rejected => Rejected'
  BY <1>1 DEF Rejected
<1>7. QED BY <1>1, <1>3, <1>4, <1>5, <1>6

LEMMA CallKept ==
    ASSUME UNCHANGED <<phase, tools, asked, given, frame, served, kind>>, HelpersInv,
           registry' \in Registries
    PROVE  HelpersInv'
<1>1. Tools' = Tools
  BY SentKept
<1>2. TypeOK' /\ Callables'
  BY <1>1 DEF HelpersInv, TypeOK, Callables
<1>3. (Served => Served') /\ (Returned => Returned')
  BY <1>1 DEF Served, Returned
<1>4. Journey'
  BY <1>1, <1>3, SentKept DEF HelpersInv, Journey
<1>5. QED BY <1>2, <1>4 DEF HelpersInv

LEMMA InitInv == ASSUME Init PROVE HelpersInv
<1>1. Tools = {}
  BY DEF Init, Tools
<1>2. TypeOK
  BY <1>1, NothingTyped DEF Init, TypeOK, Phases, Kinds
<1>3. Callables
  BY <1>1 DEF Callables, NamesValid
<1>4. Journey
  BY DEF Init, Journey, Executed
<1>5. QED BY <1>2, <1>3, <1>4 DEF HelpersInv

(* The pairs of a call are pairs of names, or of a name and Null.          *)
LEMMA BoundType ==
    ASSUME NEW d \in Definition, asked[1] \in Definition,
           NEW args, args.named \subseteq Words, args.none \subseteq Words,
           d.req \subseteq Params(d), Params(d) \subseteq Words
    PROVE  Bound(d, args) \subseteq Words \X (Words \cup {Null})
<1>1. ASSUME NEW i \in 1..args.first
      PROVE  Takes(d, i) \subseteq Words /\ Meant(asked[1], i) \subseteq Words
  <2>1. d.req \subseteq Words /\ asked[1].req \subseteq Words
    BY DEF Definition
  <2>2. FirstOf(Defined(d)) \in Words
    BY HelpersAssumption DEF FirstOf, HelpersAssumption
  <2>3. Mandatory(d) \subseteq Words
    BY <2>1, HelpersAssumption DEF Mandatory, HelpersAssumption
  <2>4. QED BY <2>1, <2>2, <2>3 DEF Takes, Meant
<1>2. Positional(d, args) \subseteq Words \X Words
  BY <1>1 DEF Positional
<1>3. QED BY <1>2 DEF Bound

LEMMA StepInv == ASSUME HelpersInv, [Next]_vars PROVE HelpersInv'
<1> USE DEF HelpersInv
<1>1. CASE Change
  BY <1>1, CallKept DEF Change
<1>2. CASE Begin
  <2>1. PICK list \in [1..Cardinality(registry) -> registry] :
           {list[i] : i \in DOMAIN list} = registry /\ tools' = list
    BY <1>2 DEF Begin
  <2>2. registry \in Registries
    BY DEF TypeOK
  <2>3. Tools' = registry
    BY <2>1 DEF Tools
  <2>4. tools' \in Seq(Definition)
    <3>1. Cardinality(registry) \in Nat /\ registry \subseteq Definition
      BY <2>2, RegistrySound, FS_CardinalityType
    <3>2. QED BY <2>1, <3>1
  <2>5. Callables'
    BY <1>2, <2>2, <2>3, RegistrySound DEF Begin, Callables
  <2>6. served = <<>> /\ phase' = "program"
    BY <1>2 DEF Begin, Journey, Executed
  <2>7. asked' = <<>>
    BY <1>2 DEF Begin, Journey, Executed
  <2>8. TypeOK'
    BY <1>2, <2>4, <2>5, <2>6, <2>7 DEF Begin, TypeOK, Phases, Callables, NamesValid
  <2>9. Journey'
    BY <1>2, <2>6 DEF Begin, Journey, Executed
  <2>10. QED BY <2>5, <2>8, <2>9
<1>3. CASE BeginFails
  BY <1>3 DEF BeginFails, TypeOK, Phases, Callables, Journey, Executed, Tools
<1>4. CASE End
  <2>1. Tools' = {}
    BY <1>4 DEF End, Tools
  <2>2. TypeOK'
    BY <1>4, <2>1, NothingTyped DEF End, TypeOK, Phases, Kinds
  <2>3. Callables'
    BY <2>1 DEF Callables, NamesValid
  <2>4. Journey'
    BY <1>4 DEF End, Journey, Executed
  <2>5. QED BY <2>2, <2>3, <2>4
<1>5. ASSUME NEW key, Help(key) PROVE HelpersInv'
  <2>1. tools' = tools /\ Tools' = Tools /\ phase' = "asked" /\ served' = <<>>
    BY <1>5 DEF Help, Tools
  <2>2. \E d \in Tools : asked' = <<d>>
    BY <1>5 DEF Help, Tools
  <2>3. TypeOK'
    BY <1>5, <2>1, <2>2, NothingTyped DEF Help, TypeOK, Phases, Kinds
  <2>4. Callables'
    BY <2>1 DEF Callables
  <2>5. Journey'
    BY <2>1, <2>2 DEF Journey, Executed
  <2>6. QED BY <2>3, <2>4, <2>5
<1>6. ASSUME NEW a \in {asked[i] : i \in DOMAIN asked}, NEW args \in Arguments(a),
             CallHelper(args) \/ CallByName(args)
      PROVE  HelpersInv'
  <2>1. PICK b \in Tools : asked = <<b>>
    BY <1>6 DEF CallHelper, CallByName, Journey
  <2>2. a = asked[1] /\ a \in Tools /\ Sound(a)
    BY <2>1 DEF Callables
  <2>3. args.named \subseteq Words /\ args.none \subseteq Words /\ args.first \in Nat
    BY <2>2, ParamsFinite DEF Arguments, Sound, Definition
  <2>4. ASSUME NEW d \in Tools
        PROVE  Bound(d, args) \subseteq Words \X (Words \cup {Null})
    <3>1. Sound(d)
      BY DEF Callables
    <3>2. QED BY <2>2, <2>3, <3>1, BoundType, ParamsFinite DEF Sound
  <2>5. /\ UNCHANGED <<registry, tools, asked, served, kind>> /\ Tools' = Tools
        /\ phase' \in {"called", "raised"} /\ given' = args /\ served = <<>>
    BY <1>6 DEF CallHelper, CallByName, Tools, Journey, Executed
  <2>6. given' \in [first : Nat, named : SUBSET Words, none : SUBSET Words]
    BY <2>2, <2>3, <2>5 DEF Arguments
  <2>7. CASE CallHelper(args)
    <3>1. PICK d \in Tools :
             /\ Defined(d) = Helper(asked[1])
             /\ IF Mismatch(d, args)
                THEN phase' = "raised" /\ frame' = frame
                ELSE /\ phase' = "called"
                     /\ frame' = [tool |-> d.name, params |-> DropNone(Bound(d, args))]
      BY <2>7 DEF CallHelper
    <3>2. Follows(asked[1], args, HelperMay(asked[1]))
      BY <2>7 DEF CallHelper, HelperMay
    <3>3. frame'.tool \in Words /\ frame'.params \subseteq Words \X (Words \cup {Null})
      <4>1. d.name \in Words
        BY DEF Callables, Sound, Definition
      <4>2. QED BY <2>4, <3>1, <4>1 DEF TypeOK, DropNone
    <3>4. TypeOK'
      BY <2>1, <2>5, <2>6, <3>3 DEF TypeOK, Phases
    <3>5. Callables'
      BY <2>5 DEF Callables
    <3>6. Bound(d, args)' = Bound(d, args)
      BY <2>5 DEF Bound, Positional
    <3>7. CASE Mismatch(d, args)
      <4>1. phase' = "raised" /\ Raised'
        BY <2>5, <3>1, <3>2, <3>7 DEF Raised
      <4>2. QED BY <2>1, <2>5, <3>4, <3>5, <4>1 DEF Journey, Executed
    <3>8. CASE ~Mismatch(d, args)
      <4>1. phase' = "called" /\ SentByHelper'
        BY <2>5, <3>1, <3>2, <3>6, <3>8 DEF SentByHelper
      <4>2. QED BY <2>1, <2>5, <3>4, <3>5, <4>1 DEF Journey, Executed
    <3>9. QED BY <3>7, <3>8
  <2>8. CASE CallByName(args)
    <3>1. frame' = [tool |-> a.name, params |-> Bound(a, args)] /\ phase' = "called"
      BY <2>2, <2>8 DEF CallByName
    <3>2. frame'.tool \in Words /\ frame'.params \subseteq Words \X (Words \cup {Null})
      BY <2>2, <2>4, <3>1 DEF Sound, Definition
    <3>3. TypeOK'
      BY <2>1, <2>5, <2>6, <3>1, <3>2 DEF TypeOK, Phases
    <3>4. Callables'
      BY <2>5 DEF Callables
    <3>5. SentByName'
      BY <2>2, <2>5, <2>8, <3>1 DEF CallByName, SentByName, Bound, Positional
    <3>6. QED BY <2>1, <2>5, <3>1, <3>3, <3>4, <3>5 DEF Journey, Executed
  <2>9. QED BY <1>6, <2>7, <2>8
<1>7. CASE HelperMissing
  <2>1. phase = "asked" /\ phase' = "raised" /\ tools' = tools /\ asked' = asked
        /\ Tools' = Tools
    BY <1>7 DEF HelperMissing, Tools
  <2>2. Raised'
    BY <1>7, <2>1 DEF HelperMissing, Raised
  <2>3. Journey'
    BY <1>7, <2>1, <2>2 DEF HelperMissing, Journey, Executed
  <2>4. QED BY <1>7, <2>1, <2>3 DEF HelperMissing, TypeOK, Phases, Callables
<1>8. CASE Serve
  <2>1. UNCHANGED <<registry, tools, asked, given, frame, kind>> /\ Tools' = Tools
        /\ phase = "called"
    BY <1>8 DEF Serve, Tools
  <2>2. PICK d \in Tools :
           /\ d.name = frame.tool
           /\ IF Conforms(d, frame.params)
              THEN phase' = "served" /\ served' = <<d>>
              ELSE phase' = "rejected" /\ served' = served
    BY <1>8 DEF Serve
  <2>3. (SentByHelper \/ SentByName) /\ (SentByHelper \/ SentByName)'
    BY <2>1, SentKept DEF Journey
  <2>4. (\E b \in Tools : asked = <<b>>) /\ served = <<>> /\ d \in Definition
    BY <2>1 DEF Journey, Executed, Callables, Sound
  <2>5. TypeOK'
    BY <2>1, <2>2, <2>4 DEF TypeOK, Phases
  <2>6. Callables'
    BY <2>1 DEF Callables
  <2>7. CASE Conforms(d, frame.params)
    <3>1. phase' = "served" /\ Served'
      BY <2>1, <2>2, <2>7 DEF Served
    <3>2. QED BY <2>1, <2>3, <2>4, <2>5, <2>6, <3>1 DEF Journey, Executed
  <2>8. CASE ~Conforms(d, frame.params)
    <3>1. phase' = "rejected" /\ Rejected' /\ served' = <<>>
      BY <2>1, <2>2, <2>4, <2>8 DEF Rejected
    <3>2. QED BY <2>1, <2>3, <2>4, <2>5, <2>6, <3>1 DEF Journey, Executed
  <2>9. QED BY <2>7, <2>8
<1>9. CASE Answer
  <2>1. UNCHANGED <<registry, tools, asked, given, frame, served>> /\ Tools' = Tools
        /\ phase = "served" /\ phase' = "returned"
    BY <1>9 DEF Answer, Tools
  <2>2. kind' \in Kinds \cup {"none"}
    BY <1>9, <2>1 DEF Answer, Declared, Adapted, Kinds, TypeOK
  <2>3. TypeOK' /\ Callables'
    BY <2>1, <2>2 DEF TypeOK, Phases, Callables
  <2>4. (SentByHelper \/ SentByName)' /\ Served' /\ (\E b \in Tools : asked = <<b>>)
    BY <2>1, SentKept DEF Journey, Executed, Served
  <2>5. Returned'
    BY <1>9, <2>1 DEF Answer, Returned
  <2>6. QED BY <2>1, <2>3, <2>4, <2>5 DEF Journey, Executed
<1>10. CASE Break
  <2>1. /\ UNCHANGED <<registry, tools, asked, given, frame, served, kind>> /\ Tools' = Tools
        /\ Shadowed /\ Shadowed'
    BY <1>10 DEF Break, Tools, Shadowed
  <2>2. TypeOK' /\ Callables'
    BY <1>10, <2>1 DEF Break, TypeOK, Phases, Callables
  <2>3. CASE phase = "program" /\ phase' = "died"
    BY <2>1, <2>2, <2>3 DEF Journey, Executed
  <2>4. CASE phase = "asked" /\ phase' = "raised"
    <3>1. Raised'
      BY <2>1 DEF Raised
    <3>2. QED BY <2>1, <2>2, <2>4, <3>1 DEF Journey, Executed
  <2>5. CASE phase = "served" /\ phase' = "lost"
    <3>1. (SentByHelper \/ SentByName)' /\ Served' /\ (\E b \in Tools : asked = <<b>>)
      BY <2>1, <2>5, SentKept DEF Journey, Executed, Served
    <3>2. QED BY <2>1, <2>2, <2>5, <3>1 DEF Journey, Executed
  <2>6. QED BY <1>10, <2>3, <2>4, <2>5 DEF Break
<1>11. CASE UNCHANGED vars
  BY <1>11, CallKept DEF vars, TypeOK
<1>12. QED
  BY <1>1, <1>2, <1>3, <1>4, <1>5, <1>6, <1>7, <1>8, <1>9, <1>10, <1>11 DEF Next

-----------------------------------------------------------------------------
(* The tool a call is for is the one its schema is of.                     *)
LEMMA SentToAsked ==
    ASSUME HelpersInv, SentByHelper \/ SentByName, NEW a \in Tools, asked = <<a>>,
           NEW d \in Tools, d.name = frame.tool
    PROVE  d = a
<1>1. Callables
  BY DEF HelpersInv
<1>2. CASE SentByHelper
  <2>1. PICK e \in Tools : Defined(e) = Helper(a) /\ frame.tool = e.name
    BY <1>2 DEF SentByHelper
  <2>2. e = a
    BY <1>1, <2>1, OwnFunction
  <2>3. QED BY <1>1, <2>1, <2>2 DEF Callables
<1>3. CASE SentByName
  BY <1>1, <1>3 DEF SentByName, Callables
<1>4. QED BY <1>2, <1>3

LEMMA HelperSends ==
    ASSUME HelpersInv, SentByHelper, NEW a \in Tools, asked = <<a>>
    PROVE  /\ Follows(a, given, HelperMay(a)) /\ ~Mismatch(a, given)
           /\ frame.params = DropNone(Bound(a, given))
<1>1. PICK e \in Tools : /\ Defined(e) = Helper(a)
                         /\ Follows(a, given, HelperMay(a)) /\ ~Mismatch(e, given)
                         /\ frame = [tool |-> e.name, params |-> DropNone(Bound(e, given))]
  BY DEF SentByHelper
<1>2. e = a
  BY <1>1, OwnFunction DEF HelpersInv
<1>3. QED BY <1>1, <1>2

(* What a helper may be called with, and what it may take by position.     *)
LEMMA RewrappedTakes ==
    ASSUME NEW d, Defined(d) \in Rewrapped
    PROVE  Takes(d, 1) = {FirstOf(Defined(d))} /\ \A i \in Int : i # 1 => Takes(d, i) = {}
  BY DEF Takes

(* If all of it conforms, what is passed by position to a function that    *)
(* takes one such argument is what was meant.                              *)
LEMMA RewrappedAgrees ==
    ASSUME NEW d, Sound(d), NEW args, NEW may, args.first \in Nat,
           Defined(d) \in Rewrapped, asked = <<d>>,
           Follows(d, args, may), ~Mismatch(d, args),
           d.req \subseteq {pair[1] : pair \in DropNone(Bound(d, args))}
    PROVE  Positional(d, args) = {<<p, p>> : p \in First(d, args.first)}
<1> DEFINE n == args.first
<1>1. n \in {0, 1}
  <2>1. ASSUME n > 1 PROVE FALSE
    <3>1. 2 \in 1..n /\ Takes(d, 2) = {}
      BY <2>1, RewrappedTakes
    <3>2. QED BY <3>1 DEF Mismatch
  <2>2. QED BY <2>1
<1>2. CASE n = 0
  BY <1>2 DEF Positional, First
<1>3. CASE n = 1
  <2>1. 1..n = {1}
    BY <1>3
  <2>2. First(d, n) = Meant(d, 1)
    BY <2>1 DEF First
  <2>3. Positional(d, args) = {FirstOf(Defined(d))} \X Meant(d, 1)
    BY <2>1, RewrappedTakes DEF Positional
  <2>4. ASSUME NEW q \in Meant(d, 1) PROVE q = FirstOf(Defined(d))
    <3>1. q \in d.req /\ q \notin args.named \cup args.none
      BY <2>2, <2>4 DEF Meant, Follows
    <3>2. PICK pair \in Bound(d, args) : pair[1] = q
      BY <3>1 DEF DropNone
    <3>3. pair \in Positional(d, args)
      BY <3>1, <3>2 DEF Bound
    <3>4. QED BY <2>3, <3>2, <3>3
  <2>5. QED BY <2>2, <2>3, <2>4
<1>4. QED BY <1>1, <1>2, <1>3

LEMMA GeneratedAgrees ==
    ASSUME NEW d, Sound(d), NEW args, NEW may, args.first \in Nat,
           Defined(d) \notin Rewrapped, asked = <<d>>,
           Follows(d, args, may), ~Mismatch(d, args)
    PROVE  Positional(d, args) = {<<p, p>> : p \in First(d, args.first)}
<1> DEFINE n == args.first
<1>1. CASE n = 0
  BY <1>1 DEF Positional, First
<1>2. CASE n > 0
  <2>1. \A i \in 1..n : Takes(d, i) = Meant(d, i)
    BY <1>2, PositionsAgree
  <2>2. Positional(d, args) = UNION {Meant(d, i) \X Meant(d, i) : i \in 1..n}
    BY <2>1 DEF Positional
  <2>3. \A i \in 1..n : \A p, q \in Meant(d, i) : p = q
    BY MeantOne
  <2>4. QED BY <2>2, <2>3 DEF First
<1>3. QED BY <1>1, <1>2

LEMMA AsMeantInv == ASSUME HelpersInv PROVE AsMeant
<1> SUFFICES ASSUME served # <<>> PROVE AsMeant
  BY DEF AsMeant
<1>1. phase \in Executed /\ Served /\ (SentByHelper \/ SentByName)
  BY DEF HelpersInv, Journey
<1>2. PICK a \in Tools : asked = <<a>>
  BY <1>1 DEF HelpersInv, Journey
<1>3. Sound(a) /\ Callables
  BY DEF HelpersInv, Callables
<1>4. PICK d \in Tools : served = <<d>> /\ d.name = frame.tool /\ Conforms(d, frame.params)
  BY <1>1 DEF Served
<1>5. d = a
  BY <1>1, <1>2, <1>4, SentToAsked
<1>6. Null \notin Words
  BY HelpersAssumption DEF HelpersAssumption
<1>7. Params(a) \subseteq Words /\ given.first \in Nat /\ given.named \subseteq Words
  BY <1>3, ParamsFinite DEF HelpersInv, TypeOK
<1>8. \A p \in First(a, given.first) \cup given.named : p # Null
  <2>1. First(a, given.first) \subseteq Params(a)
    BY <1>3 DEF First, Meant, Sound
  <2>2. QED BY <1>6, <1>7, <2>1
<1>9. CASE SentByHelper
  <2>1. /\ Follows(a, given, HelperMay(a)) /\ ~Mismatch(a, given)
        /\ frame.params = DropNone(Bound(a, given))
    BY <1>2, <1>9, HelperSends
  <2>2. Positional(a, given) = {<<p, p>> : p \in First(a, given.first)}
    <3>1. a.req \subseteq {pair[1] : pair \in DropNone(Bound(a, given))}
      BY <1>4, <1>5, <2>1 DEF Conforms
    <3>2. CASE Defined(a) \in Rewrapped
      BY <1>2, <1>3, <1>7, <2>1, <3>1, <3>2, RewrappedAgrees
    <3>3. CASE Defined(a) \notin Rewrapped
      BY <1>2, <1>3, <1>7, <2>1, <3>3, GeneratedAgrees
    <3>4. QED BY <3>2, <3>3
  <2>3. Bound(a, given) = {<<p, p>> : p \in First(a, given.first) \cup given.named}
                          \cup {<<p, Null>> : p \in given.none}
    BY <2>2 DEF Bound
  <2>4. frame.params = {<<p, p>> : p \in First(a, given.first) \cup given.named}
    BY <1>8, <2>1, <2>3 DEF DropNone
  <2>5. DropNone(frame.params) = frame.params
    BY <1>8, <2>4 DEF DropNone
  <2>6. \A pair \in frame.params : pair[2] # Null
    BY <1>8, <2>4
  <2>7. QED BY <1>2, <1>4, <1>5, <2>4, <2>5, <2>6 DEF AsMeant
<1>10. CASE SentByName
  <2>1. given.first = 0 /\ Follows(a, given, a.nul) /\ frame.params = Bound(a, given)
    BY <1>2, <1>10 DEF SentByName
  <2>2. First(a, given.first) = {} /\ Positional(a, given) = {}
    BY <2>1 DEF First, Positional
  <2>3. frame.params = {<<p, p>> : p \in given.named} \cup {<<p, Null>> : p \in given.none}
    BY <2>1, <2>2 DEF Bound
  <2>4. DropNone(frame.params) = {<<p, p>> : p \in given.named}
    BY <1>8, <2>3 DEF DropNone
  <2>5. \A pair \in frame.params : pair[2] = Null => pair[1] \in a.nul
    BY <1>8, <2>1, <2>3 DEF Follows
  <2>6. QED BY <1>2, <1>4, <1>5, <2>2, <2>4, <2>5 DEF AsMeant
<1>11. QED BY <1>1, <1>9, <1>10

-----------------------------------------------------------------------------
(* A schema whose required parameters are one or none, which is the first  *)
(* of a rewrapped function: only that one can be meant by position.        *)
LEMMA OneRequired ==
    ASSUME NEW d, Sound(d), NEW args, NEW may, args.first \in Nat, args.first > 0,
           Defined(d) \in Rewrapped, d.req \subseteq {FirstOf(Defined(d))},
           Follows(d, args, may)
    PROVE  /\ args.first = 1 /\ d.req = {FirstOf(Defined(d))}
           /\ Meant(d, 1) = d.req /\ First(d, 1) = d.req
<1> DEFINE q == FirstOf(Defined(d))
<1>1. 1 \in 1..args.first
  OBVIOUS
<1>2. Meant(d, 1) # {} /\ Meant(d, 1) \subseteq d.req
  BY <1>1 DEF Follows, Meant
<1>3. d.req = {q} /\ Meant(d, 1) = {q}
  BY <1>2
<1>4. ASSUME args.first > 1 PROVE FALSE
  <2>1. 2 \in 1..args.first
    BY <1>4
  <2>2. PICK r \in Meant(d, 2) : TRUE
    BY <2>1 DEF Follows
  <2>3. r = q /\ Place(d, d.req, r) = 2 /\ Place(d, d.req, q) = 1
    BY <1>3, <2>2 DEF Meant
  <2>4. QED BY <2>3
<1>5. 1..1 = {1}
  OBVIOUS
<1>6. First(d, 1) = d.req
  BY <1>3, <1>5 DEF First
<1>7. QED BY <1>3, <1>4, <1>6

(* Python accepts a call that follows the schema unless there is a reason. *)
Excused(d, args) ==
    \/ OtherRead(d)
    \/ OtherFirst(d) /\ args.first > 0
    \/ NullRequired(d, args)

LEMMA AcceptedUnlessExcused ==
    ASSUME NEW d, Sound(d), NEW args, args.first \in Nat,
           Follows(d, args, HelperMay(d)), ~Excused(d, args)
    PROVE  ~Mismatch(d, args)
<1> DEFINE byPosition == UNION {Takes(d, i) : i \in 1..args.first}
           byName == args.named \cup args.none
<1>1. byName \subseteq Params(d) \ First(d, args.first)
  BY DEF Follows
<1>2. Params(d) \subseteq Formals(d) /\ Mandatory(d) \subseteq d.req
  BY DEF Formals, Mandatory, Excused, OtherRead
<1>3. d.req \subseteq First(d, args.first) \cup byName
  BY DEF Follows
<1>4. CASE args.first = 0
  <2>1. First(d, args.first) = {} /\ byPosition = {}
    BY <1>4 DEF First
  <2>2. QED BY <1>1, <1>2, <1>3, <1>4, <2>1 DEF Mismatch
<1>5. CASE args.first > 0 /\ Defined(d) \in Rewrapped
  <2>1. d.req \subseteq {FirstOf(Defined(d))}
    BY <1>5 DEF Excused, OtherFirst
  <2>2. /\ args.first = 1 /\ d.req = {FirstOf(Defined(d))}
        /\ Meant(d, 1) = d.req /\ First(d, 1) = d.req
    BY <1>5, <2>1, OneRequired
  <2>3. Takes(d, 1) = d.req
    BY <1>5, <2>2, RewrappedTakes
  <2>4. 1..args.first = {1}
    BY <2>2
  <2>5. byPosition = d.req
    BY <2>3, <2>4
  <2>6. d.req \subseteq Params(d)
    BY DEF Sound
  <2>7. QED BY <1>1, <1>2, <2>2, <2>3, <2>4, <2>5, <2>6 DEF Mismatch
<1>6. CASE args.first > 0 /\ Defined(d) \notin Rewrapped
  <2>1. Mandatory(d) = d.req
    BY <1>6 DEF Excused, NullRequired, Mandatory, Defined, Rewrapped
  <2>2. \A i \in 1..args.first : Takes(d, i) = Meant(d, i)
    BY <1>6, <2>1 DEF Takes, Meant
  <2>3. byPosition = First(d, args.first)
    BY <2>2 DEF First
  <2>4. \A i \in 1..args.first : Takes(d, i) # {}
    BY <2>2 DEF Follows
  <2>5. First(d, args.first) \subseteq d.req /\ d.req \subseteq Params(d)
    BY DEF First, Meant, Sound
  <2>6. QED BY <1>1, <1>2, <1>3, <2>3, <2>4, <2>5 DEF Mismatch
<1>7. QED BY <1>4, <1>5, <1>6

(* And what arrives conforms.                                              *)
LEMMA ConformsUnlessExcused ==
    ASSUME NEW d, Sound(d), NEW args, args.first \in Nat, asked = <<d>>,
           Follows(d, args, HelperMay(d)), ~Mismatch(d, args), ~Excused(d, args)
    PROVE  Conforms(d, DropNone(Bound(d, args)))
<1> DEFINE sent == DropNone(Bound(d, args))
<1>1. \A p \in Params(d) : p # Null
  BY ParamsFinite, HelpersAssumption DEF HelpersAssumption
<1>2. d.req \subseteq First(d, args.first) \cup args.named \cup args.none
  BY DEF Follows
<1>3. args.none \cap d.req = {}
  <2>1. args.none \cap d.req \subseteq d.nul
    BY DEF Follows, HelperMay
  <2>2. QED BY <2>1 DEF Excused, NullRequired
<1>4. ASSUME NEW p \in args.named PROVE \E pair \in sent : pair[1] = p
  <2>1. p \in Params(d)
    BY <1>4 DEF Follows
  <2>2. <<p, p>> \in sent
    BY <1>1, <1>4, <2>1 DEF DropNone, Bound
  <2>3. QED BY <2>2
<1>5. ASSUME NEW p \in First(d, args.first) PROVE \E pair \in sent : pair[1] = p
  <2>1. p \in d.req /\ p # Null
    BY <1>1 DEF First, Meant, Sound
  <2>2. args.first > 0
    BY DEF First
  <2>3. <<p, p>> \in Positional(d, args)
    <3>1. CASE Defined(d) \in Rewrapped
      <4>1. d.req \subseteq {FirstOf(Defined(d))}
        BY <2>2, <3>1 DEF Excused, OtherFirst
      <4>2. /\ args.first = 1 /\ d.req = {FirstOf(Defined(d))} /\ Meant(d, 1) = d.req
        BY <2>2, <3>1, <4>1, OneRequired
      <4>3. 1 \in 1..args.first /\ p \in Takes(d, 1) /\ p \in Meant(asked[1], 1)
        BY <2>1, <3>1, <4>2, RewrappedTakes
      <4>4. QED BY <4>3 DEF Positional
    <3>2. CASE Defined(d) \notin Rewrapped
      <4>1. \A i \in 1..args.first : Takes(d, i) = Meant(d, i)
        BY <2>2, <3>2, PositionsAgree
      <4>2. QED BY <4>1 DEF First, Positional
    <3>3. QED BY <3>1, <3>2
  <2>4. <<p, p>> \in sent
    BY <2>1, <2>3 DEF DropNone, Bound
  <2>5. QED BY <2>4
<1>6. d.req \subseteq {pair[1] : pair \in sent}
  BY <1>2, <1>3, <1>4, <1>5
<1>7. \A pair \in sent : pair[2] # Null
  BY DEF DropNone
<1>8. QED BY <1>6, <1>7 DEF Conforms

LEMMA RefusedInv == ASSUME HelpersInv PROVE RefusedForAReason
<1> SUFFICES ASSUME phase \in {"raised", "rejected"} PROVE RefusedForAReason
  BY DEF RefusedForAReason
<1> USE DEF Misfits
<1>1. PICK a \in Tools : asked = <<a>>
  BY DEF HelpersInv, Journey
<1>2. Sound(a) /\ Callables /\ given.first \in Nat
  BY DEF HelpersInv, Callables, TypeOK
<1>3. CASE phase = "raised"
  <2>1. Raised
    BY <1>3 DEF HelpersInv, Journey
  <2>2. CASE \A d \in Tools : Defined(d) # Helper(asked[1])
    <3>1. RenamedRead(a)
      BY <1>1, <1>2, <2>2, ReadsOwnFunction
    <3>2. QED BY <1>1, <1>3, <3>1 DEF RefusedForAReason
  <2>3. CASE \E d \in Tools : /\ Defined(d) = Helper(asked[1])
                              /\ Follows(asked[1], given, HelperMay(asked[1]))
                              /\ Mismatch(d, given)
    <3>1. Follows(a, given, HelperMay(a)) /\ Mismatch(a, given)
      BY <1>1, <1>2, <2>3, OwnFunction
    <3>2. Excused(a, given)
      BY <1>2, <3>1, AcceptedUnlessExcused
    <3>3. QED BY <1>1, <1>3, <3>2 DEF Excused, RefusedForAReason
  <2>4. CASE Helper(asked[1]) \in Rebound \/ Shadowed
    BY <1>3, <2>4 DEF RefusedForAReason
  <2>5. QED BY <2>1, <2>2, <2>3, <2>4 DEF Raised
<1>4. CASE phase = "rejected"
  <2>1. (SentByHelper \/ SentByName) /\ Rejected
    BY <1>4 DEF HelpersInv, Journey
  <2>2. ~Conforms(a, frame.params)
    BY <1>1, <2>1, SentToAsked DEF Rejected
  <2>3. CASE SentByHelper
    <3>1. /\ Follows(a, given, HelperMay(a)) /\ ~Mismatch(a, given)
          /\ frame.params = DropNone(Bound(a, given))
      BY <1>1, <2>3, HelperSends
    <3>2. Excused(a, given)
      BY <1>1, <1>2, <2>2, <3>1, ConformsUnlessExcused
    <3>3. QED BY <1>1, <1>4, <3>2 DEF Excused, RefusedForAReason
  <2>4. CASE SentByName
    <3>1. given.first = 0 /\ Follows(a, given, a.nul) /\ frame.params = Bound(a, given)
      BY <1>1, <2>4 DEF SentByName
    <3>2. First(a, given.first) = {} /\ Positional(a, given) = {}
      BY <3>1 DEF First, Positional
    <3>3. frame.params = {<<p, p>> : p \in given.named} \cup {<<p, Null>> : p \in given.none}
      BY <3>1, <3>2 DEF Bound
    <3>4. a.req \subseteq given.named \cup given.none /\ given.none \subseteq a.nul
          /\ given.named \subseteq Params(a)
      BY <3>1, <3>2 DEF Follows
    <3>5. \A p \in given.named : p # Null
      BY <1>2, <3>4, ParamsFinite, HelpersAssumption DEF HelpersAssumption
    <3>6. a.req \subseteq {pair[1] : pair \in frame.params}
      <4>1. ASSUME NEW p \in a.req PROVE \E pair \in frame.params : pair[1] = p
        <5>1. <<p, p>> \in frame.params \/ <<p, Null>> \in frame.params
          BY <3>3, <3>4
        <5>2. QED BY <5>1
      <4>2. QED BY <4>1
    <3>7. Conforms(a, frame.params)
      BY <3>3, <3>4, <3>5, <3>6 DEF Conforms
    <3>8. QED BY <2>2, <3>7
  <2>5. QED BY <2>1, <2>3, <2>4
<1>5. QED BY <1>3, <1>4

LEMMA AnsweredInv == ASSUME HelpersInv PROVE AnsweredAsDeclared
<1>1. ASSUME phase = "returned"
      PROVE  \/ kind \in Declared(asked[1].name)
             \/ asked[1].name = "sg" /\ ~asked[1].structured
  <2>1. Served /\ Returned /\ (SentByHelper \/ SentByName) /\ \E a \in Tools : asked = <<a>>
    BY <1>1 DEF HelpersInv, Journey, Executed
  <2>2. PICK d \in Tools : served = <<d>> /\ d.name = frame.tool
    BY <2>1 DEF Served
  <2>3. asked = <<d>>
    BY <2>1, <2>2, SentToAsked
  <2>4. CASE d.structured
    BY <2>1, <2>2, <2>3, <2>4 DEF Returned
  <2>5. CASE ~d.structured
    <3>1. kind = Adapted(d.name)
      BY <2>1, <2>2, <2>5 DEF Returned
    <3>2. Adapted(d.name) \in Declared(d.name) \/ d.name = "sg"
      BY DEF Adapted, Declared, Kinds
    <3>3. QED BY <2>3, <2>5, <3>1, <3>2
  <2>6. QED BY <2>4, <2>5
<1>2. QED BY <1>1 DEF AnsweredAsDeclared

-----------------------------------------------------------------------------
(* The invariant of calls holds throughout.                                *)
THEOREM HelpersInvariant == Spec => []HelpersInv
<1>1. Init => HelpersInv
  BY InitInv
<1>2. HelpersInv /\ [Next]_vars => HelpersInv'
  BY StepInv
<1>3. QED BY <1>1, <1>2, PTL DEF Spec

(* Every variable keeps its type, and no two tools of an execution share   *)
(* a helper.                                                               *)
THEOREM TypeCorrect == Spec => []TypeOK
<1>1. HelpersInv => TypeOK
  BY DEF HelpersInv
<1>2. QED BY <1>1, HelpersInvariant, PTL

(* A call that follows what ptc.help says arrives or fails for one of the  *)
(* reasons listed, for any tools, schemas and arguments, whatever becomes  *)
(* of the registry meanwhile, and whichever names the text of the program  *)
(* binds after the helpers and looks up.                                   *)
THEOREM CallArrivesHolds == Spec => []CallArrives
<1>1. HelpersInv => CallArrives
  BY AsMeantInv, RefusedInv, AnsweredInv DEF CallArrives
<1>2. QED BY <1>1, HelpersInvariant, PTL
=============================================================================
