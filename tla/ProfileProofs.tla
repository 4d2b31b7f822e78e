---------------------------- MODULE ProfileProofs ----------------------------
(***************************************************************************)
(* Proofs about the profile algorithms: which display an output of a       *)
(* profile is for, what an extended layout comes to and what is recognised *)
(* as active (ProfileMatching), what a workspace plan is read back as      *)
(* (WorkspacePlan), and that the layout of a draft stays in order through  *)
(* every edit (LayoutEditor).                                              *)
(***************************************************************************)
EXTENDS ProfileMatching, WorkspacePlan, LayoutEditor, FiniteSetTheorems, SequenceTheorems,
        WellFoundedInduction, TLAPS

-----------------------------------------------------------------------------
\* Finite sets of numbers, and sizes of sets.

\* A finite set of numbers that is not empty has a greatest one: else a smallest set
\* without one would be left without one when a member is taken out.
LEMMA HasMax ==
  ASSUME NEW S \in SUBSET Int, IsFiniteSet(S), S # {}
  PROVE  Max(S) \in S /\ \A y \in S : Max(S) >= y
<1> DEFINE T == {K \in FiniteSubsetsOf(S) : K # {} /\ ~ \E x \in K : \A y \in K : x >= y}
<1>1. ASSUME T # {} PROVE FALSE
  <2>1. IsWellFoundedOn(StrictSubsetOrdering(S), FiniteSubsetsOf(S))
    BY FS_StrictSubsetOrderingWellFounded
  <2>2. PICK K \in T : \A y \in T : <<y, K>> \notin StrictSubsetOrdering(S)
    BY <1>1, <2>1, WFMin
  <2>3. PICK x \in K : TRUE OBVIOUS
  <2> DEFINE L == K \ {x}
  <2>4. IsFiniteSet(K) /\ K \subseteq S BY DEF FiniteSubsetsOf
  <2>5. L \in FiniteSubsetsOf(S) BY <2>4, FS_RemoveElement DEF FiniteSubsetsOf
  <2>6. <<L, K>> \in StrictSubsetOrdering(S) BY <2>3, <2>4 DEF StrictSubsetOrdering
  <2>7. L = {} \/ \E z \in L : \A y \in L : z >= y BY <2>2, <2>5, <2>6
  <2>8. CASE L = {} BY <2>3, <2>4, <2>8
  <2>9. CASE \E z \in L : \A y \in L : z >= y
    <3>1. PICK z \in L : \A y \in L : z >= y BY <2>9
    <3>2. CASE z >= x BY <2>4, <3>1, <3>2
    <3>3. CASE x >= z BY <2>3, <2>4, <3>1, <3>3
    <3> QED BY <2>3, <2>4, <3>1, <3>2, <3>3
  <2> QED BY <2>7, <2>8, <2>9
<1>2. S \in FiniteSubsetsOf(S) BY DEF FiniteSubsetsOf
<1>3. \E x \in S : \A y \in S : x >= y BY <1>1, <1>2
<1> QED BY <1>3 DEF Max

\* What a function makes of a finite set is finite, and as large if it keeps its members
\* apart.
LEMMA ImageIsFinite ==
  ASSUME NEW S, NEW f, IsFiniteSet(S)
  PROVE  IsFiniteSet({f[x] : x \in S})
<1> DEFINE T == {f[x] : x \in S}
           g == [x \in S |-> f[x]]
<1>1. g \in Surjection(S, T) BY DEF Surjection
<1> QED BY <1>1, FS_Surjection

LEMMA SameSize ==
  ASSUME NEW S, NEW T, NEW f \in [S -> T], IsFiniteSet(S),
         \A x, y \in S : f[x] = f[y] => x = y, \A t \in T : \E x \in S : f[x] = t
  PROVE  IsFiniteSet(T) /\ Cardinality(T) = Cardinality(S)
<1>1. f \in Bijection(S, T) BY DEF Bijection, Injection, IsInjective, Surjection
<1>2. ExistsBijection(S, T) BY <1>1 DEF ExistsBijection
<1> QED BY <1>2, FS_Bijection

\* A set of at most one member.
LEMMA AtMostOne ==
  ASSUME NEW S, IsFiniteSet(S)
  PROVE  /\ Cardinality(S) \in Nat
         /\ Cardinality(S) <= 1 <=> \A x, y \in S : x = y
         /\ S # {} => (Cardinality(S) = 1 <=> \A x, y \in S : x = y)
<1>1. Cardinality(S) \in Nat BY FS_CardinalityType
<1>2. Cardinality(S) = 0 <=> S = {} BY FS_EmptySet
<1>3. Cardinality(S) = 1 <=> \E x : S = {x} BY FS_Singleton
<1>4. (\E x : S = {x}) => \A x, y \in S : x = y OBVIOUS
<1>5. S # {} /\ (\A x, y \in S : x = y) => \E x : S = {x}
  <2>1. ASSUME NEW x \in S, \A a, b \in S : a = b PROVE S = {x} BY <2>1
  <2> QED BY <2>1
<1>6. S = {} => \A x, y \in S : x = y OBVIOUS
<1> QED BY <1>1, <1>2, <1>3, <1>4, <1>5, <1>6

-----------------------------------------------------------------------------
\* Which display an output is for.

LEMMA PortsAreFinite == IsFiniteSet(AllPorts) /\ AllPorts \subseteq Nat
<1>1. IsFiniteSet(Ports \cup {0}) BY FS_AddElement, MatchAssumption
<1>2. AllPorts = Ports \cup {0} BY DEF AllPorts, PanelPort
<1> QED BY <1>1, <1>2, MatchAssumption

LEMMA ConnectedIsFinite ==
  /\ IsFiniteSet(Connected) /\ Connected \subseteq Nat
  /\ \A m : IsFiniteSet(Alike(m)) /\ Alike(m) \subseteq Connected
<1>1. Connected \subseteq AllPorts BY DEF Connected
<1>2. \A m : Alike(m) \subseteq AllPorts /\ Alike(m) \subseteq Connected BY <1>1 DEF Alike
<1>3. \A S \in SUBSET AllPorts : IsFiniteSet(S) BY FS_Subset, PortsAreFinite
<1> QED BY <1>1, <1>2, <1>3, PortsAreFinite

\* Connected displays are at places of their own.
Fitted ==
  /\ fitted \in [AllPorts -> Hardware \cup {NoUnit}]
  /\ path \in [AllPorts -> Paths \cup {NoPath}]
  /\ PathsDiffer

LEMMA KeysAreHardware ==
  ASSUME Fitted, NEW c \in Connected
  PROVE  c \in AllPorts /\ Key(c) \in Hardware
BY DEF Fitted, Connected, Key

\* A place tells which display is there; as a connector's name it is that of the display's.
LEMMA PlacesDiffer ==
  ASSUME Fitted
  PROVE  /\ \A c \in Connected : Stable(c) = c \/ Stable(c) \in Paths
         /\ \A c \in Connected : \A n \in AllPorts : Stable(c) = n => c = n
         /\ \A c, d \in Connected : Stable(c) = Stable(d) => c = d
<1>1. \A c \in Connected : c \in AllPorts /\ path[c] \in Paths \cup {NoPath} BY DEF Connected, Fitted
<1>2. Paths \cap AllPorts = {} BY MatchAssumption
<1>3. \A c, d \in Connected : path[c] = path[d] => c = d \/ path[c] = NoPath
  BY DEF Fitted, PathsDiffer
<1>4. \A c \in Connected : \/ path[c] = NoPath /\ Stable(c) = c
                           \/ path[c] # NoPath /\ Stable(c) = path[c] /\ Stable(c) \in Paths
  BY <1>1 DEF Stable
<1>5. \A c \in Connected : \A n \in AllPorts : Stable(c) = n => c = n BY <1>2, <1>4
<1>6. \A c, d \in Connected : Stable(c) = Stable(d) => c = d BY <1>1, <1>2, <1>3, <1>4
<1> QED BY <1>4, <1>5, <1>6

\* A live key tells what it is the key of.
LEMMA LiveKeys ==
  ASSUME NEW c, NEW m, NEW n
  PROVE  /\ LiveKey(c) = <<m>> => Key(c) = m /\ Cardinality(Alike(m)) <= 1
         /\ LiveKey(c) = <<m, n>> => /\ Key(c) = m /\ Stable(c) = n
                                     /\ ~(Cardinality(Alike(m)) <= 1)
BY DEF LiveKey, UniqueKey

LEMMA LiveKeysDiffer ==
  ASSUME Fitted, NEW c \in Connected, NEW d \in Connected, LiveKey(c) = LiveKey(d)
  PROVE  c = d
<1> DEFINE m == Key(c)
<1>1. IsFiniteSet(Alike(m)) BY ConnectedIsFinite
<1>2. LiveKey(c) = <<m>> \/ LiveKey(c) = <<m, Stable(c)>> BY DEF LiveKey, UniqueKey
<1>3. CASE LiveKey(c) = <<m>>
  <2>1. Key(d) = m /\ Cardinality(Alike(m)) <= 1 BY <1>3, LiveKeys
  <2>2. \A x, y \in Alike(m) : x = y BY <1>1, <2>1, AtMostOne
  <2> QED BY <2>1, <2>2 DEF Alike
<1>4. CASE LiveKey(c) = <<m, Stable(c)>>
  <2>1. Stable(d) = Stable(c) BY <1>4, LiveKeys
  <2> QED BY <2>1, PlacesDiffer
<1> QED BY <1>2, <1>3, <1>4

\* By hardware and connector, an output is for one connected display at most, and a
\* display is the one its own call for.
LEMMA ByIdentityIsOne ==
  ASSUME NEW m, NEW n
  PROVE  /\ ByIdentity(m, n) \subseteq Connected
         /\ \A c, d \in ByIdentity(m, n) : c = d
<1>1. IsFiniteSet(Alike(m)) /\ Alike(m) \subseteq Connected BY ConnectedIsFinite
<1>2. Cardinality(Alike(m)) = 1 => \A c, d \in Alike(m) : c = d BY <1>1, AtMostOne
<1> QED BY <1>1, <1>2 DEF ByIdentity

\* An output is for one connected display at most. A key that is a display's own decides,
\* whatever connector the output was saved on, so that a display in a hub keeps its
\* settings when connectors get other names; a key without a place in the hub, or of
\* hardware that is not there twice, leaves it to the hardware and the connector
\* (MonitorResolver.ResolveOutput).
THEOREM DisplayIsByPlace ==
  ASSUME Fitted, NEW o, o.name \in AllPorts, o.key \in KeysOf(o.match, o.name)
  PROVE  /\ Display(o) \subseteq Connected
         /\ \A c, d \in Display(o) : c = d
         /\ \A c \in Connected : LiveKey(c) = o.key => Display(o) = {c}
         /\ o.key \in {<<o.match>>, <<o.match, o.name>>} \/ Cardinality(Alike(o.match)) <= 1 =>
              Display(o) = ByIdentity(o.match, o.name)
<1> DEFINE m == o.match
           n == o.name
           byKey == {c \in Connected : LiveKey(c) = o.key}
<1>0. IsFiniteSet(Alike(m)) BY ConnectedIsFinite
<1>1. \A c, d \in byKey : c = d BY LiveKeysDiffer
<1>2. Display(o) = IF byKey # {} THEN byKey ELSE ByIdentity(m, n) BY DEF Display
<1>3. Display(o) \subseteq Connected /\ \A c, d \in Display(o) : c = d BY <1>1, <1>2, ByIdentityIsOne
<1>4. \A c \in Connected : LiveKey(c) = o.key => Display(o) = {c} BY <1>1, <1>2
<1>5. \A c \in byKey : c \in Alike(m)
  <2>1. o.key = <<m>> \/ \E p : o.key = <<m, p>> BY DEF KeysOf
  <2> QED BY <2>1, LiveKeys DEF Alike
<1>6. CASE byKey # {} /\ o.key = <<m>>
  <2>1. Cardinality(Alike(m)) <= 1 BY <1>6, LiveKeys
  <2>2. \A c, d \in Alike(m) : c = d BY <1>0, <2>1, AtMostOne
  <2>3. Alike(m) # {} /\ byKey = Alike(m) BY <1>5, <1>6, <2>2
  <2>4. Cardinality(Alike(m)) = 1 BY <1>0, <2>2, <2>3, AtMostOne
  <2>5. Display(o) = ByIdentity(m, n) BY <1>2, <1>6, <2>3, <2>4 DEF ByIdentity
  <2> QED BY <1>3, <1>4, <2>5
<1>7. CASE byKey # {} /\ o.key = <<m, n>>
  <2>1. \A c \in byKey : Stable(c) = n BY <1>7, LiveKeys
  <2>2. \A c \in byKey : c = n BY <2>1, PlacesDiffer
  <2>3. byKey = {n} /\ n \in Alike(m) BY <1>5, <1>7, <2>2
  <2>4. ~(Cardinality(Alike(m)) <= 1) BY <1>7, LiveKeys
  <2>5. Display(o) = ByIdentity(m, n) BY <1>2, <1>7, <2>3, <2>4 DEF ByIdentity
  <2> QED BY <1>3, <1>4, <2>5
<1>8. CASE byKey # {} /\ \E p \in Paths : o.key = <<m, p>> /\ p # n
  <2>1. PICK p \in Paths : o.key = <<m, p>> /\ p # n BY <1>8
  <2>2. ~(Cardinality(Alike(m)) <= 1) BY <1>8, <2>1, LiveKeys
  <2> QED BY <1>3, <1>4, <2>1, <2>2
<1>9. CASE byKey = {} BY <1>2, <1>3, <1>4, <1>9
<1> QED BY <1>6, <1>7, <1>8, <1>9 DEF KeysOf

LEMMA WellFormedIsOne ==
  ASSUME Fitted, NEW S, WellFormed(S), NEW o \in S
  PROVE  Display(o) \subseteq Connected /\ \A c, d \in Display(o) : c = d
<1>1. o.name \in AllPorts /\ o.key \in KeysOf(o.match, o.name) BY DEF WellFormed, Outputs
<1> QED BY <1>1, DisplayIsByPlace

-----------------------------------------------------------------------------
\* Outputs, and what Normalize makes of them.

\* The output of a connected display is for that display.
LEMMA OutputIsForIt ==
  ASSUME Fitted, NEW c \in Connected, NEW set \in [on : BOOLEAN, at : Nat]
  PROVE  LET o == Output(c, set)
         IN /\ o \in Outputs /\ o.key \in KeysOf(o.match, o.name)
            /\ o.match = Key(c) /\ o.name = c /\ o.on = set.on /\ o.at = set.at
            /\ Display(o) = {c} /\ o.key = LiveKey(c)
<1> DEFINE o == Output(c, set)
<1>1. c \in AllPorts /\ Key(c) \in Hardware BY KeysAreHardware
<1>2. LiveKey(c) \in {<<Key(c)>>, <<Key(c), Stable(c)>>} BY DEF LiveKey, UniqueKey
<1>3. LiveKey(c) \in KeysOf(Key(c), c) BY <1>2, PlacesDiffer DEF KeysOf
<1>4. /\ o.key = LiveKey(c) /\ o.match = Key(c) /\ o.name = c /\ o.on = set.on /\ o.at = set.at
  BY DEF Output
<1>5. LiveKey(c) \in UNION {KeysOf(k, d) : k \in Hardware, d \in AllPorts} BY <1>1, <1>3
<1>6. o \in Outputs BY <1>1, <1>5 DEF Output, Outputs
<1>7. Display(o) = {c}
  <2> HIDE DEF o
  <2> QED BY <1>1, <1>3, <1>4, DisplayIsByPlace
<1> QED BY <1>3, <1>4, <1>6, <1>7

\* An output with the key its profile calls for.
Rekeyed(o, S) ==
  [o EXCEPT !.key = UniqueKey(o.match, Disambiguator(o), Cardinality({q \in S : q.match = o.match}))]

LEMMA Disambiguators ==
  ASSUME NEW o, o.key \in KeysOf(o.match, o.name)
  PROVE  /\ o.key = <<o.match>> => Disambiguator(o) = o.name
         /\ \A p : o.key = <<o.match, p>> => Disambiguator(o) = p
         /\ UniqueKey(o.match, Disambiguator(o), 2) \in KeysOf(o.match, o.name)
<1>1. ASSUME o.key = <<o.match>> PROVE Disambiguator(o) = o.name BY <1>1 DEF Disambiguator
<1>2. ASSUME NEW p, o.key = <<o.match, p>> PROVE Disambiguator(o) = p BY <1>2 DEF Disambiguator
<1>3. <<o.match, Disambiguator(o)>> \in KeysOf(o.match, o.name) BY <1>1, <1>2 DEF KeysOf
<1>4. UniqueKey(o.match, Disambiguator(o), 2) = <<o.match, Disambiguator(o)>> BY DEF UniqueKey
<1> QED BY <1>1, <1>2, <1>3, <1>4

LEMMA RekeyedIsTheSame ==
  ASSUME NEW S, NEW o \in Outputs, o.key \in KeysOf(o.match, o.name)
  PROVE  LET x == Rekeyed(o, S)
         IN /\ x \in Outputs /\ x.key \in KeysOf(x.match, x.name)
            /\ x.match = o.match /\ x.name = o.name /\ x.on = o.on /\ x.at = o.at
            /\ x.key = UniqueKey(o.match, Disambiguator(o), Cardinality({q \in S : q.match = o.match}))
<1> DEFINE k == UniqueKey(o.match, Disambiguator(o), Cardinality({q \in S : q.match = o.match}))
           Keys == UNION {KeysOf(h, d) : h \in Hardware, d \in AllPorts}
<1>1. k \in {<<o.match>>, UniqueKey(o.match, Disambiguator(o), 2)} BY DEF UniqueKey
<1>2. k \in KeysOf(o.match, o.name) BY <1>1, Disambiguators DEF KeysOf
<1>3. o.match \in Hardware /\ o.name \in AllPorts BY DEF Outputs
<1> HIDE DEF k
<1>4. k \in Keys BY <1>2, <1>3
<1> HIDE DEF Keys
<1>5. Outputs = [key : Keys, match : Hardware, name : AllPorts, on : BOOLEAN, at : Nat]
  BY DEF Outputs, Keys
<1>6. [o EXCEPT !.key = k] \in Outputs BY <1>4, <1>5
<1>7. LET x == [o EXCEPT !.key = k]
      IN x.match = o.match /\ x.name = o.name /\ x.on = o.on /\ x.at = o.at /\ x.key = k
  BY <1>5
<1>8. Rekeyed(o, S) = [o EXCEPT !.key = k] BY DEF Rekeyed, k
<1> QED BY <1>2, <1>6, <1>7, <1>8 DEF k

LEMMA NormalizedIsRekeyed ==
  ASSUME NEW S, WellFormed(S)
  PROVE  Normalized(S) = {Rekeyed(o, S) : o \in S} /\ WellFormed(Normalized(S))
<1>1. Normalized(S) = {Rekeyed(o, S) : o \in S} BY DEF Normalized, Rekeyed
<1> DEFINE f == [o \in S |-> Rekeyed(o, S)]
<1>2. {f[o] : o \in S} = {Rekeyed(o, S) : o \in S} OBVIOUS
<1>3. IsFiniteSet({f[o] : o \in S})
  <2> HIDE DEF f
  <2> QED BY ImageIsFinite DEF WellFormed
<1>4. \A o \in S : /\ Rekeyed(o, S) \in Outputs
                   /\ Rekeyed(o, S).key \in KeysOf(Rekeyed(o, S).match, Rekeyed(o, S).name)
  BY RekeyedIsTheSame DEF WellFormed
<1>5. WellFormed(Normalized(S)) BY <1>1, <1>2, <1>3, <1>4 DEF WellFormed
<1> QED BY <1>1, <1>5

\* A new key makes an output one for another display only if the profile has it alone of
\* displays that are connected more than once.
LEMMA RekeyedStays ==
  ASSUME Fitted, NEW S, WellFormed(S), NEW o \in S,
         \/ Cardinality(Alike(o.match)) <= 1
         \/ ~(Cardinality({q \in S : q.match = o.match}) <= 1)
  PROVE  Display(Rekeyed(o, S)) = Display(o)
<1> DEFINE x == Rekeyed(o, S)
           m == o.match
           n == o.name
           N == Cardinality({q \in S : q.match = o.match})
<1>1. o \in Outputs /\ o.key \in KeysOf(m, n) /\ n \in AllPorts BY DEF WellFormed, Outputs
<1>2. /\ x.match = m /\ x.name = n /\ x.key \in KeysOf(m, n)
      /\ x.key = UniqueKey(m, Disambiguator(o), N)
  BY <1>1, RekeyedIsTheSame
<1> HIDE DEF x, N
<1>3. CASE Cardinality(Alike(m)) <= 1
  <2>1. Display(x) = ByIdentity(m, n) BY <1>1, <1>2, <1>3, DisplayIsByPlace
  <2>2. Display(o) = ByIdentity(m, n) BY <1>1, <1>3, DisplayIsByPlace
  <2> QED BY <2>1, <2>2 DEF x
<1>4. CASE ~(N <= 1) /\ o.key = <<m>>
  <2>1. Disambiguator(o) = n BY <1>1, <1>4, Disambiguators
  <2>2. x.key = <<m, n>> BY <1>2, <1>4, <2>1 DEF UniqueKey
  <2>3. Display(x) = ByIdentity(m, n) BY <1>1, <1>2, <2>2, DisplayIsByPlace
  <2>4. Display(o) = ByIdentity(m, n) BY <1>1, <1>4, DisplayIsByPlace
  <2> QED BY <2>3, <2>4 DEF x
<1>5. CASE ~(N <= 1) /\ \E p : o.key = <<m, p>>
  <2>1. PICK p : o.key = <<m, p>> BY <1>5
  <2>2. Disambiguator(o) = p BY <1>1, <2>1, Disambiguators
  <2>3. x.key = o.key BY <1>2, <1>5, <2>1, <2>2 DEF UniqueKey
  <2> QED BY <1>2, <2>3 DEF x, Display
<1> QED BY <1>1, <1>3, <1>4, <1>5 DEF KeysOf, N

\* What a profile leaves out is what none of its outputs is for.
LEMMA OmittedIsUnclaimed ==
  ASSUME NEW S, Normalized(S) = S
  PROVE  Omitted(S) = Connected \ Claimed(S)
BY DEF Omitted

-----------------------------------------------------------------------------
\* What ExtendConnected makes of a layout.

\* There is a place to the right of all outputs of a set.
LEMMA EndOf ==
  ASSUME NEW S, WellFormed(S)
  PROVE  LET end == Max({0} \cup {o.at + 1 : o \in S})
         IN end \in Nat /\ \A o \in S : o.at < end
<1> DEFINE f == [o \in S |-> o.at + 1]
           ends == {o.at + 1 : o \in S}
           end == Max({0} \cup ends)
<1>1. {f[o] : o \in S} = ends OBVIOUS
<1>2. IsFiniteSet(ends)
  <2>1. IsFiniteSet({f[o] : o \in S}) BY ImageIsFinite DEF WellFormed
  <2> QED BY <1>1, <2>1
<1>3. IsFiniteSet({0} \cup ends)
  <2> HIDE DEF ends
  <2>1. IsFiniteSet(ends \cup {0}) BY <1>2, FS_AddElement
  <2>2. ends \cup {0} = {0} \cup ends OBVIOUS
  <2> QED BY <2>1, <2>2
<1>4. \A o \in S : o.at \in Nat /\ o.at + 1 \in ends BY DEF WellFormed, Outputs
<1>5. {0} \cup ends \in SUBSET Nat BY <1>4
<1>6. end \in {0} \cup ends /\ \A y \in {0} \cup ends : end >= y
  <2> HIDE DEF ends
  <2> QED BY <1>3, <1>5, HasMax
<1> HIDE DEF end, ends
<1>7. end \in Nat /\ \A o \in S : o.at < end BY <1>4, <1>5, <1>6
<1> QED BY <1>7 DEF end, ends

\* Part of a set of outputs is one.
LEMMA PartIsWellFormed ==
  ASSUME NEW S, WellFormed(S), NEW T \in SUBSET S
  PROVE  WellFormed(T)
<1>1. IsFiniteSet(T) BY FS_Subset DEF WellFormed
<1> QED BY <1>1 DEF WellFormed

\* What is known and on lies before the right end.
LEMMA RightEndIsRight ==
  ASSUME NEW S, WellFormed(S)
  PROVE  RightEnd(S) \in Nat /\ \A o \in Kept(S) : o.on => o.at < RightEnd(S)
<1> DEFINE lit == {q \in S : q.on /\ Display(q) # {}}
<1>1. WellFormed(lit) BY PartIsWellFormed
<1>2. RightEnd(S) = Max({0} \cup {o.at + 1 : o \in lit}) BY DEF RightEnd
<1>3. \A o \in Kept(S) : o.on => o \in lit BY DEF Kept
<1> HIDE DEF lit
<1>4. RightEnd(S) \in Nat /\ \A o \in lit : o.at < RightEnd(S) BY <1>1, <1>2, EndOf
<1> QED BY <1>3, <1>4

\* Displays that are added have places in the order of their connectors.
Rank(c, omitted) == Cardinality({d \in omitted : d < c})

LEMMA RanksDiffer ==
  ASSUME NEW S \in SUBSET Nat, IsFiniteSet(S), NEW c \in S, NEW d \in S, c # d
  PROVE  Rank(c, S) \in Nat /\ Rank(d, S) \in Nat /\ Rank(c, S) # Rank(d, S)
<1> DEFINE below(e) == {x \in S : x < e}
<1>1. \A e \in S : IsFiniteSet(below(e)) BY FS_Subset
<1>2. \A e \in S : Rank(e, S) = Cardinality(below(e)) BY DEF Rank
<1>3. \A e \in S : Rank(e, S) \in Nat BY <1>1, <1>2, FS_CardinalityType
<1>4. ASSUME NEW a \in S, NEW b \in S, a < b PROVE Rank(a, S) # Rank(b, S)
  <2>0. \A x \in S : x < a => x < b BY <1>4
  <2>1. below(a) \in SUBSET below(b) BY <2>0
  <2>2. a \in below(b) /\ a \notin below(a) BY <1>4
  <2>3. Cardinality(below(a)) # Cardinality(below(b)) BY <1>1, <2>1, <2>2, FS_Subset
  <2> QED BY <1>2, <2>3
<1>5. c < d \/ d < c OBVIOUS
<1> QED BY <1>3, <1>4, <1>5

Place(c, S) == [on |-> TRUE, at |-> RightEnd(S) + Rank(c, Omitted(S))]

\* What is added: an output for every display the profile does not know, on, to the
\* right of all it knows, each at a place of its own.
LEMMA AddedIsApart ==
  ASSUME Fitted, NEW S, WellFormed(S)
  PROVE  /\ Added(S) = {Output(c, Place(c, S)) : c \in Omitted(S)}
         /\ Omitted(S) \subseteq Connected
         /\ \A c \in Omitted(S) : Place(c, S) \in [on : BOOLEAN, at : Nat]
         /\ \A c \in Omitted(S) : \A o \in Kept(S) : o.on => o.at < Place(c, S).at
         /\ \A c, d \in Omitted(S) : c # d => Place(c, S).at # Place(d, S).at
<1> DEFINE O == Omitted(S)
<1>1. Added(S) = {Output(c, Place(c, S)) : c \in O} BY DEF Added, Place, Rank
<1>2. O \subseteq Connected BY DEF Omitted
<1>3. O \in SUBSET Nat /\ IsFiniteSet(O) BY <1>2, ConnectedIsFinite, FS_Subset
<1>4. \A c \in O : Rank(c, O) \in Nat
  <2>1. ASSUME NEW c \in O PROVE Rank(c, O) \in Nat
    <3>1. IsFiniteSet({d \in O : d < c}) BY <1>3, FS_Subset
    <3> QED BY <3>1, FS_CardinalityType DEF Rank
  <2> QED BY <2>1
<1>5. RightEnd(S) \in Nat /\ \A o \in Kept(S) : o.on => o.at < RightEnd(S) BY RightEndIsRight
<1>6. \A o \in Kept(S) : o.at \in Nat BY DEF WellFormed, Outputs, Kept
<1>7. \A c \in O : Place(c, S) \in [on : BOOLEAN, at : Nat] BY <1>4, <1>5 DEF Place
<1>8. \A c \in O : Place(c, S).at = RightEnd(S) + Rank(c, O) BY DEF Place
<1>9. \A c \in O : \A o \in Kept(S) : o.on => o.at < Place(c, S).at BY <1>4, <1>5, <1>6, <1>8
<1>10. ASSUME NEW c \in O, NEW d \in O, c # d PROVE Place(c, S).at # Place(d, S).at
  <2>1. Rank(c, O) # Rank(d, O) BY <1>3, <1>10, RanksDiffer
  <2> QED BY <1>4, <1>5, <1>8, <2>1
<1> QED BY <1>1, <1>2, <1>7, <1>9, <1>10

\* An extended layout before its keys are renewed: every display has an output, and
\* those that are added are alone on their displays and at their places.
Joined(S) == Kept(S) \cup Added(S)

LEMMA AddedOutputs ==
  ASSUME Fitted, NEW S, WellFormed(S), NEW c \in Omitted(S)
  PROVE  LET o == Output(c, Place(c, S))
         IN /\ o \in Outputs /\ o.key \in KeysOf(o.match, o.name)
            /\ o.on /\ o.at = Place(c, S).at /\ Display(o) = {c}
<1>1. c \in Connected /\ Place(c, S) \in [on : BOOLEAN, at : Nat] BY AddedIsApart
<1>2. Place(c, S).on BY DEF Place
<1> QED BY <1>1, <1>2, OutputIsForIt

LEMMA JoinedIsWellFormed ==
  ASSUME Fitted, NEW S, WellFormed(S), Normalized(S) = S
  PROVE  WellFormed(Joined(S)) /\ Claimed(Joined(S)) = Connected
<1> DEFINE O == Omitted(S)
           f == [c \in O |-> Output(c, Place(c, S))]
<1>1. Kept(S) \subseteq S BY DEF Kept
<1>2. IsFiniteSet(Kept(S)) BY <1>1, FS_Subset DEF WellFormed
<1>3. O \subseteq Connected /\ Added(S) = {Output(c, Place(c, S)) : c \in O} BY AddedIsApart
<1>4. IsFiniteSet(O) BY <1>3, ConnectedIsFinite, FS_Subset
<1>5. {f[c] : c \in O} = Added(S) BY <1>3
<1>6. IsFiniteSet(Added(S))
  <2>1. IsFiniteSet({f[c] : c \in O}) BY <1>4, ImageIsFinite
  <2> QED BY <1>5, <2>1
<1>7. IsFiniteSet(Joined(S)) BY <1>2, <1>6, FS_Union DEF Joined
<1>8. \A o \in Kept(S) : o \in Outputs /\ o.key \in KeysOf(o.match, o.name)
  BY <1>1 DEF WellFormed
<1>9. \A o \in Added(S) : o \in Outputs /\ o.key \in KeysOf(o.match, o.name)
  BY <1>3, AddedOutputs
<1>10. WellFormed(Joined(S)) BY <1>7, <1>8, <1>9 DEF WellFormed, Joined
<1>11. Claimed(Kept(S)) = Claimed(S) BY DEF Claimed, Kept
<1>12. Claimed(Added(S)) = O
  <2>1. \A c \in O : Display(Output(c, Place(c, S))) = {c} BY AddedOutputs
  <2> QED BY <1>3, <2>1 DEF Claimed
<1>13. Claimed(Joined(S)) = Claimed(Kept(S)) \cup Claimed(Added(S)) BY DEF Claimed, Joined
<1>14. O = Connected \ Claimed(S) BY OmittedIsUnclaimed
<1>15. Claimed(S) \subseteq Connected BY WellFormedIsOne DEF Claimed
<1> QED BY <1>10, <1>11, <1>12, <1>13, <1>14, <1>15

LEMMA JoinedHolds ==
  ASSUME Fitted, NEW S, WellFormed(S), Normalized(S) = S, CanHold(Kept(S))
  PROVE  CanHold(Joined(S))
<1> DEFINE O == Omitted(S)
<1>1. /\ Added(S) = {Output(c, Place(c, S)) : c \in O}
      /\ \A c \in O : Place(c, S) \in [on : BOOLEAN, at : Nat]
      /\ \A c \in O : \A o \in Kept(S) : o.on => o.at < Place(c, S).at
      /\ \A c, d \in O : c # d => Place(c, S).at # Place(d, S).at
  BY AddedIsApart
<1>2. \A o \in Kept(S) : o.at \in Nat /\ Display(o) \subseteq Claimed(S)
  BY DEF WellFormed, Outputs, Kept, Claimed
<1>3. O \cap Claimed(S) = {} BY OmittedIsUnclaimed
<1>4. \A a \in Added(S) : \E c \in O : /\ a = Output(c, Place(c, S))
                                       /\ a.on /\ a.at = Place(c, S).at /\ Display(a) = {c}
  BY <1>1, AddedOutputs
<1>5. ASSUME NEW a \in Added(S), NEW o \in Kept(S)
      PROVE  (o.on => a.at # o.at) /\ Display(a) \cap Display(o) = {}
  <2>1. PICK c \in O : a.at = Place(c, S).at /\ Display(a) = {c} BY <1>4
  <2>2. Place(c, S).at \in Nat BY <1>1
  <2>3. o.on => o.at < a.at BY <1>1, <2>1
  <2> QED BY <1>2, <1>3, <2>1, <2>2, <2>3
<1>6. ASSUME NEW a \in Added(S), NEW b \in Added(S), a # b
      PROVE  a.at # b.at /\ Display(a) \cap Display(b) = {}
  <2>1. PICK c \in O : a = Output(c, Place(c, S)) /\ a.at = Place(c, S).at /\ Display(a) = {c} BY <1>4
  <2>2. PICK d \in O : b = Output(d, Place(d, S)) /\ b.at = Place(d, S).at /\ Display(b) = {d} BY <1>4
  <2>3. c # d BY <1>6, <2>1, <2>2
  <2> QED BY <1>1, <2>1, <2>2, <2>3
<1>7. \A o, q \in Kept(S) : o # q /\ o.on /\ q.on => o.at # q.at BY DEF CanHold
<1>8. \A o, q \in Kept(S) : Display(o) \cap Display(q) # {} => o.on = q.on /\ (o.on => o.at = q.at)
  BY DEF CanHold
<1>9. \A o, q \in Joined(S) : o # q /\ o.on /\ q.on => o.at # q.at
  BY <1>5, <1>6, <1>7 DEF Joined
<1>10. \A o, q \in Joined(S) : Display(o) \cap Display(q) # {} => o.on = q.on /\ (o.on => o.at = q.at)
  BY <1>5, <1>6, <1>8 DEF Joined
<1> QED BY <1>9, <1>10 DEF CanHold

\* An extended layout has an output for every display there is of a hardware key, if what
\* is kept is for displays of its own hardware, so that its keys have a place if there is
\* more than one.
LEMMA JoinedCounts ==
  ASSUME Fitted, NEW S, WellFormed(S), Normalized(S) = S, ByHardware(Kept(S)),
         NEW m, ~(Cardinality(Alike(m)) <= 1)
  PROVE  ~(Cardinality({q \in Joined(S) : q.match = m}) <= 1)
<1> DEFINE J == Joined(S)
           T == {q \in J : q.match = m}
<1>1. IsFiniteSet(Alike(m)) /\ Alike(m) \subseteq Connected BY ConnectedIsFinite
<1>2. PICK c \in Alike(m), d \in Alike(m) : c # d BY <1>1, AtMostOne
<1>3. WellFormed(J) /\ Claimed(J) = Connected BY JoinedIsWellFormed
<1>4. \A q \in J : \A e \in Display(q) : Key(e) = q.match
  <2>1. \A q \in Kept(S) : \A e \in Display(q) : Key(e) = q.match BY DEF ByHardware
  <2>2. \A q \in Added(S) : \A e \in Display(q) : Key(e) = q.match
    <3>1. ASSUME NEW e \in Omitted(S)
          PROVE  /\ Display(Output(e, Place(e, S))) = {e}
                 /\ Output(e, Place(e, S)).match = Key(e)
      <4>1. e \in Connected /\ Place(e, S) \in [on : BOOLEAN, at : Nat] BY AddedIsApart
      <4> QED BY <4>1, OutputIsForIt
    <3>2. Added(S) = {Output(e, Place(e, S)) : e \in Omitted(S)} BY AddedIsApart
    <3> QED BY <3>1, <3>2
  <2> QED BY <2>1, <2>2 DEF Joined
<1> HIDE DEF J
<1>5. PICK x \in J : c \in Display(x) BY <1>1, <1>2, <1>3 DEF Claimed
<1>6. PICK y \in J : d \in Display(y) BY <1>1, <1>2, <1>3 DEF Claimed
<1>7. x \in T /\ y \in T BY <1>2, <1>4, <1>5, <1>6 DEF Alike
<1>8. x # y BY <1>2, <1>3, <1>5, <1>6, WellFormedIsOne
<1>9. IsFiniteSet(T) BY <1>3, FS_Subset DEF WellFormed
<1> HIDE DEF T
<1>10. ~(Cardinality(T) <= 1) BY <1>7, <1>8, <1>9, AtMostOne
<1> QED BY <1>10 DEF T, J

\* New keys that move no output to another display change nothing.
LEMMA NormalizedHolds ==
  ASSUME NEW S, WellFormed(S), CanHold(S), \A o \in S : Display(Rekeyed(o, S)) = Display(o)
  PROVE  CanHold(Normalized(S)) /\ Claimed(Normalized(S)) = Claimed(S)
<1>1. Normalized(S) = {Rekeyed(o, S) : o \in S} BY NormalizedIsRekeyed
<1>2. \A o \in S : Rekeyed(o, S).on = o.on /\ Rekeyed(o, S).at = o.at BY RekeyedIsTheSame DEF WellFormed
<1>3. \A o \in S : Display(Rekeyed(o, S)) = Display(o) OBVIOUS
<1>4. ASSUME NEW x \in Normalized(S), NEW y \in Normalized(S)
      PROVE  /\ x # y /\ x.on /\ y.on => x.at # y.at
             /\ Display(x) \cap Display(y) # {} => x.on = y.on /\ (x.on => x.at = y.at)
  <2>1. PICK o \in S : x = Rekeyed(o, S) BY <1>1
  <2>2. PICK q \in S : y = Rekeyed(q, S) BY <1>1
  <2>3. x.on = o.on /\ x.at = o.at /\ Display(x) = Display(o) BY <1>2, <1>3, <2>1
  <2>4. y.on = q.on /\ y.at = q.at /\ Display(y) = Display(q) BY <1>2, <1>3, <2>2
  <2>5. x # y => o # q BY <2>1, <2>2
  <2>6. o # q /\ o.on /\ q.on => o.at # q.at BY DEF CanHold
  <2>7. Display(o) \cap Display(q) # {} => o.on = q.on /\ (o.on => o.at = q.at) BY DEF CanHold
  <2> QED BY <2>3, <2>4, <2>5, <2>6, <2>7
<1>5. CanHold(Normalized(S)) BY <1>4 DEF CanHold
<1>6. Claimed(Normalized(S)) = Claimed(S)
  <2>1. {Display(x) : x \in Normalized(S)} = {Display(o) : o \in S} BY <1>1, <1>3
  <2> QED BY <2>1 DEF Claimed
<1> QED BY <1>5, <1>6

\* Whatever profiles there are and whatever is plugged in, an extended layout fits: the
\* places added are apart, and its keys have a place for every display that is not alone
\* (ExtendConnected).
THEOREM ExtensionsFit ==
  ASSUME Fitted, \A n \in Saved : IsProfile(profiles[n])
  PROVE  ExtensionFits
<1> SUFFICES ASSUME NEW n \in Saved,
                    ~profiles[n].strict, Omitted(profiles[n].outputs) # {},
                    ByHardware(Kept(profiles[n].outputs)), CanHold(Kept(profiles[n].outputs))
             PROVE  /\ Claimed(Extended(profiles[n])) = Connected
                    /\ CanHold(Extended(profiles[n]))
  BY DEF ExtensionFits
<1> DEFINE S == profiles[n].outputs
           J == Joined(S)
<1>1. WellFormed(S) /\ Normalized(S) = S BY DEF IsProfile
<1>2. Extended(profiles[n]) = Normalized(J) BY DEF Extended, Joined
<1>3. WellFormed(J) /\ Claimed(J) = Connected BY <1>1, JoinedIsWellFormed
<1>4. CanHold(J) BY <1>1, JoinedHolds
<1>5. \A m : Cardinality(Alike(m)) <= 1 \/ ~(Cardinality({q \in J : q.match = m}) <= 1)
  BY <1>1, JoinedCounts
<1> HIDE DEF J
<1>6. \A o \in J : Display(Rekeyed(o, J)) = Display(o) BY <1>3, <1>5, RekeyedStays
<1> QED BY <1>2, <1>3, <1>4, <1>6, NormalizedHolds

-----------------------------------------------------------------------------
\* What is recognised as active. A set of outputs is one to one with the displays when
\* each is for a display of its own, by its hardware, and every display has one.
OneToOne(S) ==
  /\ \A o \in S : \E c \in Connected : Display(o) = {c} /\ Key(c) = o.match
  /\ \A c \in Connected : \E o \in S : Display(o) = {c}
  /\ \A o, q \in S : Display(o) = Display(q) => o = q

\* There are then as many outputs of one hardware key as displays that are alike.
LEMMA OneToOneCounts ==
  ASSUME NEW S, OneToOne(S), NEW m
  PROVE  Cardinality({o \in S : o.match = m}) = Cardinality(Alike(m))
<1> DEFINE A == Alike(m)
           T == {o \in S : o.match = m}
           f == [c \in A |-> CHOOSE o \in S : Display(o) = {c}]
<1>1. A \subseteq Connected /\ IsFiniteSet(A) BY ConnectedIsFinite
<1>2. \A o \in S : \E c \in Connected : Display(o) = {c} /\ Key(c) = o.match BY DEF OneToOne
<1>3. \A o, q \in S : Display(o) = Display(q) => o = q BY DEF OneToOne
<1>4. \A c \in A : f[c] \in S /\ Display(f[c]) = {c} BY <1>1 DEF OneToOne
<1>5. DOMAIN f = A /\ f = [c \in A |-> f[c]] OBVIOUS
<1>6. \A c \in A : Key(c) = m BY DEF Alike
<1>7. \A c \in Connected : Key(c) = m => c \in A BY DEF Alike
<1> HIDE DEF f, A
<1>8. \A c \in A : f[c].match = m
  <2>1. ASSUME NEW c \in A PROVE f[c].match = m
    <3>1. PICK d \in Connected : Display(f[c]) = {d} /\ Key(d) = f[c].match BY <1>2, <1>4
    <3>2. c = d BY <1>4, <3>1
    <3> QED BY <1>6, <3>1, <3>2
  <2> QED BY <2>1
<1>9. f \in [A -> T] BY <1>4, <1>5, <1>8
<1>10. \A c, d \in A : f[c] = f[d] => c = d BY <1>4
<1>11. \A o \in T : \E c \in A : f[c] = o
  <2>1. ASSUME NEW o \in T PROVE \E c \in A : f[c] = o
    <3>1. PICK c \in Connected : Display(o) = {c} /\ Key(c) = o.match BY <1>2
    <3>2. c \in A BY <1>7, <3>1
    <3>3. f[c] = o BY <1>3, <1>4, <3>1, <3>2
    <3> QED BY <3>2, <3>3
  <2> QED BY <2>1
<1> HIDE DEF T
<1>12. Cardinality(T) = Cardinality(A) BY <1>1, <1>9, <1>10, <1>11, SameSize
<1> QED BY <1>12 DEF T, A

\* The outputs that are at the places of their displays have the displays' keys once
\* Normalize has given them new ones.
InPlace(S) ==
  \A o \in S : \A c \in Display(o) : Cardinality(Alike(Key(c))) > 1 => Disambiguator(o) = Stable(c)

LEMMA OneToOneKeys ==
  ASSUME Fitted, NEW S, WellFormed(S), OneToOne(S), InPlace(S),
         NEW o \in S, NEW c \in Connected, Display(o) = {c}
  PROVE  Rekeyed(o, S).key = LiveKey(c)
<1> DEFINE m == Key(c)
           N == Cardinality(Alike(m))
<1>1. Key(c) = o.match
  <2>1. PICK d \in Connected : Display(o) = {d} /\ Key(d) = o.match BY DEF OneToOne
  <2> QED BY <2>1
<1>2. Cardinality({q \in S : q.match = o.match}) = N BY <1>1, OneToOneCounts
<1>3. Rekeyed(o, S).key = UniqueKey(m, Disambiguator(o), N)
  BY <1>1, <1>2, RekeyedIsTheSame DEF WellFormed
<1>4. N \in Nat
  <2>1. IsFiniteSet(Alike(m)) BY ConnectedIsFinite
  <2> QED BY <2>1, AtMostOne
<1>5. LiveKey(c) = UniqueKey(m, Stable(c), N) BY DEF LiveKey
<1>6. N > 1 => Disambiguator(o) = Stable(c) BY DEF InPlace
<1> HIDE DEF N
<1>7. CASE N <= 1 BY <1>3, <1>5, <1>7 DEF UniqueKey
<1>8. CASE N > 1 BY <1>3, <1>5, <1>6, <1>8
<1> QED BY <1>4, <1>7, <1>8

\* Two such sets have as many outputs, one with the key of each display.
LEMMA OneToOneNormalized ==
  ASSUME Fitted, NEW S, WellFormed(S), OneToOne(S), InPlace(S)
  PROVE  /\ Cardinality(Normalized(S)) = Cardinality(Connected)
         /\ \A c \in Connected : \A o \in S : Display(o) = {c} =>
              \E x \in Normalized(S) : x.key = LiveKey(c) /\ x.on = o.on /\ x.at = o.at
<1> DEFINE g(c) == CHOOSE o \in S : Display(o) = {c}
           f == [c \in Connected |-> Rekeyed(g(c), S)]
           N == Normalized(S)
<1>1. N = {Rekeyed(o, S) : o \in S} BY NormalizedIsRekeyed
<1>2. \A c \in Connected : g(c) \in S /\ Display(g(c)) = {c} BY DEF OneToOne
<1>3. \A o \in S : \E c \in Connected : Display(o) = {c} BY DEF OneToOne
<1>4. \A o, q \in S : Display(o) = Display(q) => o = q BY DEF OneToOne
<1>5. \A o \in S : \A c \in Connected : Display(o) = {c} => Rekeyed(o, S).key = LiveKey(c)
  BY OneToOneKeys
<1> HIDE DEF g, N
<1>6. f \in [Connected -> N] BY <1>1, <1>2
<1>7. \A c, d \in Connected : f[c] = f[d] => c = d
  <2>1. ASSUME NEW c \in Connected, NEW d \in Connected, f[c] = f[d] PROVE c = d
    <3>1. LiveKey(c) = LiveKey(d) BY <1>2, <1>5, <2>1
    <3> QED BY <3>1, LiveKeysDiffer
  <2> QED BY <2>1
<1>8. \A x \in N : \E c \in Connected : f[c] = x
  <2>1. ASSUME NEW x \in N PROVE \E c \in Connected : f[c] = x
    <3>1. PICK o \in S : x = Rekeyed(o, S) BY <1>1
    <3>2. PICK c \in Connected : Display(o) = {c} BY <1>3
    <3>3. g(c) = o BY <1>2, <1>4, <3>2
    <3> QED BY <3>1, <3>3
  <2> QED BY <2>1
<1> HIDE DEF f
<1>9. Cardinality(N) = Cardinality(Connected) BY <1>6, <1>7, <1>8, ConnectedIsFinite, SameSize
<1>10. \A o \in S : Rekeyed(o, S).on = o.on /\ Rekeyed(o, S).at = o.at
  BY RekeyedIsTheSame DEF WellFormed
<1> QED BY <1>1, <1>5, <1>9, <1>10 DEF N

\* A complete profile, with the displays it leaves out kept off.
Filled(S) == S \cup {Output(c, Off) : c \in Omitted(S)}

LEMMA OffOutputs ==
  ASSUME Fitted, NEW c \in Connected
  PROVE  LET o == Output(c, Off)
         IN /\ o \in Outputs /\ o.key \in KeysOf(o.match, o.name)
            /\ o.match = Key(c) /\ o.on = FALSE /\ Display(o) = {c} /\ o.key = LiveKey(c)
<1>1. Off \in [on : BOOLEAN, at : Nat] /\ Off.on = FALSE BY DEF Off
<1> QED BY <1>1, OutputIsForIt

\* An output made from a display has its place, and new keys leave it as it is.
LEMMA OwnPlace ==
  ASSUME NEW c, NEW o, o.key = LiveKey(c), Cardinality(Alike(Key(c))) > 1
  PROVE  Disambiguator(o) = Stable(c)
<1>1. IsFiniteSet(Alike(Key(c))) BY ConnectedIsFinite
<1>2. Cardinality(Alike(Key(c))) \in Nat BY <1>1, AtMostOne
<1>3. o.key = <<Key(c), Stable(c)>> BY <1>2 DEF LiveKey, UniqueKey
<1> QED BY <1>3 DEF Disambiguator

LEMMA FilledIsOneToOne ==
  ASSUME Fitted, NEW S, WellFormed(S), Normalized(S) = S, ByHardware(S),
         \A o \in S : Display(o) # {},
         \A o, q \in S : o # q => Display(o) \cap Display(q) = {}
  PROVE  /\ WellFormed(Filled(S)) /\ OneToOne(Filled(S))
         /\ InPlace(S) => InPlace(Filled(S))
<1> DEFINE O == Omitted(S)
           f == [c \in O |-> Output(c, Off)]
           D == {Output(c, Off) : c \in O}
<1>1. O = Connected \ Claimed(S) /\ O \subseteq Connected BY OmittedIsUnclaimed
<1>2. IsFiniteSet(O) BY <1>1, ConnectedIsFinite, FS_Subset
<1>3. IsFiniteSet(D)
  <2>1. IsFiniteSet({f[c] : c \in O})
    <3> HIDE DEF O, f
    <3> QED BY <1>2, ImageIsFinite
  <2>2. {f[c] : c \in O} = D OBVIOUS
  <2> QED BY <2>1, <2>2
<1>4. \A c \in O : LET o == Output(c, Off)
                   IN /\ o \in Outputs /\ o.key \in KeysOf(o.match, o.name)
                      /\ o.match = Key(c) /\ Display(o) = {c} /\ o.key = LiveKey(c)
  BY <1>1, OffOutputs
<1>5. WellFormed(Filled(S))
  <2>1. IsFiniteSet(S \cup D) BY <1>3, FS_Union DEF WellFormed
  <2>2. Filled(S) = S \cup D BY DEF Filled
  <2>3. \A o \in D : o \in Outputs /\ o.key \in KeysOf(o.match, o.name) BY <1>4
  <2>4. \A o \in S : o \in Outputs /\ o.key \in KeysOf(o.match, o.name) BY DEF WellFormed
  <2> HIDE DEF D
  <2> QED BY <2>1, <2>2, <2>3, <2>4 DEF WellFormed
<1>6. \A o \in S : \E c \in Connected : Display(o) = {c} /\ Key(c) = o.match
  <2>1. ASSUME NEW o \in S PROVE \E c \in Connected : Display(o) = {c} /\ Key(c) = o.match
    <3>1. PICK c \in Display(o) : TRUE OBVIOUS
    <3>2. Display(o) \subseteq Connected /\ \A a, b \in Display(o) : a = b BY WellFormedIsOne
    <3>3. Display(o) = {c} /\ Key(c) = o.match BY <3>2 DEF ByHardware
    <3> QED BY <3>2, <3>3
  <2> QED BY <2>1
<1>7. \A o \in D : \E c \in O : /\ o = Output(c, Off) /\ Display(o) = {c} /\ Key(c) = o.match
                                /\ o.key = LiveKey(c)
  BY <1>4
<1>8. \A c \in Connected : \E o \in Filled(S) : Display(o) = {c}
  <2>1. ASSUME NEW c \in Connected, c \in O PROVE \E o \in Filled(S) : Display(o) = {c}
    BY <1>4, <2>1 DEF Filled
  <2>2. ASSUME NEW c \in Connected, c \notin O PROVE \E o \in Filled(S) : Display(o) = {c}
    <3>1. PICK o \in S : c \in Display(o) BY <1>1, <2>2 DEF Claimed
    <3>2. PICK d \in Connected : Display(o) = {d} BY <1>6
    <3> QED BY <3>1, <3>2 DEF Filled
  <2> QED BY <2>1, <2>2
<1>9. \A o, q \in S : Display(o) = Display(q) => o = q BY <1>6
<1>10. \A o, q \in D : Display(o) = Display(q) => o = q BY <1>7
<1>11. \A o \in S, q \in D : Display(o) # Display(q)
  <2>1. ASSUME NEW o \in S, NEW q \in D PROVE Display(o) # Display(q)
    <3>1. PICK c \in O : Display(q) = {c} BY <1>7
    <3>2. Display(o) \subseteq Claimed(S) BY DEF Claimed
    <3> QED BY <1>1, <3>1, <3>2
  <2> QED BY <2>1
<1>12. OneToOne(Filled(S))
  <2>1. Filled(S) = S \cup D BY DEF Filled
  <2> HIDE DEF D
  <2>2. \A o, q \in Filled(S) : Display(o) = Display(q) => o = q BY <1>9, <1>10, <1>11, <2>1
  <2>3. \A o \in Filled(S) : \E c \in Connected : Display(o) = {c} /\ Key(c) = o.match
    BY <1>1, <1>6, <1>7, <2>1
  <2> QED BY <1>8, <2>2, <2>3 DEF OneToOne
<1>13. InPlace(S) => InPlace(Filled(S))
  <2>1. Filled(S) = S \cup D BY DEF Filled
  <2> HIDE DEF D
  <2>2. \A o \in D : \A c \in Display(o) : Cardinality(Alike(Key(c))) > 1 => Disambiguator(o) = Stable(c)
    <3>1. ASSUME NEW c \in O, NEW o, o.key = LiveKey(c), Cardinality(Alike(Key(c))) > 1
          PROVE  Disambiguator(o) = Stable(c)
      BY <3>1, OwnPlace
    <3> QED BY <1>7, <3>1
  <2> QED BY <2>1, <2>2 DEF InPlace
<1> QED BY <1>5, <1>12, <1>13

\* The compositor shows of a layout, for each display, what the output for it says.
LEMMA ShowingIsTyped ==
  ASSUME NEW S, WellFormed(S)
  PROVE  Showing(S) \in [AllPorts -> [on : BOOLEAN, at : Nat]]
<1>1. \A o \in S : o.on \in BOOLEAN /\ o.at \in Nat BY DEF WellFormed, Outputs
<1>2. Off \in [on : BOOLEAN, at : Nat] BY DEF Off
<1> DEFINE q(c) == CHOOSE o \in S : c \in Display(o)
           set(c) == [on |-> q(c).on, at |-> IF q(c).on THEN q(c).at ELSE 0]
<1>3. ASSUME NEW c, \E o \in S : c \in Display(o) PROVE set(c) \in [on : BOOLEAN, at : Nat]
  <2>1. q(c) \in S BY <1>3
  <2> QED BY <1>1, <2>1
<1>4. Showing(S) = [c \in AllPorts |-> IF \E o \in S : c \in Display(o) THEN set(c) ELSE Off]
  BY DEF Showing
<1> HIDE DEF set
<1> QED BY <1>2, <1>3, <1>4

LEMMA ShowingIsAsSaid ==
  ASSUME NEW S, \A o, q \in S : o # q => Display(o) \cap Display(q) = {}, NEW c \in AllPorts
  PROVE  /\ \A o \in S : c \in Display(o) =>
              Showing(S)[c].on = o.on /\ (o.on => Showing(S)[c].at = o.at)
         /\ c \notin Claimed(S) => Showing(S)[c].on = FALSE
<1>1. ASSUME NEW o \in S, c \in Display(o)
      PROVE  Showing(S)[c].on = o.on /\ (o.on => Showing(S)[c].at = o.at)
  <2>1. \A q \in S : c \in Display(q) => q = o BY <1>1
  <2>2. (CHOOSE q \in S : c \in Display(q)) = o BY <1>1, <2>1
  <2> QED BY <1>1, <2>2 DEF Showing
<1>2. ASSUME c \notin Claimed(S) PROVE Showing(S)[c].on = FALSE
  <2>1. ~ \E o \in S : c \in Display(o) BY <1>2 DEF Claimed
  <2> QED BY <2>1 DEF Showing, Off
<1> QED BY <1>1, <1>2

\* The live state as a profile has every display's own key and settings, and leaves none
\* out.
Live(state) == {Output(c, state[c]) : c \in Connected}

LEMMA LiveIsOneToOne ==
  ASSUME Fitted, NEW state \in [AllPorts -> [on : BOOLEAN, at : Nat]]
  PROVE  /\ WellFormed(Live(state)) /\ OneToOne(Live(state)) /\ InPlace(Live(state))
         /\ Normalized(Live(state)) = Live(state)
         /\ \A c \in Connected : \E o \in Live(state) :
              Display(o) = {c} /\ o.on = state[c].on /\ o.at = state[c].at
<1> DEFINE f == [c \in Connected |-> Output(c, state[c])]
<1>1. \A c \in Connected : c \in AllPorts BY DEF Connected
<1>2. IsFiniteSet({f[c] : c \in Connected})
  <2> HIDE DEF f
  <2> QED BY ConnectedIsFinite, ImageIsFinite
<1>3. {f[c] : c \in Connected} = Live(state) BY DEF Live
<1>4. \A c \in Connected : LET o == Output(c, state[c])
                           IN /\ o \in Outputs /\ o.key \in KeysOf(o.match, o.name)
                              /\ o.match = Key(c) /\ o.on = state[c].on /\ o.at = state[c].at
                              /\ Display(o) = {c} /\ o.key = LiveKey(c)
  BY <1>1, OutputIsForIt
<1>5. WellFormed(Live(state)) BY <1>2, <1>3, <1>4 DEF WellFormed, Live
<1>6. OneToOne(Live(state))
  <2>1. \A o \in Live(state) : \E c \in Connected : /\ o = Output(c, state[c])
                                                   /\ Display(o) = {c} /\ Key(c) = o.match
    BY <1>4 DEF Live
  <2> HIDE DEF f
  <2>2. \A c \in Connected : \E o \in Live(state) : Display(o) = {c} BY <1>4 DEF Live
  <2>3. \A o, q \in Live(state) : Display(o) = Display(q) => o = q
    <3>1. ASSUME NEW o \in Live(state), NEW q \in Live(state), Display(o) = Display(q)
          PROVE  o = q
      <4>1. PICK c \in Connected : o = Output(c, state[c]) /\ Display(o) = {c} BY <2>1
      <4>2. PICK d \in Connected : q = Output(d, state[d]) /\ Display(q) = {d} BY <2>1
      <4>3. c = d BY <3>1, <4>1, <4>2
      <4> QED BY <4>1, <4>2, <4>3
    <3> QED BY <3>1
  <2>4. \A o \in Live(state) : \E c \in Connected : Display(o) = {c} /\ Key(c) = o.match BY <2>1
  <2> QED BY <2>2, <2>3, <2>4 DEF OneToOne
<1>7. \A c \in Connected : \E o \in Live(state) :
        Display(o) = {c} /\ o.on = state[c].on /\ o.at = state[c].at
  BY <1>4 DEF Live
<1>8. InPlace(Live(state))
  <2>1. ASSUME NEW c \in Connected, Cardinality(Alike(Key(c))) > 1
        PROVE  Disambiguator(Output(c, state[c])) = Stable(c)
    <3>1. Output(c, state[c]).key = LiveKey(c) BY <1>4
    <3> QED BY <2>1, <3>1, OwnPlace
  <2>2. \A o \in Live(state) : \E c \in Connected : o = Output(c, state[c]) /\ Display(o) = {c}
    BY <1>4 DEF Live
  <2> QED BY <2>1, <2>2 DEF InPlace
<1>9. Normalized(Live(state)) = Live(state)
  <2> DEFINE M == Live(state)
  <2>1. Normalized(M) = {Rekeyed(o, M) : o \in M} BY <1>5, NormalizedIsRekeyed
  <2>2. \A c \in Connected : Output(c, state[c]) \in M /\ Display(Output(c, state[c])) = {c}
    BY <1>4 DEF Live
  <2>3. M = {Output(c, state[c]) : c \in Connected} BY DEF Live
  <2> HIDE DEF M, f
  <2>4. \A c \in Connected : Rekeyed(Output(c, state[c]), M).key = LiveKey(c)
    BY <1>5, <1>6, <1>8, <2>2, OneToOneKeys DEF M
  <2>5. ASSUME NEW c \in Connected PROVE Rekeyed(Output(c, state[c]), M) = Output(c, state[c])
    <3> DEFINE o == Output(c, state[c])
               k == UniqueKey(o.match, Disambiguator(o), Cardinality({q \in M : q.match = o.match}))
    <3>1. Rekeyed(o, M) = [o EXCEPT !.key = k] BY DEF Rekeyed
    <3>2. o = [key |-> LiveKey(c), match |-> Key(c), name |-> c, on |-> state[c].on, at |-> state[c].at]
      BY DEF Output
    <3>3. Rekeyed(o, M).key = LiveKey(c) BY <2>4
    <3> HIDE DEF o, k
    <3>4. Rekeyed(o, M).key = k BY <3>1, <3>2
    <3>5. Rekeyed(o, M) = o BY <3>1, <3>2, <3>3, <3>4
    <3> QED BY <3>5 DEF o
  <2>6. \A o \in M : Rekeyed(o, M) = o BY <2>3, <2>5
  <2>7. Normalized(M) = M BY <2>1, <2>6
  <2> QED BY <2>7 DEF M
<1> QED BY <1>5, <1>6, <1>7, <1>8, <1>9

LEMMA OneToOneOmitsNone ==
  ASSUME NEW S, OneToOne(S), Normalized(S) = S
  PROVE  Omitted(S) = {} /\ WithOmittedOff(S) = S
<1>1. Claimed(S) = Connected
  <2>1. \A o \in S : Display(o) \subseteq Connected BY DEF OneToOne
  <2>2. \A c \in Connected : \E o \in S : c \in Display(o) BY DEF OneToOne
  <2> QED BY <2>1, <2>2 DEF Claimed
<1>2. Omitted(S) = {} BY <1>1, OmittedIsUnclaimed
<1>3. S \cup {Output(c, Off) : c \in Omitted(S)} = S BY <1>2
<1> QED BY <1>2, <1>3 DEF WithOmittedOff

LEMMA LiveState ==
  ASSUME Fitted, NEW state \in [AllPorts -> [on : BOOLEAN, at : Nat]]
  PROVE  FromState(state) = Live(state) /\ WithOmittedOff(Live(state)) = Live(state)
<1>1. OneToOne(Live(state)) /\ Normalized(Live(state)) = Live(state) BY LiveIsOneToOne
<1>2. FromState(state) = Normalized(Live(state)) BY DEF FromState, Live
<1> QED BY <1>1, <1>2, OneToOneOmitsNone

\* A profile whose displays are all there, and at their places, is known again when it is
\* shown.
LEMMA ShownIsTheSame ==
  ASSUME Fitted, NEW S, WellFormed(S), Normalized(S) = S, ByHardware(S), InPlace(S),
         \A o \in S : Display(o) # {},
         \A o, q \in S : o # q => Display(o) \cap Display(q) = {}
  PROVE  SameState(S, FromState(Showing(S)))
<1> DEFINE st == Showing(S)
           L == Live(st)
           F == Filled(S)
<1>1. st \in [AllPorts -> [on : BOOLEAN, at : Nat]] BY ShowingIsTyped
<1>2. WellFormed(F) /\ OneToOne(F) /\ InPlace(F) BY FilledIsOneToOne
<1>3. WithOmittedOff(S) = Normalized(F) BY DEF WithOmittedOff, Filled
<1> HIDE DEF st, F
<1>4. /\ WellFormed(L) /\ OneToOne(L) /\ InPlace(L) /\ Normalized(L) = L
      /\ \A c \in Connected : \E o \in L : Display(o) = {c} /\ o.on = st[c].on /\ o.at = st[c].at
  BY <1>1, LiveIsOneToOne
<1>5. FromState(st) = L /\ WithOmittedOff(L) = L BY <1>1, LiveState
<1> HIDE DEF L
<1>7. Cardinality(Normalized(F)) = Cardinality(L)
  <2>1. Cardinality(Normalized(F)) = Cardinality(Connected) BY <1>2, OneToOneNormalized
  <2>2. Cardinality(Normalized(L)) = Cardinality(Connected) BY <1>4, OneToOneNormalized
  <2> QED BY <1>4, <2>1, <2>2
<1>8. ASSUME NEW c \in Connected
      PROVE  \E a \in Normalized(F) : /\ a.key = LiveKey(c)
                                      /\ a.on = st[c].on /\ (a.on => a.at = st[c].at)
  <2>0. \A o \in F : Display(o) = {c} =>
          \E x \in Normalized(F) : x.key = LiveKey(c) /\ x.on = o.on /\ x.at = o.at
    BY <1>2, OneToOneNormalized
  <2>1. c \in AllPorts BY DEF Connected
  <2>2. CASE c \in Claimed(S)
    <3>1. PICK o \in S : c \in Display(o) BY <2>2 DEF Claimed
    <3>2. Display(o) = {c} BY <3>1, WellFormedIsOne
    <3>3. st[c].on = o.on /\ (o.on => st[c].at = o.at) BY <2>1, <3>1, ShowingIsAsSaid DEF st
    <3>4. o \in F BY DEF F, Filled
    <3> QED BY <2>0, <3>2, <3>3, <3>4
  <2>3. CASE c \notin Claimed(S)
    <3> DEFINE o == Output(c, Off)
    <3>1. c \in Omitted(S) BY <2>3, OmittedIsUnclaimed
    <3>2. o \in F BY <3>1 DEF F, Filled
    <3>3. o.on = FALSE /\ Display(o) = {c} BY OffOutputs
    <3>4. st[c].on = FALSE BY <2>1, <2>3, ShowingIsAsSaid DEF st
    <3> HIDE DEF o
    <3>5. PICK x \in Normalized(F) : x.key = LiveKey(c) /\ x.on = o.on BY <2>0, <3>2, <3>3
    <3>6. x.on = st[c].on /\ ~x.on BY <3>3, <3>4, <3>5
    <3> QED BY <3>5, <3>6
  <2> QED BY <2>2, <2>3
<1>9. ASSUME NEW b \in L
      PROVE  \E a \in Normalized(F) : a.key = b.key /\ a.on = b.on /\ (a.on => a.at = b.at)
  <2>1. PICK c \in Connected : b = Output(c, st[c]) BY DEF L, Live
  <2>2. b.key = LiveKey(c) /\ b.on = st[c].on /\ b.at = st[c].at BY <2>1 DEF Output
  <2> QED BY <1>8, <2>2
<1>10. SameState(S, L) BY <1>3, <1>5, <1>7, <1>9 DEF SameState
<1> QED BY <1>5, <1>10 DEF st

LEMMA DisplacedIsNotInPlace ==
  ASSUME Fitted, NEW S, WellFormed(S), ByHardware(S)
  PROVE  Displaced(S) <=> ~InPlace(S)
<1> SUFFICES ASSUME NEW o \in S, NEW c \in Display(o), Cardinality(Alike(Key(c))) > 1
             PROVE  Disambiguator(o) = Stable(c) <=>
                      o.key = <<Key(c), Stable(c)>> \/ (o.key = <<Key(c)>> /\ path[c] = NoPath)
  BY DEF Displaced, InPlace
<1> DEFINE m == Key(c)
<1>1. o.match = m BY DEF ByHardware
<1>2. o.key \in KeysOf(m, o.name) /\ o.name \in AllPorts BY <1>1 DEF WellFormed, Outputs
<1>3. c \in Connected BY WellFormedIsOne
<1>4. Alike(m) # {} /\ Cardinality(Alike(m)) # 1 BY <1>3 DEF Alike
<1>5. CASE o.key = <<m>>
  <2>1. Disambiguator(o) = o.name BY <1>1, <1>2, <1>5, Disambiguators
  <2>2. Display(o) = ByIdentity(m, o.name) BY <1>1, <1>2, <1>5, DisplayIsByPlace
  <2>3. c = o.name BY <1>4, <2>2 DEF ByIdentity
  <2>4. Stable(c) = c <=> path[c] = NoPath
    <3>1. path[c] \in Paths \cup {NoPath} /\ c \in AllPorts BY <1>3, KeysAreHardware DEF Fitted
    <3> QED BY <3>1, MatchAssumption DEF Stable
  <2>5. o.key # <<m, Stable(c)>> BY <1>5
  <2> QED BY <1>5, <2>1, <2>3, <2>4, <2>5
<1>6. CASE \E p : o.key = <<m, p>>
  <2>1. PICK p : o.key = <<m, p>> BY <1>6
  <2>2. Disambiguator(o) = p BY <1>1, <1>2, <2>1, Disambiguators
  <2>3. o.key # <<m>> BY <2>1
  <2>4. o.key = <<m, Stable(c)>> <=> p = Stable(c) BY <2>1
  <2> QED BY <2>2, <2>3, <2>4
<1> QED BY <1>2, <1>5, <1>6 DEF KeysOf

\* A profile whose displays are all there and at the places their keys name is among the
\* active ones when it is shown, whatever state the daemon is in
\* (profilesShareEffectiveState).
THEOREM AppliedIsKnown ==
  ASSUME Fitted, \A n \in Saved : IsProfile(profiles[n])
  PROVE  AppliedIsRecognised
<1> SUFFICES ASSUME NEW n \in Saved, Complete(profiles[n]), ~Displaced(profiles[n].outputs)
             PROVE  n \in Matching(Showing(profiles[n].outputs))
  BY DEF AppliedIsRecognised
<1> DEFINE S == profiles[n].outputs
<1>1. WellFormed(S) /\ Normalized(S) = S BY DEF IsProfile
<1>2. profiles[n].strict \/ Omitted(S) = {} BY <1>1, OmittedIsUnclaimed DEF Complete
<1>3. InPlace(S) BY <1>1, DisplacedIsNotInPlace DEF Complete
<1>4. SameState(S, FromState(Showing(S))) BY <1>1, <1>3, ShownIsTheSame DEF Complete
<1> QED BY <1>2, <1>4 DEF Matching

\* One that is displaced is never among them: its output gets the key of a place that no
\* display like it has, so that status reports no profile although its layout is shown
\* (OutputDisambiguator and outputDisambiguator, which ask for different places).
THEOREM DisplacedIsUnknown ==
  ASSUME Fitted, NEW n \in Saved, IsProfile(profiles[n]),
         Complete(profiles[n]), Displaced(profiles[n].outputs)
  PROVE  n \notin Matching(Showing(profiles[n].outputs))
<1> DEFINE S == profiles[n].outputs
           st == Showing(S)
           F == Filled(S)
<1>1. WellFormed(S) /\ Normalized(S) = S BY DEF IsProfile
<1>2. WellFormed(F) /\ OneToOne(F) BY <1>1, FilledIsOneToOne DEF Complete
<1>3. WithOmittedOff(S) = Normalized(F) BY DEF WithOmittedOff, Filled
<1>4. S \subseteq F BY DEF Filled
<1>5. st \in [AllPorts -> [on : BOOLEAN, at : Nat]] BY <1>1, ShowingIsTyped
<1> HIDE DEF st, F
<1>6. FromState(st) = Live(st) /\ WithOmittedOff(Live(st)) = Live(st) BY <1>5, LiveState
<1>7. PICK o \in S : \E c \in Display(o) : Cardinality(Alike(Key(c))) > 1 /\ Disambiguator(o) # Stable(c)
  <2>1. ~InPlace(S) BY <1>1, DisplacedIsNotInPlace DEF Complete
  <2> QED BY <2>1 DEF InPlace
<1>8. PICK c \in Display(o) : Cardinality(Alike(Key(c))) > 1 /\ Disambiguator(o) # Stable(c) BY <1>7
<1> DEFINE m == Key(c)
<1>9. c \in Connected /\ Display(o) = {c} BY <1>1, WellFormedIsOne
<1>10. ~(Cardinality(Alike(m)) <= 1)
  <2>1. IsFiniteSet(Alike(m)) BY ConnectedIsFinite
  <2>2. Cardinality(Alike(m)) \in Nat BY <2>1, AtMostOne
  <2> QED BY <1>8, <2>2
<1>11. LiveKey(c) = <<m, Stable(c)>> BY <1>10 DEF LiveKey, UniqueKey
<1> HIDE DEF m
<1>12. ASSUME NEW q \in F, Rekeyed(q, F).key = <<m, Stable(c)>> PROVE FALSE
  <2>1. q \in Outputs /\ q.key \in KeysOf(q.match, q.name) /\ q.name \in AllPorts
    BY <1>2 DEF WellFormed, Outputs
  <2>2. Rekeyed(q, F).key \in {<<q.match>>, <<q.match, Disambiguator(q)>>}
    BY <2>1, RekeyedIsTheSame DEF UniqueKey
  <2>3. q.match = m /\ Disambiguator(q) = Stable(c) BY <1>12, <2>2
  <2>4. CASE q.key = <<m>>
    <3>1. q.name = Stable(c) BY <2>1, <2>3, <2>4, Disambiguators
    <3>2. q.name = c BY <1>9, <2>1, <3>1, PlacesDiffer
    <3>3. Display(q) = ByIdentity(m, c) BY <2>1, <2>3, <2>4, <3>2, DisplayIsByPlace
    <3>4. c \in Alike(m) BY <1>9 DEF Alike, m
    <3>5. Alike(m) # {} /\ Cardinality(Alike(m)) # 1 BY <1>10, <3>4
    <3>6. Display(q) = {c} BY <3>3, <3>4, <3>5 DEF ByIdentity
    <3>7. q = o BY <1>2, <1>4, <1>9, <3>6 DEF OneToOne
    <3> QED BY <1>8, <2>3, <3>7
  <2>5. CASE \E p : q.key = <<m, p>>
    <3>1. PICK p : q.key = <<m, p>> BY <2>5
    <3>2. p = Stable(c) BY <2>1, <2>3, <3>1, Disambiguators
    <3>3. Display(q) = {c} BY <1>9, <1>11, <2>1, <3>1, <3>2, DisplayIsByPlace
    <3>4. q = o BY <1>2, <1>4, <1>9, <3>3 DEF OneToOne
    <3> QED BY <1>8, <2>3, <3>4
  <2> QED BY <2>1, <2>3, <2>4, <2>5 DEF KeysOf
<1>13. ASSUME SameState(S, Live(st)) PROVE FALSE
  <2>1. Output(c, st[c]) \in Live(st) /\ Output(c, st[c]).key = <<m, Stable(c)>>
    BY <1>9, <1>11 DEF Live, Output
  <2>2. PICK a \in Normalized(F) : a.key = <<m, Stable(c)>> BY <1>3, <1>6, <1>13, <2>1 DEF SameState
  <2>3. PICK q \in F : a = Rekeyed(q, F) BY <1>2, NormalizedIsRekeyed
  <2> QED BY <1>12, <2>2, <2>3
<1> QED BY <1>6, <1>13 DEF Matching, st

-----------------------------------------------------------------------------
\* The invariant: what is fitted, shown and saved is what it should be.

LEMMA UnionIsWellFormed ==
  ASSUME NEW S, NEW T, WellFormed(S), WellFormed(T)
  PROVE  WellFormed(S \cup T)
<1>1. IsFiniteSet(S \cup T) BY FS_Union DEF WellFormed
<1> QED BY <1>1 DEF WellFormed

\* Outputs turned on at a place, or off, are outputs.
Lit(o, at) == [o EXCEPT !.on = TRUE, !.at = at]

Dark(o) == [o EXCEPT !.on = FALSE]

LEMMA LitAndDark ==
  ASSUME NEW S, WellFormed(S), NEW at \in Nat
  PROVE  WellFormed({Lit(o, at) : o \in S}) /\ WellFormed({Dark(o) : o \in S})
<1> DEFINE f == [o \in S |-> Lit(o, at)]
           g == [o \in S |-> Dark(o)]
           T == {Lit(o, at) : o \in S}
           U == {Dark(o) : o \in S}
           Keys == UNION {KeysOf(h, d) : h \in Hardware, d \in AllPorts}
<1>0. Outputs = [key : Keys, match : Hardware, name : AllPorts, on : BOOLEAN, at : Nat]
  BY DEF Outputs
<1> HIDE DEF Keys
<1>1. IsFiniteSet({f[o] : o \in S}) /\ IsFiniteSet({g[o] : o \in S})
  <2> HIDE DEF f, g
  <2>1. IsFiniteSet(S) BY DEF WellFormed
  <2>2. IsFiniteSet({f[o] : o \in S}) BY <2>1, ImageIsFinite
  <2>3. IsFiniteSet({g[o] : o \in S}) BY <2>1, ImageIsFinite
  <2> QED BY <2>2, <2>3
<1>2. {f[o] : o \in S} = T /\ {g[o] : o \in S} = U OBVIOUS
<1>3. ASSUME NEW o \in S
      PROVE  /\ Lit(o, at) \in Outputs /\ Dark(o) \in Outputs
             /\ Lit(o, at).key \in KeysOf(Lit(o, at).match, Lit(o, at).name)
             /\ Dark(o).key \in KeysOf(Dark(o).match, Dark(o).name)
  <2>1. o \in Outputs /\ o.key \in KeysOf(o.match, o.name) BY DEF WellFormed
  <2>2. Lit(o, at) \in Outputs BY <1>0, <2>1 DEF Lit
  <2>3. Dark(o) \in Outputs BY <1>0, <2>1 DEF Dark
  <2>4. Lit(o, at).key = o.key /\ Lit(o, at).match = o.match /\ Lit(o, at).name = o.name
    BY <2>1 DEF Outputs, Lit
  <2>5. Dark(o).key = o.key /\ Dark(o).match = o.match /\ Dark(o).name = o.name
    BY <2>1 DEF Outputs, Dark
  <2> QED BY <2>1, <2>2, <2>3, <2>4, <2>5
<1>4. WellFormed(T) BY <1>1, <1>2, <1>3 DEF WellFormed
<1>5. WellFormed(U) BY <1>1, <1>2, <1>3 DEF WellFormed
<1> QED BY <1>4, <1>5

LEMMA OneIsWellFormed ==
  ASSUME Fitted, NEW c \in Connected, NEW set \in [on : BOOLEAN, at : Nat]
  PROVE  WellFormed({Output(c, set)})
<1>1. IsFiniteSet({Output(c, set)}) BY FS_Singleton
<1> QED BY <1>1, OutputIsForIt DEF WellFormed

LEMMA ExtendedIsWellFormed ==
  ASSUME Fitted, NEW p, IsProfile(p)
  PROVE  WellFormed(Extended(p))
<1>1. WellFormed(p.outputs) /\ Normalized(p.outputs) = p.outputs BY DEF IsProfile
<1>2. WellFormed(Joined(p.outputs)) BY <1>1, JoinedIsWellFormed
<1>3. WellFormed(Normalized(Joined(p.outputs))) BY <1>2, NormalizedIsRekeyed
<1> QED BY <1>1, <1>3 DEF Extended, Joined

\* What the lid policy and the panel's rule make of a layout is a layout.
LEMMA ClosedLidIsWellFormed ==
  ASSUME MatchTypeOK, NEW S, WellFormed(S)
  PROVE  WellFormed(ClosedLid(S))
<1> DEFINE N == Normalized(S)
           panels == {o \in N : PanelPort \in Display(o)}
           dark == {Dark(o) : o \in panels}
           own == IF panels = {} THEN {Output(PanelPort, [shown[PanelPort] EXCEPT !.on = FALSE])} ELSE {}
<1>1. Fitted /\ PanelPort \in Connected BY DEF MatchTypeOK, Fitted, Connected, AllPorts
<1>2. WellFormed(N) BY NormalizedIsRekeyed
<1>3. WellFormed(N \ panels) /\ WellFormed(panels)
  <2> HIDE DEF N
  <2> QED BY <1>2, PartIsWellFormed
<1>4. WellFormed(dark)
  <2> HIDE DEF panels
  <2> QED BY <1>3, LitAndDark
<1>5. [shown[PanelPort] EXCEPT !.on = FALSE] \in [on : BOOLEAN, at : Nat]
  BY DEF MatchTypeOK, AllPorts
<1>6. WellFormed({}) BY FS_EmptySet DEF WellFormed
<1>7. WellFormed(own) BY <1>1, <1>5, <1>6, OneIsWellFormed
<1>8. ClosedLid(S) = N \/ ClosedLid(S) = ((N \ panels) \cup dark) \cup own BY DEF ClosedLid, Dark
<1> HIDE DEF N, panels, dark, own
<1> QED BY <1>2, <1>3, <1>4, <1>7, <1>8, UnionIsWellFormed

LEMMA PanelKeptOnIsWellFormed ==
  ASSUME MatchTypeOK, NEW S, WellFormed(S)
  PROVE  WellFormed(PanelKeptOn(S))
<1> DEFINE N == Normalized(S)
           panels == {o \in N : PanelPort \in Display(o)}
           on == {q \in S : q.on}
           right == Max({0} \cup {o.at + 1 : o \in on})
           lit == [on |-> TRUE, at |-> right]
           bright == {Lit(o, right) : o \in panels}
<1>1. Fitted /\ PanelPort \in Connected BY DEF MatchTypeOK, Fitted, Connected, AllPorts
<1>2. WellFormed(N) BY NormalizedIsRekeyed
<1>3. WellFormed(N \ panels) /\ WellFormed(panels)
  <2> HIDE DEF N
  <2> QED BY <1>2, PartIsWellFormed
<1>4. right \in Nat
  <2>1. WellFormed(on) BY PartIsWellFormed
  <2> HIDE DEF on
  <2> QED BY <2>1, EndOf
<1>5. PanelKeptOn(S) \in {S, N \cup {Output(PanelPort, lit)}, (N \ panels) \cup bright}
  BY DEF PanelKeptOn, Lit
<1> HIDE DEF N, panels, right
<1>6. WellFormed(bright) BY <1>3, <1>4, LitAndDark
<1>7. WellFormed({Output(PanelPort, lit)}) BY <1>1, <1>4, OneIsWellFormed
<1> HIDE DEF bright, lit
<1> QED BY <1>2, <1>3, <1>5, <1>6, <1>7, UnionIsWellFormed

LEMMA LayoutIsWellFormed ==
  ASSUME MatchTypeOK, NEW n \in Saved, NEW closed \in BOOLEAN
  PROVE  WellFormed(Layout(n, closed))
<1>1. Fitted /\ IsProfile(profiles[n]) BY DEF MatchTypeOK, Fitted
<1>2. WellFormed(Extended(profiles[n])) BY <1>1, ExtendedIsWellFormed
<1>3. WellFormed(ClosedLid(Extended(profiles[n]))) BY <1>2, ClosedLidIsWellFormed
<1> QED BY <1>2, <1>3, PanelKeptOnIsWellFormed DEF Layout

LEMMA MatchTypeInit ==
  ASSUME MatchInit
  PROVE  MatchTypeOK
<1>1. fitted \in [AllPorts -> Hardware \cup {NoUnit}] /\ fitted[PanelPort] # NoUnit
  BY MatchAssumption DEF MatchInit, AllPorts
<1>2. shown \in [AllPorts -> [on : BOOLEAN, at : Nat]] BY DEF MatchInit, Off
<1>3. DOMAIN profiles = NameOrder /\ \A n \in Saved : IsProfile(profiles[n])
  BY MatchAssumption DEF MatchInit, Saved
<1>4. \A o \in wake : o \in Outputs BY DEF MatchInit
<1>5. path \in [AllPorts -> Paths \cup {NoPath}] BY DEF MatchInit
<1>6. PathsDiffer BY DEF MatchInit, Connected, PathsDiffer
<1> QED BY <1>1, <1>2, <1>3, <1>4, <1>5, <1>6 DEF MatchTypeOK

\* A display that is plugged in comes up at a place.
LEMMA PlugsKeepsTypes ==
  ASSUME MatchTypeOK, NEW k \in Hardware, NEW c \in Ports, NEW p \in FreePaths(c), Plugs(k, c, p)
  PROVE  MatchTypeOK'
<1>1. c \in AllPorts /\ c # PanelPort BY DEF AllPorts, Plugs, MatchTypeOK
<1>2. fitted' \in [AllPorts -> Hardware \cup {NoUnit}] /\ fitted'[PanelPort] # NoUnit
  BY <1>1 DEF Plugs, MatchTypeOK
<1> DEFINE rules == {o \in wake : o.match = k}
           ends == {shown[d].at + 1 : d \in Connected}
           right == Max(ends)
           at == IF rules = {} THEN right ELSE (CHOOSE o \in rules : TRUE).at
<1>3. shown' = [shown EXCEPT ![c] = [on |-> TRUE, at |-> at]] BY DEF Plugs
<1>4. right \in Nat
  <2> DEFINE f == [d \in Connected |-> shown[d].at + 1]
  <2>1. IsFiniteSet({f[d] : d \in Connected})
    <3> HIDE DEF f
    <3> QED BY ConnectedIsFinite, ImageIsFinite
  <2>2. {f[d] : d \in Connected} = ends OBVIOUS
  <2>3. IsFiniteSet(ends) BY <2>1, <2>2
  <2>4. \A d \in Connected : shown[d].at \in Nat BY DEF Connected, MatchTypeOK
  <2>5. ends \subseteq Nat BY <2>4
  <2>6. PanelPort \in Connected BY DEF Connected, AllPorts, MatchTypeOK
  <2>7. ends # {} BY <2>6
  <2> HIDE DEF ends
  <2>8. Max(ends) \in ends BY <2>3, <2>5, <2>7, HasMax
  <2> QED BY <2>5, <2>8
<1>5. at \in Nat
  <2>1. \A o \in rules : o.at \in Nat BY DEF MatchTypeOK, Outputs
  <2>2. rules # {} => (CHOOSE o \in rules : TRUE) \in rules OBVIOUS
  <2> HIDE DEF rules, right
  <2> QED BY <1>4, <2>1, <2>2
<1> HIDE DEF at
<1>6. shown' \in [AllPorts -> [on : BOOLEAN, at : Nat]] BY <1>3, <1>5 DEF MatchTypeOK
<1>7. profiles' = profiles /\ wake' = wake BY DEF Plugs
<1>8. DOMAIN profiles' = NameOrder /\ \A n \in Saved' : IsProfile(profiles'[n])
  BY <1>7 DEF MatchTypeOK, Saved
<1>9. \A o \in wake' : o \in Outputs BY <1>7 DEF MatchTypeOK
<1>10. path' \in [AllPorts -> Paths \cup {NoPath}] /\ PathsDiffer'
  <2>1. path' = [path EXCEPT ![c] = p] /\ path \in [AllPorts -> Paths \cup {NoPath}]
    BY DEF Plugs, MatchTypeOK
  <2>2. p \in Paths \cup {NoPath} /\ (p = NoPath \/ \A d \in Connected : path[d] # p) BY DEF FreePaths
  <2>3. Connected' = Connected \cup {c} /\ c \in AllPorts
    <3>1. fitted' = [fitted EXCEPT ![c] = k] /\ k # NoUnit BY MatchAssumption DEF Plugs
    <3>2. fitted \in [AllPorts -> Hardware \cup {NoUnit}] BY DEF MatchTypeOK
    <3> QED BY <1>1, <3>1, <3>2 DEF Connected
  <2>4. \A d \in AllPorts : d # c => path'[d] = path[d] BY <2>1
  <2>5. path'[c] = p BY <1>1, <2>1
  <2>6. \A d, e \in Connected : path[d] = path[e] => d = e \/ path[d] = NoPath BY DEF MatchTypeOK, PathsDiffer
  <2>7. Connected \subseteq AllPorts BY DEF Connected
  <2>8. ASSUME NEW d \in Connected', NEW e \in Connected', path'[d] = path'[e]
        PROVE  d = e \/ path'[d] = NoPath
    BY <2>2, <2>3, <2>4, <2>5, <2>6, <2>7, <2>8
  <2> QED BY <2>1, <2>2, <2>8 DEF PathsDiffer
<1> QED BY <1>2, <1>6, <1>8, <1>9, <1>10 DEF MatchTypeOK

LEMMA UnplugsKeepsTypes ==
  ASSUME MatchTypeOK, NEW c \in AllPorts, Unplugs(c)
  PROVE  MatchTypeOK'
<1>1. fitted' \in [AllPorts -> Hardware \cup {NoUnit}] /\ fitted'[PanelPort] # NoUnit
  BY DEF Unplugs, MatchTypeOK
<1>2. shown' \in [AllPorts -> [on : BOOLEAN, at : Nat]] BY DEF Unplugs, MatchTypeOK, Off
<1>3. profiles' = profiles /\ wake' = wake BY DEF Unplugs
<1>4. DOMAIN profiles' = NameOrder /\ \A n \in Saved' : IsProfile(profiles'[n])
  BY <1>3 DEF MatchTypeOK, Saved
<1>5. \A o \in wake' : o \in Outputs BY <1>3 DEF MatchTypeOK
<1>6. path' \in [AllPorts -> Paths \cup {NoPath}] /\ PathsDiffer'
  <2>1. path' = [path EXCEPT ![c] = NoPath] /\ path \in [AllPorts -> Paths \cup {NoPath}]
    BY DEF Unplugs, MatchTypeOK
  <2>2. Connected' \subseteq Connected /\ c \notin Connected'
    BY DEF Unplugs, MatchTypeOK, Connected
  <2>3. Connected \subseteq AllPorts BY DEF Connected
  <2>4. \A d \in Connected' : path'[d] = path[d] BY <2>1, <2>2, <2>3
  <2>5. PathsDiffer' BY <2>2, <2>4 DEF MatchTypeOK, PathsDiffer
  <2> QED BY <2>1, <2>5
<1> QED BY <1>1, <1>2, <1>4, <1>5, <1>6 DEF MatchTypeOK

LEMMA DraftsAreStates ==
  ASSUME MatchTypeOK, NEW draft \in Drafts
  PROVE  draft \in [AllPorts -> [on : BOOLEAN, at : Nat]]
<1>1. FreePlaces \subseteq Nat BY DEF FreePlaces
<1>2. shown \in [AllPorts -> [on : BOOLEAN, at : Nat]] BY DEF MatchTypeOK
<1>3. Off \in [on : BOOLEAN, at : Nat] BY DEF Off
<1>4. CASE draft = shown BY <1>2, <1>4
<1>5. CASE \E c \in Connected : draft = [shown EXCEPT ![c] = Off] BY <1>2, <1>3, <1>5
<1>6. CASE \E c \in Connected, at \in FreePlaces : draft = [shown EXCEPT ![c] = [on |-> TRUE, at |-> at]]
  <2>1. PICK c \in Connected, at \in FreePlaces : draft = [shown EXCEPT ![c] = [on |-> TRUE, at |-> at]]
    BY <1>6
  <2>2. [on |-> TRUE, at |-> at] \in [on : BOOLEAN, at : Nat] BY <1>1
  <2> DEFINE set == [on |-> TRUE, at |-> at]
  <2>3. draft = [shown EXCEPT ![c] = set] BY <2>1
  <2> HIDE DEF set
  <2>4. set \in [on : BOOLEAN, at : Nat] BY <2>2 DEF set
  <2> QED BY <1>2, <2>3, <2>4
<1> QED BY <1>4, <1>5, <1>6 DEF Drafts

LEMMA SavesDraftKeepsTypes ==
  ASSUME MatchTypeOK, NEW n \in NameOrder, NEW strict \in BOOLEAN, NEW draft \in Drafts,
         SavesDraft(n, strict, draft)
  PROVE  MatchTypeOK'
<1> DEFINE p == [outputs |-> FromState(draft), strict |-> strict]
<1>1. draft \in [AllPorts -> [on : BOOLEAN, at : Nat]] BY DraftsAreStates
<1>2. Fitted BY DEF Fitted, MatchTypeOK
<1>3. WellFormed(Live(draft)) BY <1>1, <1>2, LiveIsOneToOne
<1>4. WellFormed(Normalized(Live(draft))) BY <1>3, NormalizedIsRekeyed
<1>5. WellFormed(FromState(draft)) BY <1>4 DEF FromState, Live
<1>6. IsProfile(p)
  <2>1. Normalized(Live(draft)) = Live(draft) BY <1>1, <1>2, LiveIsOneToOne
  <2>2. Normalized(FromState(draft)) = FromState(draft) BY <2>1 DEF FromState, Live
  <2> QED BY <1>5, <2>2 DEF IsProfile
<1>7. profiles' = [profiles EXCEPT ![n] = p] BY DEF SavesDraft
<1> HIDE DEF p
<1>8. DOMAIN profiles' = NameOrder BY <1>7 DEF MatchTypeOK
<1>9. ASSUME NEW m \in Saved' PROVE IsProfile(profiles'[m])
  <2>1. m \in NameOrder /\ profiles'[m] # NoProfile BY <1>9 DEF Saved
  <2>2. CASE m = n BY <1>6, <1>7, <2>2 DEF MatchTypeOK
  <2>3. CASE m # n
    <3>1. profiles'[m] = profiles[m] BY <1>7, <2>1, <2>3 DEF MatchTypeOK
    <3> QED BY <2>1, <3>1 DEF MatchTypeOK, Saved
  <2> QED BY <2>2, <2>3
<1>10. fitted' = fitted /\ path' = path /\ wake' = wake /\ shown' = draft BY DEF SavesDraft
<1>11. fitted' \in [AllPorts -> Hardware \cup {NoUnit}] /\ fitted'[PanelPort] # NoUnit
  BY <1>10 DEF MatchTypeOK
<1>12. shown' \in [AllPorts -> [on : BOOLEAN, at : Nat]] BY <1>1, <1>10
<1>13. \A o \in wake' : o \in Outputs BY <1>10 DEF MatchTypeOK
<1>14. path' \in [AllPorts -> Paths \cup {NoPath}] /\ PathsDiffer'
  BY <1>10 DEF MatchTypeOK, PathsDiffer, Connected
<1> QED BY <1>8, <1>9, <1>11, <1>12, <1>13, <1>14 DEF MatchTypeOK

\* What a pass puts on the compositor and in the generated file comes from a layout.
LEMMA PassesKeepsTypes ==
  ASSUME MatchTypeOK, NEW closed \in BOOLEAN, Passes(closed)
  PROVE  MatchTypeOK'
<1>1. PICK n \in Best(closed) : /\ shown' = Showing(Layout(n, closed))
                                /\ wake' = WakeRules(Layout(n, closed))
  BY DEF Passes
<1>2. n \in Saved BY DEF Best
<1>3. WellFormed(Layout(n, closed)) BY <1>2, LayoutIsWellFormed
<1>4. shown' \in [AllPorts -> [on : BOOLEAN, at : Nat]] BY <1>1, <1>3, ShowingIsTyped
<1>5. \A o \in wake' : o \in Outputs BY <1>1, <1>3 DEF WakeRules, WellFormed
<1>6. fitted' = fitted /\ path' = path /\ profiles' = profiles BY DEF Passes
<1>7. fitted' \in [AllPorts -> Hardware \cup {NoUnit}] /\ fitted'[PanelPort] # NoUnit
  BY <1>6 DEF MatchTypeOK
<1>8. DOMAIN profiles' = NameOrder /\ \A m \in Saved' : IsProfile(profiles'[m])
  BY <1>6 DEF MatchTypeOK, Saved
<1>9. path' \in [AllPorts -> Paths \cup {NoPath}] /\ PathsDiffer'
  BY <1>6 DEF MatchTypeOK, PathsDiffer, Connected
<1> QED BY <1>4, <1>5, <1>7, <1>8, <1>9 DEF MatchTypeOK

\* Every connector has a unit or none, the panel's always one, and every profile ever
\* saved is a set of outputs with the keys of their hardware (the state ProfileMatching
\* works on: match.go, identity.go, hotplug.go, clamshell.go).
THEOREM MatchIsTyped == MatchSpec => []MatchTypeOK
<1>1. MatchInit => MatchTypeOK BY MatchTypeInit
<1>2. MatchTypeOK /\ [MatchNext]_matchVars => MatchTypeOK'
  <2> SUFFICES ASSUME MatchTypeOK, [MatchNext]_matchVars PROVE MatchTypeOK' OBVIOUS
  <2>1. CASE UNCHANGED matchVars
    <3>1. /\ fitted' = fitted /\ path' = path /\ shown' = shown /\ profiles' = profiles
          /\ wake' = wake
      BY <2>1 DEF matchVars
    <3>2. PathsDiffer' BY <3>1 DEF MatchTypeOK, PathsDiffer, Connected
    <3> QED BY <3>1, <3>2 DEF MatchTypeOK, Saved
  <2>2. ASSUME NEW k \in Hardware, NEW c \in Ports, NEW p \in FreePaths(c), Plugs(k, c, p)
        PROVE  MatchTypeOK'
    BY <2>2, PlugsKeepsTypes
  <2>3. ASSUME NEW c \in AllPorts, Unplugs(c) PROVE MatchTypeOK' BY <2>3, UnplugsKeepsTypes
  <2>4. ASSUME NEW n \in NameOrder, NEW strict \in BOOLEAN, NEW draft \in Drafts,
               SavesDraft(n, strict, draft)
        PROVE  MatchTypeOK'
    BY <2>4, SavesDraftKeepsTypes
  <2>5. ASSUME NEW closed \in BOOLEAN, Passes(closed) PROVE MatchTypeOK'
    BY <2>5, PassesKeepsTypes
  <2> QED BY <2>1, <2>2, <2>3, <2>4, <2>5 DEF MatchNext
<1> QED BY <1>1, <1>2, PTL DEF MatchSpec

\* In every state an extended layout has a place for every display and can be shown when
\* its known part, known by its hardware, can (ExtendConnected).
THEOREM ExtensionAlwaysFits == MatchSpec => []ExtensionFits
<1>1. MatchTypeOK => ExtensionFits BY ExtensionsFit DEF MatchTypeOK, Fitted
<1> QED BY <1>1, MatchIsTyped, PTL

\* In every state a profile whose displays are all there, and none of them displaced, is
\* among the active ones once it is shown, whatever names the connectors in the hub have
\* got (profilesShareEffectiveState).
THEOREM AppliedIsAlwaysRecognised == MatchSpec => []AppliedIsRecognised
<1>1. MatchTypeOK => AppliedIsRecognised BY AppliedIsKnown DEF MatchTypeOK, Fitted
<1> QED BY <1>1, MatchIsTyped, PTL

-----------------------------------------------------------------------------
\* Sequences, and what is taken from them.

LEMMA HasLeast ==
  ASSUME NEW S \in SUBSET Int, IsFiniteSet(S), S # {}
  PROVE  \E x \in S : \A y \in S : x <= y
<1> DEFINE f == [x \in S |-> -x]
           T == {f[x] : x \in S}
<1>1. IsFiniteSet(T)
  <2> HIDE DEF f
  <2> QED BY ImageIsFinite
<1>2. T \in SUBSET Int
  <2>1. \A x \in S : f[x] \in Int OBVIOUS
  <2> HIDE DEF f
  <2> QED BY <2>1
<1>3. /\ \A x \in S : f[x] = -x /\ f[x] \in T
      /\ T # {}
  OBVIOUS
<1> HIDE DEF f
<1>4. Max(T) \in T /\ \A y \in T : Max(T) >= y
  <2> HIDE DEF T
  <2> QED BY <1>1, <1>2, <1>3, HasMax
<1>5. PICK x \in S : Max(T) = f[x] BY <1>4
<1>6. \A y \in S : -x >= -y
  <2>1. \A y \in S : f[x] >= f[y] BY <1>3, <1>4, <1>5
  <2> QED BY <1>3, <2>1
<1> QED BY <1>6

LEMMA UpToCounts ==
  ASSUME NEW n \in Nat
  PROVE  IsFiniteSet(1..n) /\ Cardinality(1..n) = n
<1>1. IsFiniteSet(1..n) /\ Cardinality(1..n) = IF 1 > n THEN 0 ELSE n - 1 + 1 BY FS_Interval
<1>2. (IF 1 > n THEN 0 ELSE n - 1 + 1) = n OBVIOUS
<1> QED BY <1>1, <1>2

LEMMA FunctionIsSeq ==
  ASSUME NEW S, NEW n \in Nat, NEW f \in [1..n -> S]
  PROVE  f \in Seq(S) /\ Len(f) = n /\ DOMAIN f = 1..n
<1>1. f \in Seq(S) BY SeqDef
<1>2. DOMAIN f = 1..Len(f) /\ Len(f) \in Nat BY <1>1, LenProperties
<1>3. 1..n = 1..Len(f) BY <1>2
<1>4. n = Len(f)
  <2>1. Cardinality(1..n) = n /\ Cardinality(1..Len(f)) = Len(f) BY <1>2, UpToCounts
  <2> QED BY <1>3, <2>1
<1> QED BY <1>1, <1>4

\* The places of a sequence are numbered in their order.
UpTo(K, i) == Cardinality({j \in K : j <= i})

LEMMA PlacesAreNumbered ==
  ASSUME NEW K \in SUBSET Nat, IsFiniteSet(K)
  PROVE  /\ Cardinality(K) \in Nat
         /\ \A i \in K : UpTo(K, i) \in 1..Cardinality(K) /\ Nth(K, UpTo(K, i)) = i
         /\ \A n \in 1..Cardinality(K) : Nth(K, n) \in K /\ UpTo(K, Nth(K, n)) = n
<1> DEFINE N == Cardinality(K)
           below(i) == {j \in K : j <= i}
<1>1. N \in Nat BY FS_CardinalityType
<1>2. ASSUME NEW i \in K
      PROVE  IsFiniteSet(below(i)) /\ UpTo(K, i) \in 1..N
  <2>1. IsFiniteSet(below(i)) /\ Cardinality(below(i)) <= N BY FS_Subset
  <2>2. i \in below(i) OBVIOUS
  <2>3. Cardinality(below(i)) \in Nat /\ Cardinality(below(i)) # 0
    BY <2>1, <2>2, FS_CardinalityType, FS_EmptySet
  <2>4. UpTo(K, i) = Cardinality(below(i)) BY DEF UpTo
  <2> QED BY <1>1, <2>1, <2>3, <2>4
<1>3. ASSUME NEW i \in K, NEW j \in K, i < j PROVE UpTo(K, i) # UpTo(K, j)
  <2>0. \A x \in K : x <= i => x <= j BY <1>3
  <2>1. below(i) \in SUBSET below(j) BY <2>0
  <2>2. j \in below(j) /\ j \notin below(i) BY <1>3
  <2>3. Cardinality(below(i)) # Cardinality(below(j)) BY <1>2, <2>1, <2>2, FS_Subset
  <2> QED BY <2>3 DEF UpTo
<1>4. \A i, j \in K : UpTo(K, i) = UpTo(K, j) => i = j
  <2>1. \A i, j \in K : i = j \/ i < j \/ j < i OBVIOUS
  <2> QED BY <1>3, <2>1
<1> DEFINE r == [i \in K |-> UpTo(K, i)]
<1>5. r \in Injection(K, 1..N)
  <2>1. r \in [K -> 1..N] BY <1>2
  <2>2. \A i, j \in K : r[i] = r[j] => i = j BY <1>4
  <2> QED BY <2>1, <2>2 DEF Injection, IsInjective
<1>6. IsFiniteSet(1..N) /\ Cardinality(1..N) = N BY <1>1, UpToCounts
<1>7. r \in Surjection(K, 1..N)
  <2> HIDE DEF r
  <2> QED BY <1>5, <1>6, FS_Injection
<1>8. \A n \in 1..N : \E i \in K : UpTo(K, i) = n BY <1>7 DEF Surjection
<1>9. \A n : Nth(K, n) = CHOOSE i \in K : UpTo(K, i) = n BY DEF Nth, UpTo
<1>10. \A n \in 1..N : Nth(K, n) \in K /\ UpTo(K, Nth(K, n)) = n BY <1>8, <1>9
<1>11. \A i \in K : Nth(K, UpTo(K, i)) = i BY <1>2, <1>4, <1>10
<1> QED BY <1>1, <1>2, <1>10, <1>11

\* What is at some places of a sequence is a sequence of just that, and all of it at all
\* places.
LEMMA AtPlacesIsSeq ==
  ASSUME NEW S, NEW seq \in Seq(S), NEW K \in SUBSET DOMAIN seq
  PROVE  /\ AtPlaces(seq, K) \in Seq(S)
         /\ ToSet(AtPlaces(seq, K)) = {seq[i] : i \in K}
         /\ K = DOMAIN seq => AtPlaces(seq, K) = seq
<1> DEFINE N == Cardinality(K)
           a == AtPlaces(seq, K)
<1>1. DOMAIN seq = 1..Len(seq) /\ Len(seq) \in Nat /\ \A i \in DOMAIN seq : seq[i] \in S
  BY LenProperties
<1>2. IsFiniteSet(DOMAIN seq) /\ Cardinality(DOMAIN seq) = Len(seq) BY <1>1, UpToCounts
<1>3. IsFiniteSet(K) /\ K \in SUBSET Nat BY <1>1, <1>2, FS_Subset
<1>4. /\ N \in Nat
      /\ \A i \in K : UpTo(K, i) \in 1..N /\ Nth(K, UpTo(K, i)) = i
      /\ \A n \in 1..N : Nth(K, n) \in K /\ UpTo(K, Nth(K, n)) = n
  BY <1>3, PlacesAreNumbered
<1>5. a = [n \in 1..N |-> seq[Nth(K, n)]] BY DEF AtPlaces
<1>6. a \in [1..N -> S] BY <1>1, <1>4, <1>5
<1>7. a \in Seq(S) /\ DOMAIN a = 1..N BY <1>4, <1>6, FunctionIsSeq
<1>8. ToSet(a) = {seq[i] : i \in K}
  <2>1. \A n \in 1..N : a[n] = seq[Nth(K, n)] BY <1>5
  <2>2. \A i \in K : UpTo(K, i) \in 1..N /\ a[UpTo(K, i)] = seq[i] BY <1>4, <2>1
  <2> HIDE DEF a
  <2> QED BY <1>4, <1>7, <2>1, <2>2 DEF ToSet
<1>9. ASSUME K = DOMAIN seq PROVE a = seq
  <2>1. N = Len(seq) BY <1>2, <1>9
  <2>2. ASSUME NEW n \in 1..Len(seq) PROVE Nth(K, n) = n
    <3>1. {j \in K : j <= n} = 1..n BY <1>1, <1>9
    <3>2. UpTo(K, n) = Cardinality(1..n) BY <3>1 DEF UpTo
    <3>3. UpTo(K, n) = n BY <3>2, UpToCounts
    <3> QED BY <1>1, <1>4, <1>9, <3>3
  <2>3. \A n \in 1..Len(seq) : a[n] = seq[n] BY <1>5, <2>1, <2>2
  <2>4. seq \in [1..Len(seq) -> S] BY LenProperties
  <2>5. a \in [1..Len(seq) -> S] BY <1>6, <2>1
  <2> HIDE DEF a
  <2> QED BY <2>3, <2>4, <2>5
<1> QED BY <1>7, <1>8, <1>9

\* Members of a set that a sequence has are taken once, all of them.
LEMMA OnceIsSeq ==
  ASSUME NEW T, NEW seq \in Seq(T), NEW S
  PROVE  Once(seq, S) \in Seq(T) /\ ToSet(Once(seq, S)) = ToSet(seq) \cap S
<1> DEFINE K == {i \in DOMAIN seq : seq[i] \in S /\ \A j \in 1..(i - 1) : seq[j] # seq[i]}
<1>1. K \in SUBSET DOMAIN seq OBVIOUS
<1>2. Once(seq, S) = AtPlaces(seq, K) BY DEF Once
<1>3. Once(seq, S) \in Seq(T) /\ ToSet(Once(seq, S)) = {seq[i] : i \in K}
  <2> HIDE DEF K
  <2> QED BY <1>1, <1>2, AtPlacesIsSeq
<1>4. ASSUME NEW x \in ToSet(seq) \cap S PROVE \E i \in K : seq[i] = x
  <2> DEFINE P == {i \in DOMAIN seq : seq[i] = x}
  <2>1. DOMAIN seq = 1..Len(seq) /\ Len(seq) \in Nat BY LenProperties
  <2>2. IsFiniteSet(P)
    <3>1. IsFiniteSet(DOMAIN seq) BY <2>1, UpToCounts
    <3>2. P \in SUBSET DOMAIN seq OBVIOUS
    <3> QED BY <3>1, <3>2, FS_Subset
  <2>3. P # {} /\ P \in SUBSET Int BY <2>1 DEF ToSet
  <2>4. PICK i \in P : \A j \in P : i <= j
    <3> HIDE DEF P
    <3> QED BY <2>2, <2>3, HasLeast
  <2>5. \A j \in 1..(i - 1) : j \in DOMAIN seq /\ ~(i <= j) BY <2>1, <2>4
  <2>6. \A j \in 1..(i - 1) : seq[j] # seq[i] BY <2>4, <2>5
  <2> QED BY <2>4, <2>6
<1>5. {seq[i] : i \in K} = ToSet(seq) \cap S BY <1>4 DEF ToSet
<1> QED BY <1>3, <1>5

-----------------------------------------------------------------------------
\* What plans come to, and what rules are taken for.

LEMMA ShownIsTyped ==
  /\ ByPosition \in Seq(Shown) /\ ToSet(ByPosition) = Shown
  /\ \A roles : On(roles) \subseteq Shown
BY PlanAssumption DEF Shown, On

\* A rule and its display.
LEMMA TargetsAreTyped ==
  ASSUME NEW rules \in Seq(Rules)
  PROVE  /\ Targets(rules) \in Seq(Shown \cup {NoDisplay})
         /\ DOMAIN Targets(rules) = DOMAIN rules
         /\ \A i \in DOMAIN rules : Targets(rules)[i] = rules[i].on
<1>1. DOMAIN rules = 1..Len(rules) /\ Len(rules) \in Nat /\ \A i \in DOMAIN rules : rules[i] \in Rules
  BY LenProperties
<1>2. \A i \in DOMAIN rules : rules[i].on \in Shown \cup {NoDisplay} BY <1>1 DEF Rules
<1>3. Targets(rules) \in [1..Len(rules) -> Shown \cup {NoDisplay}] BY <1>1, <1>2 DEF Targets
<1> QED BY <1>1, <1>3, FunctionIsSeq DEF Targets

\* What is taken of no place is the same whatever it is taken from.
LEMMA OnceOfNone ==
  ASSUME NEW s, NEW t
  PROVE  Once(s, {}) = Once(t, {})
<1>1. \A q : {i \in DOMAIN q : q[i] \in {} /\ \A j \in 1..(i - 1) : q[j] # q[i]} = {} OBVIOUS
<1>2. 1..Cardinality({}) = {} BY FS_EmptySet
<1>3. \A q : AtPlaces(q, {}) = [n \in {} |-> q[Nth({}, n)]] BY <1>2 DEF AtPlaces
<1>4. AtPlaces(s, {}) = AtPlaces(t, {}) BY <1>3
<1> QED BY <1>1, <1>4 DEF Once

\* A guess, with the rules it was made from, comes to what it comes to without them: every
\* display of a rule is in its order already.
LEMMA GuessWithItsRules ==
  ASSUME NEW rules \in Seq(Rules), NEW G, G.order = Once(Targets(rules), Shown), G.rules = <<>>,
         NEW s, s.order = G.order, s.rules = rules,
         s.strategy = G.strategy, s.group = G.group, s.count = G.count, s.persist = G.persist,
         NEW on \in SUBSET Shown, on \subseteq ToSet(Targets(rules))
  PROVE  Generated(s, on) = Generated(G, on)
<1>1. ToSet(G.order) = ToSet(Targets(rules)) \cap Shown BY TargetsAreTyped, OnceIsSeq
<1>2. on \ ToSet(G.order) = {} BY <1>1
<1>3. \A S : {} \ S = {} OBVIOUS
<1>4. OrderedKeys(s, on)
        = Once(G.order, on) \o Once(Targets(rules), {}) \o Once(ByPosition, {})
  BY <1>2, <1>3 DEF OrderedKeys
<1>5. OrderedKeys(G, on)
        = Once(G.order, on) \o Once(Targets(<<>>), {}) \o Once(ByPosition, {})
  BY <1>2, <1>3 DEF OrderedKeys
<1>6. Once(Targets(rules), {}) = Once(Targets(<<>>), {}) BY OnceOfNone
<1>7. OrderedKeys(s, on) = OrderedKeys(G, on) BY <1>4, <1>5, <1>6
<1> QED BY <1>7 DEF Generated

\* All the guesses are guesses.
LEMMA GuessesAreGuesses ==
  ASSUME NEW rules \in Seq(Rules), NEW k \in 1..Len(Guesses(rules))
  PROVE  \E strategy \in {"sequential", "interleave"}, group \in Nat \ {0} :
           Guesses(rules)[k] = Guess(rules, strategy, group)
<1> DEFINE All == {Guess(rules, strategy, group) :
                     strategy \in {"sequential", "interleave"}, group \in Nat \ {0}}
           one == IF Len(Once(Targets(rules), Shown)) = 1
                  THEN <<Guess(rules, "sequential", DefaultGroup)>> ELSE <<>>
           each == [g \in DOMAIN rules |-> Guess(rules, "sequential", g)]
<1>1. \A strategy \in {"sequential", "interleave"}, group \in Nat \ {0} :
        Guess(rules, strategy, group) \in All
  OBVIOUS
<1>2. DOMAIN rules = 1..Len(rules) /\ Len(rules) \in Nat BY LenProperties
<1>3. DefaultGroup \in Nat \ {0} BY PlanAssumption
<1>4. Guess(rules, "sequential", DefaultGroup) \in All /\ Guess(rules, "interleave", 1) \in All
  BY <1>1, <1>3
<1>5. \A g \in DOMAIN rules : Guess(rules, "sequential", g) \in All BY <1>1, <1>2
<1> HIDE DEF All
<1>6. one \in Seq(All) BY <1>4
<1>7. <<Guess(rules, "interleave", 1)>> \in Seq(All) BY <1>4
<1>8. each \in Seq(All)
  <2>1. each \in [1..Len(rules) -> All] BY <1>2, <1>5
  <2> HIDE DEF each
  <2> QED BY <1>2, <2>1, FunctionIsSeq
<1>9. Guesses(rules) = one \o <<Guess(rules, "interleave", 1)>> \o each BY DEF Guesses
<1> HIDE DEF one, each
<1>10. Guesses(rules) \in Seq(All) BY <1>6, <1>7, <1>8, <1>9, ConcatProperties
<1>11. Guesses(rules)[k] \in All BY <1>10, ElementOfSeq
<1> QED BY <1>11 DEF All

\* The guess that is taken, if any, reproduces the rules.
LEMMA InferredReproduces ==
  ASSUME NEW rules \in Seq(Rules), Inferred(rules) # 0
  PROVE  /\ Inferred(rules) \in 1..Len(Guesses(rules))
         /\ Reproduces(Guesses(rules)[Inferred(rules)], rules)
<1> DEFINE I == {i \in 1..Len(Guesses(rules)) : Reproduces(Guesses(rules)[i], rules)}
<1>1. I # {} /\ Inferred(rules) = Min(I) BY DEF Inferred, SelectInSeq
<1>2. I \in SUBSET Int OBVIOUS
<1>3. IsFiniteSet(I)
  <2>1. IsFiniteSet(1..Len(Guesses(rules)))
    <3>1. Len(Guesses(rules)) \in Nat BY DEF Guesses
    <3> QED BY <3>1, UpToCounts
  <2> QED BY <2>1, FS_Subset
<1>4. \E x \in I : \A y \in I : x <= y
  <2> HIDE DEF I
  <2> QED BY <1>1, <1>2, <1>3, HasLeast
<1>5. Min(I) \in I BY <1>4 DEF Min
<1> QED BY <1>1, <1>5

\* Rules that are read back as a plan come to themselves, as long as every display that is
\* on has one and no other has.
THEOREM PlansAreReadBack ==
  ASSUME assigned \in Seq(Rules)
  PROVE  PlanIsReadBack
<1> SUFFICES ASSUME ToSet(Targets(assigned)) = On(liveRole)
             PROVE  Resolved(FromHypr(assigned, liveRole), liveRole) = assigned
  BY DEF PlanIsReadBack, EveryDisplayHasRules
<1> DEFINE on == On(liveRole)
           s == FromHypr(assigned, liveRole)
<1>1. CASE assigned = <<>>
  <2>1. s.enabled = FALSE BY <1>1 DEF FromHypr
  <2> QED BY <1>1, <2>1 DEF Resolved
<1>2. CASE assigned # <<>> /\ Inferred(assigned) = 0
  <2>1. s.enabled /\ s.strategy = "manual" /\ s.rules = assigned BY <1>2 DEF FromHypr
  <2>2. Resolved(s, liveRole) = ManualRules(s) BY <2>1 DEF Resolved
  <2>3. \A i \in DOMAIN assigned : assigned[i].on # NoDisplay
    <3>1. \A i \in DOMAIN assigned : assigned[i].on \in ToSet(Targets(assigned))
      BY TargetsAreTyped DEF ToSet
    <3> QED BY <3>1, ShownIsTyped, PlanAssumption
  <2>4. {i \in DOMAIN s.rules : s.rules[i].on # NoDisplay} = DOMAIN assigned BY <2>1, <2>3
  <2> HIDE DEF s
  <2>5. AtPlaces(assigned, DOMAIN assigned) = assigned BY AtPlacesIsSeq
  <2>6. ManualRules(s) = AtPlaces(s.rules, DOMAIN assigned) BY <2>4 DEF ManualRules
  <2>7. ManualRules(s) = assigned BY <2>1, <2>5, <2>6
  <2> QED BY <2>2, <2>7 DEF s
<1>3. CASE assigned # <<>> /\ Inferred(assigned) # 0
  <2> DEFINE G == Guesses(assigned)[Inferred(assigned)]
  <2>1. Inferred(assigned) \in 1..Len(Guesses(assigned)) /\ Reproduces(G, assigned)
    BY <1>3, InferredReproduces
  <2>2. PICK strategy \in {"sequential", "interleave"}, group \in Nat \ {0} :
          G = Guess(assigned, strategy, group)
    BY <2>1, GuessesAreGuesses
  <2>3. s = [G EXCEPT !.rules = assigned] BY <1>3 DEF FromHypr
  <2> HIDE DEF G, s
  <2>4. /\ G.order = Once(Targets(assigned), Shown) /\ G.rules = <<>> /\ G.strategy = strategy
    BY <2>2 DEF Guess
  <2>5. /\ s.order = G.order /\ s.rules = assigned /\ s.strategy = G.strategy
        /\ s.group = G.group /\ s.count = G.count /\ s.persist = G.persist /\ s.enabled
    BY <2>2, <2>3 DEF Guess
  <2>6. on \in SUBSET Shown /\ on \subseteq ToSet(Targets(assigned)) BY ShownIsTyped
  <2>7. Generated(s, on) = Generated(G, on) BY <2>4, <2>5, <2>6, GuessWithItsRules
  <2>8. Generated(G, on) = assigned BY <2>1 DEF Reproduces
  <2>9. s.strategy # "manual" BY <2>4, <2>5
  <2>10. Resolved(s, liveRole) = Generated(s, on) BY <2>5, <2>9 DEF Resolved
  <2> QED BY <2>7, <2>8, <2>10 DEF s
<1> QED BY <1>1, <1>2, <1>3

-----------------------------------------------------------------------------
\* The invariant: the draft, the saved profile and the compositor have a plan each.

LEMMA OnceIsOf ==
  ASSUME NEW T, NEW seq \in Seq(T), NEW S
  PROVE  Once(seq, S) \in Seq(S)
<1> DEFINE o == Once(seq, S)
<1>1. o \in Seq(T) /\ ToSet(o) = ToSet(seq) \cap S BY OnceIsSeq
<1> HIDE DEF o
<1>2. DOMAIN o = 1..Len(o) /\ Len(o) \in Nat /\ o \in [1..Len(o) -> T] BY <1>1, LenProperties
<1>3. \A i \in 1..Len(o) : o[i] \in S BY <1>1, <1>2 DEF ToSet
<1>4. o \in [1..Len(o) -> S] BY <1>2, <1>3
<1>5. o \in Seq(S) BY <1>2, <1>4, FunctionIsSeq
<1> QED BY <1>5 DEF o

LEMMA OrderedKeysAreShown ==
  ASSUME NEW s, s.order \in Seq(Shown), s.rules \in Seq(Rules), NEW on \in SUBSET Shown
  PROVE  OrderedKeys(s, on) \in Seq(Shown)
<1> DEFINE a == Once(s.order, on)
           b == Once(Targets(s.rules), on \ ToSet(s.order))
           c == Once(ByPosition, (on \ ToSet(s.order)) \ ToSet(Targets(s.rules)))
<1>1. a \in Seq(Shown) BY OnceIsSeq
<1>2. b \in Seq(Shown)
  <2>1. b \in Seq(on \ ToSet(s.order)) BY TargetsAreTyped, OnceIsOf
  <2>2. on \ ToSet(s.order) \subseteq Shown OBVIOUS
  <2> HIDE DEF b
  <2> QED BY <2>1, <2>2, SeqMonotonic
<1>3. c \in Seq(Shown) BY ShownIsTyped, OnceIsSeq
<1>4. OrderedKeys(s, on) = a \o b \o c BY DEF OrderedKeys
<1> HIDE DEF a, b, c
<1> QED BY <1>1, <1>2, <1>3, <1>4, ConcatProperties

\* A generated plan deals out displays that are shown.
LEMMA GeneratedIsTyped ==
  ASSUME NEW s, s.order \in Seq(Shown), s.rules \in Seq(Rules), s.count \in Nat,
         s.group \in Nat \ {0}, s.persist \in BOOLEAN, NEW on \in SUBSET Shown
  PROVE  Generated(s, on) \in Seq(Rules)
<1> DEFINE order == OrderedKeys(s, on)
           n == Len(order)
           Turn(i) == IF s.strategy = "interleave" THEN i - 1 ELSE (i - 1) \div s.group
           dealt == [i \in 1..s.count |-> order[1 + (Turn(i) % n)]]
           First(i) == \A j \in 1..(i - 1) : dealt[j] # dealt[i]
           f == [i \in 1..s.count |->
                   [space |-> i, on |-> dealt[i], default |-> First(i), persistent |-> s.persist \/ First(i)]]
<1>1. order \in Seq(Shown) BY OrderedKeysAreShown
<1>2. Generated(s, on) = IF n = 0 THEN <<>> ELSE f BY DEF Generated
<1>3. CASE n = 0 BY <1>2, <1>3
<1>4. CASE n # 0
  <2>1. n \in Nat \ {0}
    <3> HIDE DEF order
    <3> QED BY <1>1, <1>4, LenProperties
  <2>2. \A i \in 1..s.count : Turn(i) \in Int
    <3>1. \A i \in 1..s.count : i - 1 \in Int /\ (i - 1) \div s.group \in Int OBVIOUS
    <3> QED BY <3>1
  <2>3. \A i \in 1..s.count : 1 + (Turn(i) % n) \in 1..n
    <3> HIDE DEF n, Turn
    <3> QED BY <2>1, <2>2
  <2>4. \A i \in 1..s.count : dealt[i] \in Shown
    <3>1. \A j \in 1..n : order[j] \in Shown
      <4> HIDE DEF order
      <4> QED BY <1>1, ElementOfSeq
    <3> HIDE DEF order, Turn
    <3> QED BY <2>3, <3>1
  <2> HIDE DEF dealt
  <2>5. \A i \in 1..s.count : First(i) \in BOOLEAN /\ (s.persist \/ First(i)) \in BOOLEAN OBVIOUS
  <2> HIDE DEF First
  <2>6. f \in [1..s.count -> Rules]
    <3>1. ASSUME NEW i \in 1..s.count
          PROVE  [space |-> i, on |-> dealt[i], default |-> First(i), persistent |-> s.persist \/ First(i)]
                   \in Rules
      <4>1. i \in Nat /\ dealt[i] \in Shown \cup {NoDisplay} BY <2>4
      <4> QED BY <2>5, <4>1 DEF Rules
    <3> QED BY <3>1
  <2> HIDE DEF f
  <2>7. f \in Seq(Rules) BY <2>6, FunctionIsSeq
  <2> QED BY <1>2, <1>4, <2>7
<1> QED BY <1>3, <1>4

LEMMA ResolvedIsTyped ==
  ASSUME NEW s \in PlanSettings, NEW roles
  PROVE  Resolved(s, roles) \in Seq(Rules)
<1>1. /\ s.order \in Seq(Shown) /\ s.rules \in Seq(Rules) /\ s.count \in Nat
      /\ s.group \in Nat \ {0} /\ s.persist \in BOOLEAN
  BY DEF PlanSettings
<1>2. Generated(s, On(roles)) \in Seq(Rules) BY <1>1, ShownIsTyped, GeneratedIsTyped
<1>3. ManualRules(s) \in Seq(Rules)
  <2> DEFINE K == {i \in DOMAIN s.rules : s.rules[i].on # NoDisplay}
  <2>1. K \in SUBSET DOMAIN s.rules OBVIOUS
  <2>2. ManualRules(s) = AtPlaces(s.rules, K) BY DEF ManualRules
  <2> HIDE DEF K
  <2> QED BY <1>1, <2>1, <2>2, AtPlacesIsSeq
<1>4. <<>> \in Seq(Rules) OBVIOUS
<1>5. Resolved(s, roles) \in {<<>>, ManualRules(s), Generated(s, On(roles))}
  <2>1. s.enabled \in BOOLEAN BY DEF PlanSettings
  <2> QED BY <2>1 DEF Resolved
<1> QED BY <1>2, <1>3, <1>4, <1>5

LEMMA FromHyprIsTyped ==
  ASSUME NEW rules \in Seq(Rules), NEW roles
  PROVE  FromHypr(rules, roles) \in PlanSettings
<1> DEFINE order == Once(ByPosition, {d \in Shown : roles[d] # "mirror"})
           imported == [enabled |-> rules # <<>>, strategy |-> IF rules = <<>> THEN "sequential" ELSE "manual",
                        count |-> DefaultCount, group |-> DefaultGroup, persist |-> FALSE,
                        order |-> order, rules |-> rules]
<1>1. order \in Seq(Shown) BY ShownIsTyped, OnceIsSeq
<1> HIDE DEF order
<1>2. imported \in PlanSettings BY <1>1, PlanAssumption DEF PlanSettings
<1>3. CASE rules = <<>> \/ Inferred(rules) = 0 BY <1>2, <1>3 DEF FromHypr, order
<1>4. CASE rules # <<>> /\ Inferred(rules) # 0
  <2> DEFINE G == Guesses(rules)[Inferred(rules)]
  <2>1. PICK strategy \in {"sequential", "interleave"}, group \in Nat \ {0} :
          G = Guess(rules, strategy, group)
    BY <1>4, InferredReproduces, GuessesAreGuesses
  <2>2. FromHypr(rules, roles) = [G EXCEPT !.rules = rules] BY <1>4 DEF FromHypr
  <2> HIDE DEF G
  <2>3. Len(rules) \in Nat BY LenProperties
  <2>4. Once(Targets(rules), Shown) \in Seq(Shown) BY TargetsAreTyped, OnceIsOf
  <2>5. GuessedPersist(rules) \in BOOLEAN BY DEF GuessedPersist
  <2>6. G \in PlanSettings
    <3>1. <<>> \in Seq(Rules) OBVIOUS
    <3> QED BY <2>1, <2>3, <2>4, <2>5, <3>1 DEF Guess, PlanSettings
  <2>7. [G EXCEPT !.rules = rules] \in PlanSettings BY <2>6 DEF PlanSettings
  <2> QED BY <2>2, <2>7
<1> QED BY <1>3, <1>4

LEMMA EditorOfIsTyped ==
  ASSUME NEW s \in PlanSettings, NEW roles
  PROVE  EditorOf(s, roles) \in PlannerState
<1> DEFINE first == IF s.order = <<>> THEN Targets(s.rules) ELSE s.order
           last == IF s.strategy = "manual" /\ s.rules # <<>> THEN s.rules[Len(s.rules)].space ELSE 0
           count == IF last > 0 THEN last ELSE s.count
           order == Once(first \o ByPosition, {d \in Shown : roles[d] # "mirror"})
           lastGroup == IF s.strategy # "sequential" /\ s.group <= 1 THEN DefaultGroup ELSE s.group
           started == s.strategy = "manual" /\ s.rules # <<>>
<1>1. /\ s.enabled \in BOOLEAN /\ s.strategy \in {"manual", "sequential", "interleave"}
      /\ s.order \in Seq(Shown) /\ s.rules \in Seq(Rules) /\ s.count \in Nat
      /\ s.group \in Nat \ {0} /\ s.persist \in BOOLEAN
  BY DEF PlanSettings
<1>2. count \in Nat
  <2>1. s.rules # <<>> => s.rules[Len(s.rules)] \in Rules
    <3>1. s.rules # <<>> => Len(s.rules) \in 1..Len(s.rules) BY <1>1, EmptySeq
    <3> QED BY <1>1, <3>1, ElementOfSeq
  <2>2. last \in Nat BY <2>1 DEF Rules
  <2> HIDE DEF last
  <2> QED BY <1>1, <2>2
<1>3. order \in Seq(Shown)
  <2> DEFINE T == Shown \cup {NoDisplay}
  <2>1. first \in Seq(T)
    <3>1. Targets(s.rules) \in Seq(T) BY <1>1, TargetsAreTyped
    <3>2. s.order \in Seq(T) BY <1>1, SeqMonotonic
    <3> QED BY <3>1, <3>2
  <2>2. ByPosition \in Seq(T) BY ShownIsTyped, SeqMonotonic
  <2> HIDE DEF first, T
  <2>3. first \o ByPosition \in Seq(T) BY <2>1, <2>2, ConcatProperties
  <2> DEFINE M == {d \in Shown : roles[d] # "mirror"}
  <2>4. M \subseteq Shown OBVIOUS
  <2> HIDE DEF M
  <2>5. Once(first \o ByPosition, M) \in Seq(M) BY <2>3, OnceIsOf
  <2>6. Once(first \o ByPosition, M) \in Seq(Shown) BY <2>4, <2>5, SeqMonotonic
  <2> QED BY <2>6 DEF M
<1>4. lastGroup \in Nat \ {0} BY <1>1, PlanAssumption
<1>5. started \in BOOLEAN OBVIOUS
<1>6. EditorOf(s, roles) =
        [enabled |-> s.enabled, strategy |-> s.strategy, count |-> count, group |-> s.group,
         persist |-> s.persist, rules |-> s.rules, order |-> order, lastGroup |-> lastGroup,
         started |-> started]
  BY DEF EditorOf
<1> HIDE DEF count, order, lastGroup, started
<1> QED BY <1>1, <1>2, <1>3, <1>4, <1>5, <1>6 DEF PlannerState

LEMMA WithDefaultsIsTyped ==
  ASSUME NEW rules \in Seq(Rules)
  PROVE  WithDefaults(rules) \in Seq(Rules)
<1> DEFINE First(i) == rules[i].on # NoDisplay /\ \A j \in 1..(i - 1) : rules[j].on # rules[i].on
           f == [i \in DOMAIN rules |-> [rules[i] EXCEPT !.default = First(i), !.persistent = @ \/ First(i)]]
<1>1. DOMAIN rules = 1..Len(rules) /\ Len(rules) \in Nat /\ \A i \in DOMAIN rules : rules[i] \in Rules
  BY LenProperties
<1>2. WithDefaults(rules) = f BY DEF WithDefaults
<1>3. \A i \in DOMAIN rules : First(i) \in BOOLEAN OBVIOUS
<1> HIDE DEF First
<1>4. ASSUME NEW i \in DOMAIN rules
      PROVE  [rules[i] EXCEPT !.default = First(i), !.persistent = @ \/ First(i)] \in Rules
  BY <1>1, <1>3 DEF Rules
<1>5. f \in [1..Len(rules) -> Rules] BY <1>1, <1>4
<1> HIDE DEF f
<1> QED BY <1>1, <1>2, <1>5, FunctionIsSeq

LEMMA MaterializedIsTyped ==
  ASSUME PlanTypeOK
  PROVE  Materialized \in Seq(Rules)
<1> DEFINE s == Settings(planner)
           t == [s EXCEPT !.strategy = IF @ = "manual" THEN "sequential" ELSE @]
<1>1. planner \in PlannerState BY DEF PlanTypeOK
<1>2. s \in PlanSettings BY <1>1 DEF Settings, PlannerState, PlanSettings
<1> HIDE DEF s
<1>3. /\ t.order = s.order /\ t.rules = s.rules /\ t.count = s.count /\ t.group = s.group
      /\ t.persist = s.persist
  BY <1>2 DEF PlanSettings
<1>4. /\ s.order \in Seq(Shown) /\ s.rules \in Seq(Rules) /\ s.count \in Nat
      /\ s.group \in Nat \ {0} /\ s.persist \in BOOLEAN
  BY <1>2 DEF PlanSettings
<1>5. Materialized = WithDefaults(Generated(t, On(role))) BY DEF Materialized, s
<1> HIDE DEF t
<1>6. Generated(t, On(role)) \in Seq(Rules) BY <1>3, <1>4, ShownIsTyped, GeneratedIsTyped
<1> QED BY <1>5, <1>6, WithDefaultsIsTyped

\* What a key leaves alone keeps its type.
LEMMA PlanKeysKeepTypes ==
  ASSUME PlanTypeOK, NEW p \in PlannerState, ChangesPlan(p)
  PROVE  PlanTypeOK'
BY DEF ChangesPlan, PlanTypeOK

\* The fields of the planner that a key changes.
LEMMA PlannerFields ==
  ASSUME NEW p \in PlannerState
  PROVE  /\ \A g \in Nat \ {0} : [p EXCEPT !.enabled = FALSE, !.lastGroup = g] \in PlannerState
         /\ \A n \in Nat, rules \in Seq(Rules) : [p EXCEPT !.count = n, !.rules = rules] \in PlannerState
         /\ \A g \in Nat \ {0} : [p EXCEPT !.group = g, !.lastGroup = g] \in PlannerState
         /\ [p EXCEPT !.persist = ~@] \in PlannerState
         /\ \A rules \in Seq(Rules) : [p EXCEPT !.rules = rules] \in PlannerState
         /\ \A order \in Seq(Shown) : [p EXCEPT !.order = order] \in PlannerState
         /\ \A rules \in Seq(Rules) :
              [p EXCEPT !.rules = rules, !.started = rules # <<>>] \in PlannerState
<1> DEFINE OS == Seq(Shown)
           RS == Seq(Rules)
           NZ == Nat \ {0}
           ST == {"manual", "sequential", "interleave"}
<1>1. PlannerState =
        [enabled : BOOLEAN, strategy : ST, count : Nat, group : NZ, persist : BOOLEAN, order : OS,
         rules : RS, lastGroup : NZ, started : BOOLEAN]
  BY DEF PlannerState
<1> HIDE DEF OS, RS, NZ, ST
<1>2. \A g \in NZ : [p EXCEPT !.enabled = FALSE, !.lastGroup = g] \in PlannerState BY <1>1
<1>3. \A n \in Nat, rules \in RS : [p EXCEPT !.count = n, !.rules = rules] \in PlannerState BY <1>1
<1>4. \A g \in NZ : [p EXCEPT !.group = g, !.lastGroup = g] \in PlannerState BY <1>1
<1>5. [p EXCEPT !.persist = ~@] \in PlannerState BY <1>1
<1>6. \A rules \in RS : [p EXCEPT !.rules = rules] \in PlannerState BY <1>1
<1>7. \A order \in OS : [p EXCEPT !.order = order] \in PlannerState BY <1>1
<1>8. \A rules \in RS : [p EXCEPT !.rules = rules, !.started = rules # <<>>] \in PlannerState BY <1>1
<1> QED BY <1>2, <1>3, <1>4, <1>5, <1>6, <1>7, <1>8 DEF OS, RS, NZ

\* The Strategy row.
LEMMA StrategyKeepsTypes ==
  ASSUME PlanTypeOK, NEW next \in ToSet(Strategies), ChangesStrategy(next)
  PROVE  PlanTypeOK'
<1> DEFINE kept == IF planner.strategy = "sequential" THEN planner.group ELSE planner.lastGroup
           made == next = "manual" /\ ~planner.started
           group == IF next = "sequential" THEN kept ELSE planner.group
           rules == IF made THEN Materialized ELSE planner.rules
           started == IF made THEN Materialized # <<>> ELSE planner.started
           p == [planner EXCEPT !.enabled = FALSE, !.lastGroup = kept]
           q == [planner EXCEPT !.enabled = TRUE, !.strategy = next, !.lastGroup = kept,
                                !.group = group, !.rules = rules, !.started = started]
<1>1. planner \in PlannerState BY DEF PlanTypeOK
<1>2. next \in {"off", "manual", "sequential", "interleave"} BY DEF ToSet, Strategies
<1>3. kept \in Nat \ {0} /\ planner.group \in Nat \ {0} BY <1>1 DEF PlannerState
<1>4. group \in Nat \ {0} BY <1>3
<1>5. rules \in Seq(Rules) BY <1>1, MaterializedIsTyped DEF PlannerState
<1>6. started \in BOOLEAN BY <1>1 DEF PlannerState
<1>7. ChangesPlan(IF next = "off" THEN p ELSE q) BY <1>1 DEF ChangesStrategy, PlannerState
<1> HIDE DEF kept, group, rules, started
<1>8. p \in PlannerState BY <1>1, <1>3, PlannerFields
<1>9. next # "off" => q \in PlannerState
  <2> SUFFICES ASSUME next # "off" PROVE q \in PlannerState OBVIOUS
  <2> DEFINE OS == Seq(Shown)
             RS == Seq(Rules)
             NZ == Nat \ {0}
             ST == {"manual", "sequential", "interleave"}
  <2>1. PlannerState =
          [enabled : BOOLEAN, strategy : ST, count : Nat, group : NZ, persist : BOOLEAN, order : OS,
           rules : RS, lastGroup : NZ, started : BOOLEAN]
    BY DEF PlannerState
  <2>2. next \in ST /\ kept \in NZ /\ group \in NZ /\ rules \in RS BY <1>2, <1>3, <1>4, <1>5
  <2> HIDE DEF OS, RS, NZ, ST
  <2> QED BY <1>1, <1>6, <2>1, <2>2
<1>10. (IF next = "off" THEN p ELSE q) \in PlannerState BY <1>8, <1>9
<1> QED BY <1>7, <1>10, PlanKeysKeepTypes

LEMMA ResizedIsTyped ==
  ASSUME PlanTypeOK, NEW count \in Nat
  PROVE  Resized(count) \in Seq(Rules)
<1> DEFINE old(i) == {r \in ToSet(planner.rules) : r.space = i}
           new(i) == [space |-> i, on |-> IF Assignable = <<>> THEN NoDisplay ELSE Assignable[1],
                      default |-> FALSE, persistent |-> FALSE]
           f == [i \in 1..count |-> IF old(i) = {} THEN new(i) ELSE CHOOSE r \in old(i) : TRUE]
<1>1. planner.rules \in Seq(Rules) /\ planner.order \in Seq(Shown) BY DEF PlanTypeOK, PlannerState
<1>2. ToSet(planner.rules) \subseteq Rules BY <1>1, LenProperties DEF ToSet
<1>3. Assignable \in Seq(Shown)
  <2>1. planner.order \o ByPosition \in Seq(Shown) BY <1>1, ShownIsTyped, ConcatProperties
  <2> QED BY <2>1, OnceIsSeq DEF Assignable
<1>4. Assignable # <<>> => Assignable[1] \in Shown BY <1>3, EmptySeq, ElementOfSeq
<1>5. \A i \in 1..count : new(i) \in Rules BY <1>4 DEF Rules
<1>6. \A i \in 1..count : old(i) # {} => (CHOOSE r \in old(i) : TRUE) \in Rules BY <1>2
<1> HIDE DEF old, new
<1>7. f \in [1..count -> Rules] BY <1>5, <1>6
<1>8. Resized(count) = WithDefaults(f) BY DEF Resized, old, new
<1> HIDE DEF f
<1> QED BY <1>7, <1>8, FunctionIsSeq, WithDefaultsIsTyped

LEMMA CountKeepsTypes ==
  ASSUME PlanTypeOK, NEW n \in Nat, ChangesCount(n)
  PROVE  PlanTypeOK'
<1> DEFINE rules == IF planner.strategy = "manual" THEN Resized(n) ELSE planner.rules
<1>1. planner \in PlannerState /\ planner.rules \in Seq(Rules) BY DEF PlanTypeOK, PlannerState
<1>2. rules \in Seq(Rules) BY <1>1, ResizedIsTyped
<1>3. ChangesPlan([planner EXCEPT !.count = n, !.rules = rules])
  BY <1>1 DEF ChangesCount, PlannerState
<1> HIDE DEF rules
<1>4. [planner EXCEPT !.count = n, !.rules = rules] \in PlannerState BY <1>1, <1>2, PlannerFields
<1> QED BY <1>3, <1>4, PlanKeysKeepTypes

LEMMA MovesRuleKeepsTypes ==
  ASSUME PlanTypeOK, NEW i \in DOMAIN planner.rules, NEW step \in {1, -1}, MovesRule(i, step)
  PROVE  PlanTypeOK'
<1> DEFINE n == Len(Assignable)
           at == {k \in 1..n : Assignable[k] = planner.rules[i].on}
           to == IF at = {} THEN IF step < 0 THEN n ELSE 1
                 ELSE 1 + (((CHOOSE k \in at : TRUE) - 1 + step) % n)
           moved == [planner.rules EXCEPT ![i].on = Assignable[to]]
           rules == WithDefaults(moved)
<1>1. planner \in PlannerState /\ planner.rules \in Seq(Rules) /\ planner.order \in Seq(Shown)
  BY DEF PlanTypeOK, PlannerState
<1>2. Assignable \in Seq(Shown)
  <2>1. planner.order \o ByPosition \in Seq(Shown) BY <1>1, ShownIsTyped, ConcatProperties
  <2> QED BY <2>1, OnceIsSeq DEF Assignable
<1>3. n \in Nat \ {0} BY <1>2, LenProperties DEF MovesRule
<1>4. to \in 1..n
  <2>1. at # {} => (CHOOSE k \in at : TRUE) \in 1..n OBVIOUS
  <2> HIDE DEF at, n
  <2>2. at # {} => (((CHOOSE k \in at : TRUE) - 1 + step) % n) \in 0..(n - 1)
    <3>1. at # {} => (CHOOSE k \in at : TRUE) - 1 + step \in Int BY <2>1
    <3> QED BY <1>3, <3>1
  <2> QED BY <1>3, <2>2
<1>5. Assignable[to] \in Shown
  <2> HIDE DEF to
  <2> QED BY <1>2, <1>4, ElementOfSeq
<1> HIDE DEF to
<1>6. i \in 1..Len(planner.rules) /\ planner.rules[i] \in Rules
  BY <1>1, LenProperties, ElementOfSeq
<1>7. [planner.rules[i] EXCEPT !.on = Assignable[to]] \in Rules BY <1>5, <1>6 DEF Rules
<1>8. moved \in Seq(Rules)
  <2> DEFINE x == [planner.rules[i] EXCEPT !.on = Assignable[to]]
  <2>1. moved = [planner.rules EXCEPT ![i] = x] OBVIOUS
  <2> HIDE DEF x, moved
  <2>2. x \in Rules BY <1>7 DEF x
  <2> QED BY <1>1, <1>6, <2>1, <2>2, ExceptSeq
<1>9. ChangesPlan([planner EXCEPT !.rules = rules]) BY <1>1 DEF MovesRule, PlannerState, to
<1> HIDE DEF moved
<1>10. rules \in Seq(Rules) BY <1>8, WithDefaultsIsTyped
<1> HIDE DEF rules
<1> QED BY <1>1, <1>9, <1>10, PlannerFields, PlanKeysKeepTypes

LEMMA MovesOrderKeepsTypes ==
  ASSUME PlanTypeOK, NEW i \in 1..(Len(planner.order) - 1), MovesOrder(i)
  PROVE  PlanTypeOK'
<1> DEFINE o == planner.order
           a == [o EXCEPT ![i] = o[i + 1]]
           order == [o EXCEPT ![i] = o[i + 1], ![i + 1] = o[i]]
<1>1. planner \in PlannerState /\ o \in Seq(Shown) BY DEF PlanTypeOK, PlannerState
<1>2. ChangesPlan([planner EXCEPT !.order = order]) BY <1>1 DEF MovesOrder, PlannerState
<1> HIDE DEF o
<1>3. Len(o) \in Nat BY <1>1, LenProperties
<1>4. i \in 1..Len(o) /\ i + 1 \in 1..Len(o) BY <1>3 DEF o
<1>5. o[i] \in Shown /\ o[i + 1] \in Shown BY <1>1, <1>4, ElementOfSeq
<1>6. a \in Seq(Shown) /\ Len(a) = Len(o) BY <1>1, <1>4, <1>5, ExceptSeq
<1>7. order = [a EXCEPT ![i + 1] = o[i]] OBVIOUS
<1> HIDE DEF a, order
<1>8. order \in Seq(Shown) BY <1>4, <1>5, <1>6, <1>7, ExceptSeq
<1> QED BY <1>1, <1>2, <1>8, PlannerFields, PlanKeysKeepTypes

\* A key of the planner.
LEMMA PlansKeyKeepsTypes ==
  ASSUME PlanTypeOK, PlansKey
  PROVE  PlanTypeOK'
<1>0. planner \in PlannerState BY DEF PlanTypeOK
<1>1. ASSUME NEW c \in ToSet(Strategies), ChangesStrategy(c) PROVE PlanTypeOK'
  BY <1>1, StrategyKeepsTypes
<1>2. ASSUME NEW n \in 1..MaxCount, ChangesCount(n) PROVE PlanTypeOK'
  BY <1>2, PlanAssumption, CountKeepsTypes
<1>3. ASSUME NEW n \in 1..MaxCount, ChangesGroup(n) PROVE PlanTypeOK'
  <2>1. n \in Nat \ {0} BY PlanAssumption
  <2>2. [planner EXCEPT !.group = n, !.lastGroup = n] \in PlannerState BY <1>0, <2>1, PlannerFields
  <2> QED BY <1>3, <2>2, PlanKeysKeepTypes DEF ChangesGroup
<1>4. ASSUME TogglesPersistence PROVE PlanTypeOK'
  <2>1. [planner EXCEPT !.persist = ~@] \in PlannerState BY <1>0, PlannerFields
  <2> QED BY <1>4, <2>1, PlanKeysKeepTypes DEF TogglesPersistence
<1>5. ASSUME NEW i \in DOMAIN planner.rules, NEW step \in {1, -1}, MovesRule(i, step)
      PROVE  PlanTypeOK'
  BY <1>5, MovesRuleKeepsTypes
<1>6. ASSUME NEW i \in 1..(Len(planner.order) - 1), MovesOrder(i) PROVE PlanTypeOK'
  BY <1>6, MovesOrderKeepsTypes
<1>7. ASSUME OpensTab PROVE PlanTypeOK'
  <2>1. Materialized \in Seq(Rules) BY MaterializedIsTyped
  <2>2. [planner EXCEPT !.rules = Materialized, !.started = Materialized # <<>>] \in PlannerState
    BY <1>0, <2>1, PlannerFields
  <2> QED BY <1>7, <2>2, PlanKeysKeepTypes DEF OpensTab
<1> QED BY <1>1, <1>2, <1>3, <1>4, <1>5, <1>6, <1>7 DEF PlansKey

LEMMA SettingsAreTyped ==
  ASSUME NEW p \in PlannerState
  PROVE  Settings(p) \in PlanSettings
BY DEF Settings, PlannerState, PlanSettings

\* Whatever is edited, saved, applied and read back, draft, profile and compositor have
\* plans whose rules are rules and whose groups are not empty (Generated divides by their
\* size: workspaces.go).
THEOREM PlanIsTyped == PlanSpec => []PlanTypeOK
<1>1. ASSUME PlanInit PROVE PlanTypeOK
  <2>1. role = liveRole /\ liveRole \in [Shown -> Roles] BY <1>1 DEF PlanInit, Roles
  <2>2. assigned \in Seq(Rules) BY <1>1, PlanAssumption DEF PlanInit
  <2>3. planner \in PlannerState BY <1>1, <2>2, FromHyprIsTyped, EditorOfIsTyped DEF PlanInit
  <2>4. stored \in [role : [Shown -> Roles], plan : PlanSettings]
    BY <1>1, <2>1, <2>3, SettingsAreTyped DEF PlanInit
  <2> QED BY <2>1, <2>2, <2>3, <2>4 DEF PlanTypeOK
<1>2. ASSUME PlanTypeOK, [PlanNext]_planVars PROVE PlanTypeOK'
  <2>0. /\ role \in [Shown -> Roles] /\ liveRole \in [Shown -> Roles]
        /\ planner \in PlannerState /\ assigned \in Seq(Rules)
        /\ stored.role \in [Shown -> Roles] /\ stored.plan \in PlanSettings
    BY <1>2 DEF PlanTypeOK
  <2>1. CASE UNCHANGED planVars BY <1>2, <2>1 DEF planVars, PlanTypeOK
  <2>2. CASE PlansKey BY <1>2, <2>2, PlansKeyKeepsTypes
  <2>3. ASSUME NEW d \in Shown, NEW r \in Roles, ChangesRole(d, r) PROVE PlanTypeOK'
    BY <1>2, <2>3 DEF ChangesRole, PlanTypeOK
  <2>4. CASE SavesPlan BY <1>2, <2>0, <2>4, SettingsAreTyped DEF SavesPlan, PlanTypeOK
  <2>5. CASE AppliesPlan
    <3>1. Resolved(Settings(planner), role) \in Seq(Rules) BY <2>0, SettingsAreTyped, ResolvedIsTyped
    <3> QED BY <1>2, <2>5, <3>1 DEF AppliesPlan, PlanTypeOK
  <2>6. CASE RereadsPlan
    <3> DEFINE s == IF IsActive THEN stored.plan ELSE FromHypr(assigned, liveRole)
    <3>1. s \in PlanSettings BY <2>0, FromHyprIsTyped
    <3> HIDE DEF s
    <3>2. EditorOf(s, liveRole) \in PlannerState BY <3>1, EditorOfIsTyped
    <3>3. planner' = EditorOf(s, liveRole) BY <2>6 DEF RereadsPlan, s
    <3> QED BY <1>2, <2>0, <2>6, <3>2, <3>3 DEF RereadsPlan, PlanTypeOK
  <2>7. CASE LoadsPlan
    <3>1. EditorOf(stored.plan, stored.role) \in PlannerState BY <2>0, EditorOfIsTyped
    <3> QED BY <1>2, <2>0, <2>7, <3>1 DEF LoadsPlan, PlanTypeOK
  <2> QED BY <1>2, <2>1, <2>2, <2>3, <2>4, <2>5, <2>6, <2>7 DEF PlanNext
<1> QED BY <1>1, <1>2, PTL DEF PlanSpec

\* Whatever plan was applied, what is read back from the compositor comes to the rules it
\* has, when every display that is on has a rule (WorkspaceSettingsFromHypr).
THEOREM PlanIsAlwaysReadBack == PlanSpec => []PlanIsReadBack
<1>1. PlanTypeOK => PlanIsReadBack BY PlansAreReadBack DEF PlanTypeOK
<1> QED BY <1>1, PlanIsTyped, PTL

-----------------------------------------------------------------------------
\* The layout editor. Counting, and the least of a set of numbers.

\* A set of natural numbers that is not empty has a least one.
LEMMA NatHasLeast ==
  ASSUME NEW S \in SUBSET Nat, S # {}
  PROVE  Min(S) \in S /\ \A y \in S : Min(S) <= y
<1>1. PICK x \in S : \A y \in S : <<y, x>> \notin OpToRel(<, Nat)
  BY NatLessThanWellFounded, WFMin
<1>2. \A y \in S : ~(y < x) BY <1>1 DEF OpToRel
<1>3. \A y \in S : x <= y BY <1>2
<1> QED BY <1>3 DEF Min

\* What holds of 0, and of each number with the one before it, holds up to n.
LEMMA CountsUp ==
  ASSUME NEW n \in Nat, NEW T, 0 \in T, \A k \in 1..n : k - 1 \in T => k \in T
  PROVE  \A k \in 0..n : k \in T
<1> DEFINE S == (0..n) \ T
<1>1. ASSUME S # {} PROVE FALSE
  <2>1. S \in SUBSET Nat OBVIOUS
  <2> DEFINE m == Min(S)
  <2>2. m \in S /\ \A y \in S : m <= y
    <3> HIDE DEF S
    <3> QED BY <1>1, <2>1, NatHasLeast
  <2> HIDE DEF m
  <2>3. m \in 1..n /\ m - 1 \in 0..n /\ m - 1 \notin S BY <2>2
  <2> QED BY <2>2, <2>3
<1> QED BY <1>1

\* The nearest of some places is one of them.
LEMMA NearestIsThere ==
  ASSUME NEW K \in SUBSET Nat, K # {}, NEW place, NEW distance, \A k \in K : distance[k] \in Nat
  PROVE  \E k \in K : Nearest(K, place, distance) = place[k]
<1> DEFINE D == {distance[k] : k \in K}
           least == Min(D)
           L == {k \in K : distance[k] = least}
<1>1. least \in D
  <2>1. D \in SUBSET Nat /\ D # {} OBVIOUS
  <2> HIDE DEF D
  <2> QED BY <2>1, NatHasLeast
<1>2. L \in SUBSET Nat /\ L # {} BY <1>1
<1>3. Min(L) \in L
  <2> HIDE DEF L
  <2> QED BY <1>2, NatHasLeast
<1> QED BY <1>3 DEF Nearest

-----------------------------------------------------------------------------
Layouts == [Displays -> Placements]

\* A display is at least one pixel wide and high.
LEMMA Extents ==
  ASSUME NEW o \in Placements
  PROVE  Width(o) \in Nat \ {0} /\ Height(o) \in Nat \ {0}
<1>1. ASSUME NEW a \in Nat PROVE Max({1, a}) \in Nat \ {0}
  <2>1. \E x \in {1, a} : \A y \in {1, a} : x >= y
    <3>1. CASE a >= 1 BY <3>1
    <3>2. CASE ~(a >= 1) BY <3>2
    <3> QED BY <3>1, <3>2
  <2>2. Max({1, a}) \in {1, a} /\ \A y \in {1, a} : Max({1, a}) >= y BY <2>1 DEF Max
  <2> QED BY <2>2
<1>2. o.size \in Nat \X Nat BY EditorAssumption DEF Placements
<1>3. o.size[1] \in Nat /\ o.size[2] \in Nat BY <1>2
<1> QED BY <1>1, <1>3 DEF Width, Height

\* What moves keeps its size.
LEMMA Moved ==
  ASSUME NEW o \in Placements, NEW x \in Int, NEW y \in Int
  PROVE  /\ MoveTo(o, x, y) \in Placements
         /\ MoveTo(o, x, y).x = x /\ MoveTo(o, x, y).y = y
         /\ Width(MoveTo(o, x, y)) = Width(o) /\ Height(MoveTo(o, x, y)) = Height(o)
         /\ Reflowable(MoveTo(o, x, y)) = Reflowable(o)
         /\ MoveTo(o, x, y).mirror = o.mirror /\ MoveTo(o, x, y).on = o.on
BY DEF MoveTo, Placements, Width, Height, Reflowable, Placeable

\* The edges of a display are whole numbers, left before right and top before bottom.
LEMMA Boxes ==
  ASSUME NEW o \in Placements
  PROVE  /\ Box(o).left \in Int /\ Box(o).right \in Int /\ Box(o).left < Box(o).right
         /\ Box(o).top \in Int /\ Box(o).bottom \in Int /\ Box(o).top < Box(o).bottom
         /\ Box(o).left = o.x /\ Box(o).top = o.y
         /\ Box(o).right = o.x + Width(o) /\ Box(o).bottom = o.y + Height(o)
<1>1. o.x \in Int /\ o.y \in Int BY DEF Placements
<1> QED BY <1>1, Extents DEF Box

\* What lies on another is lain on by it.
LEMMA OverlapIsMutual ==
  ASSUME NEW a, NEW b, Overlap(a, b)
  PROVE  Overlap(b, a)
BY DEF Overlap, SameRow, SameColumn, SpansOverlap

-----------------------------------------------------------------------------
\* Candidates.

Orders == Seq(Displays)

\* Every display is in it.
Covers(order) == \A e \in Displays : \E n \in 1..Len(order) : order[n] = e

\* A candidate's number tells the display it is beside, and on which side.
LEMMA CandidatesAreBeside ==
  ASSUME NEW order \in Orders, NEW k \in Candidates(order)
  PROVE  Beside(order, k) \in Displays /\ k \in Nat /\ Side(k) \in 0..3
<1>1. Len(order) \in Nat /\ DOMAIN order = 1..Len(order) /\ \A i \in 1..Len(order) : order[i] \in Displays
  BY LenProperties, ElementOfSeq DEF Orders
<1>2. 1 + (k - 1) \div 4 \in 1..Len(order) BY <1>1 DEF Candidates
<1> QED BY <1>1, <1>2 DEF Beside, Side, Candidates

\* The second candidate of a display is its right edge.
LEMMA HasRightEdge ==
  ASSUME NEW ds \in Layouts, NEW d \in Displays, NEW order \in Orders,
         NEW n \in 1..Len(order)
  PROVE  /\ 4 * n - 2 \in Candidates(order) /\ Beside(order, 4 * n - 2) = order[n]
         /\ Edges(ds, d, order)[4 * n - 2] = <<Box(ds[order[n]]).right, ds[d].y>>
<1>1. Len(order) \in Nat BY LenProperties DEF Orders
<1>2. 4 * n - 2 \in Candidates(order) BY <1>1 DEF Candidates
<1>3. (4 * n - 2 - 1) \div 4 = n - 1 /\ (4 * n - 2 - 1) % 4 = 1 BY <1>1
<1>4. Side(4 * n - 2) = 1 /\ 1 + (4 * n - 2 - 1) \div 4 = n BY <1>1, <1>3 DEF Side
<1>5. Beside(order, 4 * n - 2) = order[n] BY <1>4 DEF Beside
<1> DEFINE k == 4 * n - 2
<1> HIDE DEF k
<1>6. ASSUME k \in Candidates(order), Side(k) = 1, Beside(order, k) = order[n]
      PROVE  Edges(ds, d, order)[k] = <<Box(ds[order[n]]).right, ds[d].y>>
  BY <1>6 DEF Edges
<1> QED BY <1>2, <1>4, <1>5, <1>6 DEF k

\* A candidate is a place.
LEMMA EdgesAreTyped ==
  ASSUME NEW ds \in Layouts, NEW d \in Displays, NEW order \in Orders,
         NEW k \in Candidates(order)
  PROVE  Edges(ds, d, order)[k] \in Int \X Int
<1> DEFINE b == Box(ds[Beside(order, k)])
           o == ds[d]
<1>1. Beside(order, k) \in Displays BY CandidatesAreBeside
<1>2. ds[Beside(order, k)] \in Placements /\ o \in Placements BY <1>1 DEF Layouts
<1>3. b.left \in Int /\ b.right \in Int /\ b.top \in Int /\ b.bottom \in Int BY <1>2, Boxes
<1>4. o.x \in Int /\ o.y \in Int /\ Width(o) \in Int /\ Height(o) \in Int
  BY <1>2, Extents DEF Placements
<1>5. Edges(ds, d, order)[k] =
        CASE Side(k) = 0 -> <<b.left - Width(o), o.y>>
          [] Side(k) = 1 -> <<b.right, o.y>>
          [] Side(k) = 2 -> <<o.x, b.top - Height(o)>>
          [] OTHER -> <<o.x, b.bottom>>
  BY DEF Edges
<1> HIDE DEF b, o
<1> QED BY <1>3, <1>4, <1>5

\* Nothing lies on it.
Free(ds, d) == Reflowable(ds[d]) => ~Covered(ds, d, <<ds[d].x, ds[d].y>>)

\* What a placement does: nothing to the others, and a display that must move goes to
\* an edge that is clear.
LEMMA PlacementMoves ==
  ASSUME NEW ds \in Layouts, NEW d \in Displays, NEW order \in Orders
  PROVE  \/ /\ Free(ds, d) \/ ClearEdges(ds, d, order) = {}
            /\ PlaceOutside(ds, d, order) = ds
         \/ \E k \in ClearEdges(ds, d, order) :
              PlaceOutside(ds, d, order) =
                [ds EXCEPT ![d] = MoveTo(ds[d], Edges(ds, d, order)[k][1], Edges(ds, d, order)[k][2])]
<1> DEFINE o == ds[d]
           edges == Edges(ds, d, order)
           clear == ClearEdges(ds, d, order)
           distance == [k \in clear |-> SquareDistance(o, edges[k])]
           best == Nearest(clear, edges, distance)
<1>1. CASE ~Reflowable(o) \/ ~Covered(ds, d, <<o.x, o.y>>) \/ clear = {}
  BY <1>1 DEF PlaceOutside, Free
<1>2. CASE ~(~Reflowable(o) \/ ~Covered(ds, d, <<o.x, o.y>>) \/ clear = {})
  <2>1. PlaceOutside(ds, d, order) = [ds EXCEPT ![d] = MoveTo(ds[d], best[1], best[2])]
    BY <1>2 DEF PlaceOutside, Layouts
  <2>2. clear \in SUBSET Nat /\ clear # {} /\ clear \subseteq Candidates(order)
    BY <1>2, CandidatesAreBeside DEF ClearEdges
  <2>3. ASSUME NEW k \in clear PROVE distance[k] \in Nat
    <3>1. edges[k] \in Int \X Int BY <2>2, EdgesAreTyped
    <3>2. edges[k][1] \in Int /\ edges[k][2] \in Int BY <3>1
    <3>3. o.x \in Int /\ o.y \in Int BY DEF Layouts, Placements
    <3>4. \A a, b \in Int : (a - b) * (a - b) \in Nat
      <4>1. ASSUME NEW c \in Int PROVE c * c \in Nat
        <5>1. CASE c >= 0 BY <5>1
        <5>2. CASE -c >= 0
          <6>1. (-c) * (-c) \in Nat BY <5>2
          <6>2. (-c) * (-c) = c * c OBVIOUS
          <6> QED BY <6>1, <6>2
        <5> QED BY <5>1, <5>2
      <4> QED BY <4>1
    <3>5. SquareDistance(o, edges[k]) \in Nat BY <3>2, <3>3, <3>4 DEF SquareDistance
    <3> QED BY <3>5
  <2>4. \E k \in clear : best = edges[k]
    <3> HIDE DEF clear, edges, distance
    <3> QED BY <2>2, <2>3, NearestIsThere
  <2> QED BY <2>1, <2>4
<1> QED BY <1>1, <1>2

\* The same displays, perhaps elsewhere.
AsBefore(o, p) ==
  /\ Width(o) = Width(p) /\ Height(o) = Height(p) /\ Reflowable(o) = Reflowable(p)
  /\ o.on = p.on /\ o.mirror = p.mirror

\* A placement moves its display and changes nothing else.
LEMMA PlacementKeeps ==
  ASSUME NEW ds \in Layouts, NEW d \in Displays, NEW order \in Orders
  PROVE  /\ PlaceOutside(ds, d, order) \in Layouts
         /\ AsBefore(PlaceOutside(ds, d, order)[d], ds[d])
         /\ \A e \in Displays \ {d} : PlaceOutside(ds, d, order)[e] = ds[e]
<1>1. CASE PlaceOutside(ds, d, order) = ds BY <1>1 DEF AsBefore
<1>2. ASSUME NEW k \in ClearEdges(ds, d, order),
             PlaceOutside(ds, d, order) =
               [ds EXCEPT ![d] = MoveTo(ds[d], Edges(ds, d, order)[k][1], Edges(ds, d, order)[k][2])]
      PROVE  /\ PlaceOutside(ds, d, order) \in Layouts
             /\ AsBefore(PlaceOutside(ds, d, order)[d], ds[d])
             /\ \A e \in Displays \ {d} : PlaceOutside(ds, d, order)[e] = ds[e]
  <2> DEFINE x == Edges(ds, d, order)[k][1]
             y == Edges(ds, d, order)[k][2]
             o == MoveTo(ds[d], x, y)
  <2>1. Edges(ds, d, order)[k] \in Int \X Int BY EdgesAreTyped DEF ClearEdges
  <2>2. x \in Int /\ y \in Int BY <2>1
  <2>3. ds[d] \in Placements BY DEF Layouts
  <2>4. o \in Placements /\ AsBefore(o, ds[d])
    <3> DEFINE p == ds[d]
    <3>1. o = MoveTo(p, x, y) OBVIOUS
    <3> HIDE DEF x, y, p, o
    <3>2. p \in Placements BY <2>3 DEF p
    <3>3. /\ o \in Placements
          /\ Width(o) = Width(p) /\ Height(o) = Height(p) /\ Reflowable(o) = Reflowable(p)
          /\ o.mirror = p.mirror /\ o.on = p.on
      BY <2>2, <3>1, <3>2, Moved
    <3>4. AsBefore(o, p) BY <3>3 DEF AsBefore
    <3> QED BY <3>3, <3>4 DEF p
  <2>5. PlaceOutside(ds, d, order) = [ds EXCEPT ![d] = o] BY <1>2
  <2> HIDE DEF o
  <2>6. ds \in [Displays -> Placements] /\ Layouts = [Displays -> Placements] BY DEF Layouts
  <2>7. PlaceOutside(ds, d, order) \in Layouts BY <2>4, <2>5, <2>6
  <2>8. PlaceOutside(ds, d, order)[d] = o BY <2>5, <2>6
  <2>9. \A e \in Displays \ {d} : PlaceOutside(ds, d, order)[e] = ds[e] BY <2>5, <2>6
  <2> QED BY <2>4, <2>7, <2>8, <2>9
<1> QED BY <1>1, <1>2, PlacementMoves

Collide(ds, d, e) == Reflowable(ds[d]) /\ Reflowable(ds[e]) /\ Overlap(Box(ds[d]), Box(ds[e]))

\* A display is free when it collides with no other.
LEMMA FreeMeans ==
  ASSUME NEW ds \in Layouts, NEW d \in Displays
  PROVE  Free(ds, d) <=> \A e \in Displays \ {d} : ~Collide(ds, d, e)
<1>1. ds[d] \in Placements BY DEF Layouts
<1>2. MoveTo(ds[d], ds[d].x, ds[d].y) = ds[d] BY <1>1 DEF MoveTo, Placements
<1>3. Covered(ds, d, <<ds[d].x, ds[d].y>>) <=>
        \E e \in Displays \ {d} : Reflowable(ds[e]) /\ Overlap(Box(ds[d]), Box(ds[e]))
  BY <1>2 DEF Covered
<1> QED BY <1>3 DEF Free, Collide

\* A layout is clear when each of its displays is free.
LEMMA ClearMeans ==
  ASSUME NEW ds \in Layouts
  PROVE  Clear(ds) <=> \A d \in Displays : Free(ds, d)
BY FreeMeans DEF Clear, Collide

\* A display that nothing lies on stays.
LEMMA FreeStays ==
  ASSUME NEW ds \in Layouts, NEW d \in Displays, NEW order \in Orders, Free(ds, d)
  PROVE  PlaceOutside(ds, d, order) = ds
BY DEF Free, PlaceOutside

\* Beyond all right edges there is nothing to lie on.
LEMMA ThereIsAClearEdge ==
  ASSUME NEW ds \in Layouts, NEW d \in Displays, NEW order \in Orders, Covers(order),
         ~Free(ds, d)
  PROVE  ClearEdges(ds, d, order) # {}
<1> DEFINE others == {e \in Displays \ {d} : Reflowable(ds[e])}
           rights == {f \in Int : \E e \in others : f = Box(ds[e]).right}
           r == [e \in others |-> Box(ds[e]).right]
<1>1. others # {} BY DEF Free, Covered
<1>2. \A e \in Displays : ds[e] \in Placements BY DEF Layouts
<1>3. \A e \in others : Box(ds[e]).right \in Int BY <1>2, Boxes
<1>4. IsFiniteSet(others)
  <2>1. IsFiniteSet(Displays) BY FS_Interval, EditorAssumption DEF Displays
  <2> QED BY <2>1, FS_Subset
<1>5. PICK e \in others : \A f \in others : r[e] >= r[f]
  <2> DEFINE R == {r[f] : f \in others}
  <2>1. r \in Surjection(others, R) BY DEF Surjection
  <2>2. IsFiniteSet(R)
    <3> HIDE DEF r, R, others
    <3> QED BY <1>4, <2>1, FS_Surjection
  <2>3. R \in SUBSET Int /\ R # {} BY <1>1, <1>3
  <2>4. \E x \in R : \A y \in R : x >= y
    <3> HIDE DEF R
    <3> QED BY <2>2, <2>3, HasMax
  <2> HIDE DEF r, others
  <2> QED BY <2>4
<1>6. \A f \in others : Box(ds[e]).right >= Box(ds[f]).right BY <1>5
<1>7. PICK n \in 1..Len(order) : order[n] = e BY DEF Covers
<1> DEFINE k == 4 * n - 2
           x == Box(ds[e]).right
           o == ds[d]
<1>8. /\ k \in Candidates(order) /\ Beside(order, k) = e
      /\ Edges(ds, d, order)[k] = <<x, o.y>>
  BY <1>7, HasRightEdge
<1>9. ~Covered(ds, d, <<x, o.y>>)
  <2>1. ASSUME NEW f \in others, Overlap(Box(MoveTo(o, x, o.y)), Box(ds[f])) PROVE FALSE
    <3>1. x \in Int /\ o.y \in Int /\ o \in Placements BY <1>2, <1>3 DEF Placements
    <3>2. Box(MoveTo(o, x, o.y)).left = x
      <4> HIDE DEF x, o
      <4> QED BY <3>1, Moved, Boxes
    <3>3. x < Box(ds[f]).right BY <2>1, <3>2 DEF Overlap, SameColumn, SpansOverlap
    <3>4. x \in Int /\ Box(ds[f]).right \in Int /\ x >= Box(ds[f]).right BY <1>3, <1>6
    <3> QED BY <3>3, <3>4
  <2> QED BY <2>1 DEF Covered
<1> QED BY <1>8, <1>9 DEF ClearEdges

\* What was placed lies on nothing.
LEMMA PlacementClears ==
  ASSUME NEW ds \in Layouts, NEW d \in Displays, NEW order \in Orders, Covers(order)
  PROVE  Free(PlaceOutside(ds, d, order), d)
<1> DEFINE r == PlaceOutside(ds, d, order)
<1>1. CASE Free(ds, d) BY <1>1, FreeStays
<1>2. CASE ~Free(ds, d)
  <2>1. PICK k \in ClearEdges(ds, d, order) :
          r = [ds EXCEPT ![d] = MoveTo(ds[d], Edges(ds, d, order)[k][1], Edges(ds, d, order)[k][2])]
    <3>1. ClearEdges(ds, d, order) # {} BY <1>2, ThereIsAClearEdge
    <3> QED BY <1>2, <3>1, PlacementMoves
  <2> DEFINE x == Edges(ds, d, order)[k][1]
             y == Edges(ds, d, order)[k][2]
             o == MoveTo(ds[d], x, y)
  <2>2. Edges(ds, d, order)[k] \in Int \X Int /\ ~Covered(ds, d, Edges(ds, d, order)[k])
    BY EdgesAreTyped DEF ClearEdges
  <2>3. x \in Int /\ y \in Int /\ ~Covered(ds, d, <<x, y>>) BY <2>2 DEF Covered
  <2>4. ds[d] \in Placements BY DEF Layouts
  <2>5. o \in Placements BY <2>3, <2>4, Moved
  <2>6. r \in Layouts /\ r[d] = o /\ \A e \in Displays \ {d} : r[e] = ds[e]
    <3> HIDE DEF o
    <3> QED BY <2>1, <2>5 DEF Layouts, o
  <2>7. \A e \in Displays \ {d} : ~(Reflowable(ds[e]) /\ Overlap(Box(o), Box(ds[e])))
    BY <2>3 DEF Covered
  <2>8. \A e \in Displays \ {d} : ~Collide(r, d, e)
    <3> HIDE DEF r, o
    <3> QED BY <2>6, <2>7 DEF Collide
  <2>9. Free(r, d)
    <3> HIDE DEF r
    <3> QED BY <2>6, <2>8, FreeMeans
  <2> QED BY <2>9
<1> QED BY <1>1, <1>2

-----------------------------------------------------------------------------
\* Placing one after the other.

\* The displays that have been placed after n of an order.
Placed(d, order, n) == {d} \cup {order[i] : i \in 1..n}

Placing(f, ds, d, order, m) ==
  f = [n \in 0..m |->
         IF n = 0 THEN PlaceOutside(ds, d, order)
         ELSE IF order[n] = d THEN f[n - 1]
         ELSE PlaceOutside(f[n - 1], order[n], order)]

\* The placements of an order exist, one after the other.
LEMMA PlacesOnAndOn ==
  ASSUME NEW ds, NEW d, NEW order \in Orders
  PROVE  \E f : Placing(f, ds, d, order, Len(order))
<1> DEFINE N == Len(order)
           T == {m \in 0..N : \E f : Placing(f, ds, d, order, m)}
<1>1. N \in Nat BY LenProperties DEF Orders
<1>2. 0 \in T
  <2> DEFINE f == [n \in 0..0 |-> PlaceOutside(ds, d, order)]
  <2>1. Placing(f, ds, d, order, 0) BY DEF Placing
  <2> QED BY <1>1, <2>1
<1>3. ASSUME NEW m \in 1..N, m - 1 \in T PROVE m \in T
  <2>1. PICK f : Placing(f, ds, d, order, m - 1) BY <1>3
  <2> DEFINE last == IF order[m] = d THEN f[m - 1] ELSE PlaceOutside(f[m - 1], order[m], order)
             g == [n \in 0..m |-> IF n = m THEN last ELSE f[n]]
  <2>2. \A n \in 0..(m - 1) : g[n] = f[n] BY <1>1
  <2>3. g[m] = last BY <1>1
  <2>4. ASSUME NEW n \in 0..m
        PROVE  g[n] = IF n = 0 THEN PlaceOutside(ds, d, order)
                      ELSE IF order[n] = d THEN g[n - 1]
                      ELSE PlaceOutside(g[n - 1], order[n], order)
    <3> HIDE DEF g
    <3>1. CASE n = m
      <4>1. m # 0 /\ m - 1 \in 0..(m - 1) BY <1>1
      <4> QED BY <2>2, <2>3, <3>1, <4>1
    <3>2. CASE n # m
      <4>1. n \in 0..(m - 1) /\ g[n] = f[n] BY <1>1, <2>2, <3>2
      <4>2. n # 0 => g[n - 1] = f[n - 1] BY <1>1, <2>2, <3>2
      <4>3. f[n] = IF n = 0 THEN PlaceOutside(ds, d, order)
                   ELSE IF order[n] = d THEN f[n - 1]
                   ELSE PlaceOutside(f[n - 1], order[n], order)
        BY <2>1, <4>1 DEF Placing
      <4> QED BY <4>1, <4>2, <4>3
    <3> QED BY <3>1, <3>2
  <2>5. g = [n \in 0..m |-> g[n]] OBVIOUS
  <2>6. Placing(g, ds, d, order, m)
    <3> HIDE DEF g
    <3> QED BY <2>4, <2>5 DEF Placing
  <2> QED BY <2>6
<1>4. \A m \in 0..N : m \in T
  <2> HIDE DEF N, T
  <2> QED BY <1>1, <1>2, <1>3, CountsUp
<1>5. N \in T BY <1>1, <1>4
<1> QED BY <1>5

\* Overlaps are resolved by one placement after another.
LEMMA ResolvedByPlacing ==
  ASSUME NEW ds, NEW d, NEW order \in Orders
  PROVE  \E f : /\ Placing(f, ds, d, order, Len(order))
                /\ ResolveOverlaps(ds, d, order) = f[Len(order)]
<1> DEFINE f == CHOOSE f : Placing(f, ds, d, order, Len(order))
<1>1. Placing(f, ds, d, order, Len(order)) BY PlacesOnAndOn
<1>2. ResolveOverlaps(ds, d, order) = f[Len(order)] BY DEF ResolveOverlaps, Placing
<1> QED BY <1>1, <1>2

\* The first placement, and each one after it.
LEMMA PlacingSteps ==
  ASSUME NEW f, NEW ds, NEW d, NEW order \in Orders, NEW N \in Nat, Placing(f, ds, d, order, N)
  PROVE  /\ f[0] = PlaceOutside(ds, d, order)
         /\ \A n \in 1..N :
              f[n] = IF order[n] = d THEN f[n - 1] ELSE PlaceOutside(f[n - 1], order[n], order)
<1> DEFINE body(n) == IF n = 0 THEN PlaceOutside(ds, d, order)
                      ELSE IF order[n] = d THEN f[n - 1]
                      ELSE PlaceOutside(f[n - 1], order[n], order)
<1>1. f = [n \in 0..N |-> body(n)] BY DEF Placing
<1>2. \A n \in 0..N : f[n] = body(n)
  <2> HIDE DEF body
  <2> QED BY <1>1
<1>3. f[0] = body(0) BY <1>2
<1>4. ASSUME NEW n \in 1..N PROVE n # 0 /\ f[n] = body(n) BY <1>2
<1> QED BY <1>3, <1>4

\* One placement after others leaves what was placed before it in the clear.
LEMMA PlacedStayFree ==
  ASSUME NEW ds \in Layouts, NEW d \in Displays, NEW order \in Orders, Covers(order),
         NEW e \in Displays, Free(ds, e)
  PROVE  Free(PlaceOutside(ds, d, order), e)
<1> DEFINE r == PlaceOutside(ds, d, order)
<1>1. r \in Layouts /\ AsBefore(r[d], ds[d]) /\ \A c \in Displays \ {d} : r[c] = ds[c]
  BY PlacementKeeps
<1>2. Free(r, d) BY PlacementClears
<1>3. CASE e = d BY <1>2, <1>3
<1>4. CASE e # d
  <2>1. \A c \in Displays \ {d} : ~Collide(r, d, c) /\ (c # e => ~Collide(ds, e, c))
    <3> HIDE DEF r
    <3> QED BY <1>1, <1>2, FreeMeans
  <2>2. \A c \in Displays \ {e} : ~Collide(r, e, c)
    <3> HIDE DEF r
    <3>1. ~Collide(r, e, d) BY <1>4, <2>1, OverlapIsMutual DEF Collide
    <3>2. \A c \in Displays \ {d, e} : ~Collide(r, e, c) BY <1>1, <1>4, <2>1 DEF Collide
    <3> QED BY <3>1, <3>2
  <2>3. Free(r, e)
    <3> HIDE DEF r
    <3> QED BY <1>1, <2>2, FreeMeans
  <2> QED BY <2>3
<1> QED BY <1>3, <1>4

\* Whatever is laid out, after the collisions are resolved no display lies on another,
\* and each is what it was.
LEMMA ResolvedIsClear ==
  ASSUME NEW ds \in Layouts, NEW d \in Displays, NEW order \in Orders, Covers(order)
  PROVE  Clear(ResolveOverlaps(ds, d, order))
<1> DEFINE N == Len(order)
<1>1. PICK f : Placing(f, ds, d, order, N) /\ ResolveOverlaps(ds, d, order) = f[N]
  BY ResolvedByPlacing
<1>2. N \in Nat /\ \A n \in 1..N : order[n] \in Displays
  BY LenProperties, ElementOfSeq DEF Orders
<1>0. /\ f[0] = PlaceOutside(ds, d, order)
      /\ \A n \in 1..N :
           f[n] = IF order[n] = d THEN f[n - 1] ELSE PlaceOutside(f[n - 1], order[n], order)
  <2> HIDE DEF N
  <2> QED BY <1>1, <1>2, PlacingSteps
<1> DEFINE T == {n \in 0..N : f[n] \in Layouts /\ \A e \in Placed(d, order, n) : Free(f[n], e)}
<1>3. 0 \in T
  <2>1. f[0] = PlaceOutside(ds, d, order) BY <1>0, <1>2
  <2>2. Placed(d, order, 0) = {d} BY DEF Placed
  <2> QED BY <1>2, <2>1, <2>2, PlacementKeeps, PlacementClears
<1>4. ASSUME NEW n \in 1..N, n - 1 \in T PROVE n \in T
  <2> DEFINE e == order[n]
  <2>1. e \in Displays /\ n \in 0..N BY <1>2
  <2>2. f[n] = IF e = d THEN f[n - 1] ELSE PlaceOutside(f[n - 1], e, order) BY <1>0, <1>2
  <2>3. Placed(d, order, n) = Placed(d, order, n - 1) \cup {e} BY <1>2 DEF Placed
  <2>4. d \in Placed(d, order, n - 1) /\ Placed(d, order, n - 1) \subseteq Displays
    BY <1>2 DEF Placed
  <2>5. f[n - 1] \in Layouts /\ \A c \in Placed(d, order, n - 1) : Free(f[n - 1], c) BY <1>4
  <2>6. CASE e = d BY <2>1, <2>2, <2>3, <2>4, <2>5, <2>6
  <2>7. CASE e # d
    <3>1. f[n] = PlaceOutside(f[n - 1], e, order) BY <2>2, <2>7
    <3>2. f[n] \in Layouts /\ Free(f[n], e) BY <2>1, <2>5, <3>1, PlacementKeeps, PlacementClears
    <3>3. \A c \in Placed(d, order, n - 1) : Free(f[n], c) BY <2>1, <2>4, <2>5, <3>1, PlacedStayFree
    <3> QED BY <2>1, <2>3, <3>2, <3>3
  <2> QED BY <2>6, <2>7
<1>5. N \in T
  <2>1. \A n \in 0..N : n \in T
    <3> HIDE DEF N, T
    <3> QED BY <1>2, <1>3, <1>4, CountsUp
  <2> QED BY <1>2, <2>1
<1>6. \A e \in Displays : e \in Placed(d, order, N) BY DEF Placed, Covers
<1> QED BY <1>1, <1>5, <1>6, ClearMeans

\* Resolving overlaps moves displays and changes nothing else.
LEMMA ResolvedKeeps ==
  ASSUME NEW ds \in Layouts, NEW d \in Displays, NEW order \in Orders
  PROVE  /\ ResolveOverlaps(ds, d, order) \in Layouts
         /\ \A e \in Displays : AsBefore(ResolveOverlaps(ds, d, order)[e], ds[e])
<1> DEFINE N == Len(order)
<1>1. PICK f : Placing(f, ds, d, order, N) /\ ResolveOverlaps(ds, d, order) = f[N]
  BY ResolvedByPlacing
<1>2. N \in Nat /\ \A n \in 1..N : order[n] \in Displays
  BY LenProperties, ElementOfSeq DEF Orders
<1>0. /\ f[0] = PlaceOutside(ds, d, order)
      /\ \A n \in 1..N :
           f[n] = IF order[n] = d THEN f[n - 1] ELSE PlaceOutside(f[n - 1], order[n], order)
  <2> HIDE DEF N
  <2> QED BY <1>1, <1>2, PlacingSteps
<1> DEFINE T == {n \in 0..N : f[n] \in Layouts /\ \A e \in Displays : AsBefore(f[n][e], ds[e])}
<1>3. 0 \in T
  <2>1. f[0] = PlaceOutside(ds, d, order) BY <1>0, <1>2
  <2>2. \A e \in Displays : AsBefore(f[0][e], ds[e])
    <3>1. \A e \in Displays : AsBefore(ds[e], ds[e]) BY DEF AsBefore
    <3> QED BY <2>1, <3>1, PlacementKeeps
  <2> QED BY <1>2, <2>1, <2>2, PlacementKeeps
<1>4. ASSUME NEW n \in 1..N, n - 1 \in T PROVE n \in T
  <2> DEFINE c == order[n]
  <2>1. c \in Displays /\ n \in 0..N BY <1>2
  <2>2. f[n] = IF c = d THEN f[n - 1] ELSE PlaceOutside(f[n - 1], c, order) BY <1>0, <1>2
  <2>3. f[n - 1] \in Layouts /\ \A e \in Displays : AsBefore(f[n - 1][e], ds[e]) BY <1>4
  <2>4. CASE c = d BY <2>1, <2>2, <2>3, <2>4
  <2>5. CASE c # d
    <3>1. f[n] = PlaceOutside(f[n - 1], c, order) BY <2>2, <2>5
    <3>2. /\ f[n] \in Layouts /\ AsBefore(f[n][c], f[n - 1][c])
          /\ \A e \in Displays \ {c} : f[n][e] = f[n - 1][e]
      BY <2>1, <2>3, <3>1, PlacementKeeps
    <3>3. \A e \in Displays : AsBefore(f[n][e], ds[e]) BY <2>1, <2>3, <3>2 DEF AsBefore
    <3> QED BY <2>1, <3>2, <3>3
  <2> QED BY <2>4, <2>5
<1>5. N \in T
  <2>1. \A n \in 0..N : n \in T
    <3> HIDE DEF N, T
    <3> QED BY <1>2, <1>3, <1>4, CountsUp
  <2> QED BY <1>2, <2>1
<1> QED BY <1>1, <1>5

\* When the others are in order among themselves, only the edited display moves.
OthersClear(ds, d) ==
  \A e, c \in Displays \ {d} : e # c => ~Collide(ds, e, c)

\* The others are then not in each other's way afterwards either: their turns do nothing.
LEMMA ResolvedMovesOne ==
  ASSUME NEW ds \in Layouts, NEW d \in Displays, NEW order \in Orders, Covers(order),
         OthersClear(ds, d)
  PROVE  ResolveOverlaps(ds, d, order) = PlaceOutside(ds, d, order)
<1> DEFINE N == Len(order)
           r == PlaceOutside(ds, d, order)
<1>1. PICK f : Placing(f, ds, d, order, N) /\ ResolveOverlaps(ds, d, order) = f[N]
  BY ResolvedByPlacing
<1>2. N \in Nat /\ \A n \in 1..N : order[n] \in Displays
  BY LenProperties, ElementOfSeq DEF Orders
<1>3. r \in Layouts /\ (\A e \in Displays \ {d} : r[e] = ds[e]) /\ Free(r, d)
  BY PlacementKeeps, PlacementClears
<1>4. \A e \in Displays : Free(r, e)
  <2> HIDE DEF r
  <2>1. \A e \in Displays \ {d} : ~Collide(r, d, e) BY <1>3, FreeMeans
  <2>2. \A e \in Displays \ {d} : ~Collide(r, e, d) BY <2>1, OverlapIsMutual DEF Collide
  <2>3. \A e, c \in Displays \ {d} : e # c => ~Collide(r, e, c) BY <1>3 DEF OthersClear, Collide
  <2> QED BY <1>3, <2>2, <2>3, FreeMeans
<1>0. /\ f[0] = PlaceOutside(ds, d, order)
      /\ \A n \in 1..N :
           f[n] = IF order[n] = d THEN f[n - 1] ELSE PlaceOutside(f[n - 1], order[n], order)
  <2> HIDE DEF N
  <2> QED BY <1>1, <1>2, PlacingSteps
<1> DEFINE T == {n \in 0..N : f[n] = r}
<1>5. 0 \in T BY <1>0, <1>2
<1>6. ASSUME NEW n \in 1..N, n - 1 \in T PROVE n \in T
  <2>1. f[n] = IF order[n] = d THEN f[n - 1] ELSE PlaceOutside(f[n - 1], order[n], order)
    BY <1>0, <1>2
  <2>2. PlaceOutside(r, order[n], order) = r
    <3> HIDE DEF r
    <3> QED BY <1>2, <1>3, <1>4, FreeStays
  <2>3. f[n] = r BY <1>6, <2>1, <2>2
  <2> QED BY <1>2, <2>3
<1>7. N \in T
  <2>1. \A n \in 0..N : n \in T
    <3> HIDE DEF N, T
    <3> QED BY <1>2, <1>5, <1>6, CountsUp
  <2> QED BY <1>2, <2>1
<1> QED BY <1>1, <1>7

-----------------------------------------------------------------------------
\* The orders of a draft.

\* Every display has a turn in the order of the draft,
LEMMA DraftOrderCovers == DraftOrder \in Orders /\ Covers(DraftOrder)
<1>1. Count \in Nat /\ DraftOrder \in [1..Count -> Displays]
  BY EditorAssumption DEF DraftOrder, Displays
<1>2. DraftOrder \in Seq(Displays) /\ Len(DraftOrder) = Count BY <1>1, FunctionIsSeq
<1> QED BY <1>2 DEF DraftOrder, Displays, Orders, Covers

\* and in that of some of its displays,
LEMMA InOrderIsOf ==
  ASSUME NEW K \in SUBSET Displays
  PROVE  /\ InOrder(K) \in Seq(Displays)
         /\ \A d \in K : \E n \in 1..Len(InOrder(K)) : InOrder(K)[n] = d
<1> DEFINE N == Cardinality(K)
<1>1. IsFiniteSet(Displays) /\ Displays \subseteq Nat
  BY FS_Interval, EditorAssumption DEF Displays
<1>2. IsFiniteSet(K) /\ K \in SUBSET Nat BY <1>1, FS_Subset
<1>3. /\ N \in Nat
      /\ \A d \in K : UpTo(K, d) \in 1..N /\ Nth(K, UpTo(K, d)) = d
      /\ \A n \in 1..N : Nth(K, n) \in K
  BY <1>2, PlacesAreNumbered
<1>4. InOrder(K) = [n \in 1..N |-> Nth(K, n)] BY DEF InOrder, Nth
<1>5. InOrder(K) \in [1..N -> Displays] BY <1>3, <1>4
<1>6. InOrder(K) \in Seq(Displays) /\ Len(InOrder(K)) = N BY <1>3, <1>5, FunctionIsSeq
<1>7. \A n \in 1..N : InOrder(K)[n] = Nth(K, n) BY <1>4
<1> QED BY <1>3, <1>6, <1>7

\* and in the order Normalize sorts a draft into.
LEMMA SortedOrderCovers ==
  ASSUME NEW ds
  PROVE  SortedOrder(ds) \in Orders /\ Covers(SortedOrder(ds))
<1> DEFINE Active == {d \in Displays : ds[d].on}
           Disabled == {d \in Displays : ~ds[d].on}
           s == InOrder(Active)
           t == InOrder(Disabled)
<1>1. s \in Seq(Displays) /\ \A d \in Active : \E n \in 1..Len(s) : s[n] = d
  <2> HIDE DEF Active
  <2> QED BY InOrderIsOf DEF Active
<1>2. t \in Seq(Displays) /\ \A d \in Disabled : \E n \in 1..Len(t) : t[n] = d
  <2> HIDE DEF Disabled
  <2> QED BY InOrderIsOf DEF Disabled
<1>3. SortedOrder(ds) = s \o t BY DEF SortedOrder
<1>4. \A d \in Displays : d \in Active \/ d \in Disabled OBVIOUS
<1> HIDE DEF s, t, Active, Disabled
<1>5. /\ s \o t \in Seq(Displays) /\ Len(s \o t) = Len(s) + Len(t)
      /\ \A n \in 1..(Len(s) + Len(t)) : (s \o t)[n] = IF n <= Len(s) THEN s[n] ELSE t[n - Len(s)]
  BY <1>1, <1>2, ConcatProperties
<1>6. Len(s) \in Nat /\ Len(t) \in Nat BY <1>1, <1>2, LenProperties
<1>7. ASSUME NEW d \in Displays PROVE \E n \in 1..Len(s \o t) : (s \o t)[n] = d
  <2>1. CASE d \in Active
    <3>1. PICK n \in 1..Len(s) : s[n] = d BY <1>1, <2>1
    <3>2. n \in 1..(Len(s) + Len(t)) /\ n <= Len(s) BY <1>6
    <3> QED BY <1>5, <3>1, <3>2
  <2>2. CASE d \in Disabled
    <3>1. PICK n \in 1..Len(t) : t[n] = d BY <1>2, <2>2
    <3>2. /\ n + Len(s) \in 1..(Len(s) + Len(t)) /\ ~(n + Len(s) <= Len(s))
          /\ n + Len(s) - Len(s) = n
      BY <1>6
    <3>3. (s \o t)[n + Len(s)] = t[n] BY <1>5, <3>2
    <3> QED BY <1>5, <3>1, <3>2, <3>3
  <2> QED BY <1>4, <2>1, <2>2
<1> QED BY <1>3, <1>5, <1>7 DEF Orders, Covers

-----------------------------------------------------------------------------
\* What the edits are made of keeps every display what it is.

\* A distance that is squared is not negative.
LEMMA IntIsSquared ==
  ASSUME NEW c \in Int
  PROVE  c * c \in Nat
<1>1. CASE c >= 0 BY <1>1
<1>2. CASE -c >= 0
  <2>1. (-c) * (-c) \in Nat BY <1>2
  <2>2. (-c) * (-c) = c * c OBVIOUS
  <2> QED BY <2>1, <2>2
<1> QED BY <1>1, <1>2

\* A display snaps to a coordinate, one of a neighbour's edges or its own.
LEMMA SnapIsTyped ==
  ASSUME NEW ds \in Layouts, NEW d \in Displays, NEW order \in Orders, NEW distance,
         NEW axis
  PROVE  Snapped(ds, d, distance, order, axis) \in Int
<1> DEFINE at == Start(ds, d, axis)
           places == SnapPlaces(ds, d, order, axis)
           Dist(p) == IF p < at THEN at - p ELSE p - at
           far == [k \in DOMAIN places |-> Dist(places[k])]
           K == Snaps(ds, d, order, axis)
           best == Nearest(K, places, far)
<1>1. \A e \in Displays : ds[e] \in Placements BY DEF Layouts
<1>2. \A e \in Displays : Start(ds, e, axis) \in Int /\ Extent(ds, e, axis) \in Int
  BY <1>1, Extents DEF Start, Extent, Placements
<1>3. DOMAIN places = Candidates(order) \cup {Zero(order)} BY DEF SnapPlaces
<1>4. ASSUME NEW k \in DOMAIN places PROVE places[k] \in Int
  <2>1. CASE k = Zero(order) BY <1>3, <2>1 DEF SnapPlaces
  <2>2. CASE k # Zero(order)
    <3> DEFINE e == Beside(order, k)
    <3>1. k \in Candidates(order) /\ e \in Displays BY <1>3, <2>2, CandidatesAreBeside
    <3> DEFINE start == Start(ds, e, axis)
               end == start + Extent(ds, e, axis)
               value == CASE Side(k) = 0 -> start - Extent(ds, d, axis)
                          [] Side(k) = 1 -> end
                          [] Side(k) = 2 -> start
                          [] OTHER -> end - Extent(ds, d, axis)
    <3>2. places[k] = IF k = Zero(order) THEN 0 ELSE value BY <1>3 DEF SnapPlaces
    <3>3. start \in Int /\ end \in Int /\ Extent(ds, d, axis) \in Int BY <1>2, <3>1
    <3>4. value \in Int
      <4> HIDE DEF start, end
      <4> QED BY <3>3
    <3> HIDE DEF value, places
    <3> QED BY <2>2, <3>2, <3>4
  <2> QED BY <2>1, <2>2
<1>5. K \subseteq DOMAIN places /\ K # {} BY <1>3 DEF Snaps
<1>6. K \in SUBSET Nat
  <2>1. Len(order) \in Nat BY LenProperties DEF Orders
  <2> QED BY <1>3, <1>5, <2>1, CandidatesAreBeside DEF Zero
<1>7. at \in Int BY <1>2
<1>8. ASSUME NEW k \in K PROVE far[k] \in Nat
  <2>1. far[k] = Dist(places[k]) /\ places[k] \in Int BY <1>4, <1>5
  <2> HIDE DEF at, places, far
  <2> QED BY <1>7, <2>1
<1>9. best \in Int
  <2>1. \E k \in K : best = places[k]
    <3> HIDE DEF K, places, far
    <3> QED BY <1>5, <1>6, <1>8, NearestIsThere
  <2> QED BY <1>4, <1>5, <2>1
<1>10. Snapped(ds, d, distance, order, axis) = IF Dist(best) <= distance THEN best ELSE at
  BY DEF Snapped
<1> HIDE DEF best, at
<1> QED BY <1>7, <1>9, <1>10

\* Layouts of the same displays.
AllAsBefore(ds, es) == \A e \in Displays : AsBefore(ds[e], es[e])

\* A display that is put somewhere is what it was,
LEMMA PutKeeps ==
  ASSUME NEW ds \in Layouts, NEW d \in Displays, NEW x \in Int, NEW y \in Int
  PROVE  /\ [ds EXCEPT ![d] = MoveTo(ds[d], x, y)] \in Layouts
         /\ AllAsBefore([ds EXCEPT ![d] = MoveTo(ds[d], x, y)], ds)
<1> DEFINE o == MoveTo(ds[d], x, y)
<1>1. ds[d] \in Placements BY DEF Layouts
<1>2. o \in Placements /\ AsBefore(o, ds[d]) BY <1>1, Moved DEF AsBefore
<1>3. \A e \in Displays : AsBefore(ds[e], ds[e]) BY DEF AsBefore
<1> HIDE DEF o
<1>4. [ds EXCEPT ![d] = o] \in Layouts /\ AllAsBefore([ds EXCEPT ![d] = o], ds)
  BY <1>2, <1>3 DEF Layouts, AllAsBefore
<1> QED BY <1>4 DEF o

\* so is one that snaps,
LEMMA SnappedKeeps ==
  ASSUME NEW ds \in Layouts, NEW d \in Displays, NEW order \in Orders, NEW distance
  PROVE  /\ ApplySnap(ds, d, distance, order) \in Layouts
         /\ AllAsBefore(ApplySnap(ds, d, distance, order), ds)
         /\ \A e \in Displays \ {d} : ApplySnap(ds, d, distance, order)[e] = ds[e]
<1> DEFINE x == Snapped(ds, d, distance, order, "x")
           y == Snapped(ds, d, distance, order, "y")
<1>1. x \in Int /\ y \in Int BY SnapIsTyped
<1>2. CASE ~ds[d].on BY <1>2 DEF ApplySnap, AllAsBefore, AsBefore
<1>3. CASE ds[d].on
  <2>1. ApplySnap(ds, d, distance, order) = [ds EXCEPT ![d] = MoveTo(ds[d], x, y)]
    BY <1>3 DEF ApplySnap
  <2> HIDE DEF x, y
  <2> DEFINE put == [ds EXCEPT ![d] = MoveTo(ds[d], x, y)]
  <2>2. \A e \in Displays \ {d} : put[e] = ds[e] BY DEF Layouts
  <2>3. put \in Layouts /\ AllAsBefore(put, ds) BY <1>1, PutKeeps
  <2>4. ApplySnap(ds, d, distance, order) = put BY <2>1
  <2> HIDE DEF put
  <2> QED BY <2>2, <2>3, <2>4
<1> QED BY <1>2, <1>3

\* and one that is dropped.
LEMMA DroppedKeeps ==
  ASSUME NEW ds \in Layouts, NEW d \in Displays, NEW order \in Orders, NEW distance
  PROVE  /\ ResolveDrop(ds, d, distance, order) \in Layouts
         /\ AllAsBefore(ResolveDrop(ds, d, distance, order), ds)
         /\ \A e \in Displays \ {d} : ResolveDrop(ds, d, distance, order)[e] = ds[e]
<1> DEFINE s == ApplySnap(ds, d, distance, order)
<1>1. s \in Layouts /\ AllAsBefore(s, ds) /\ \A e \in Displays \ {d} : s[e] = ds[e]
  BY SnappedKeeps
<1>2. ResolveDrop(ds, d, distance, order) = PlaceOutside(s, d, order) BY DEF ResolveDrop
<1> HIDE DEF s
<1>3. /\ PlaceOutside(s, d, order) \in Layouts /\ AsBefore(PlaceOutside(s, d, order)[d], s[d])
      /\ \A e \in Displays \ {d} : PlaceOutside(s, d, order)[e] = s[e]
  BY <1>1, PlacementKeeps
<1> QED BY <1>1, <1>2, <1>3 DEF AllAsBefore, AsBefore

\* A display that is on and put somewhere leaves the draft in order, and only it moves
\* when the others were in order.
LEMMA MoveClears ==
  ASSUME NEW ds \in Layouts, NEW d \in Displays, NEW order \in Orders, Covers(order),
         NEW x \in Int, NEW y \in Int, NEW distance
  PROVE  /\ MoveOutput(ds, d, x, y, distance, order) \in Layouts
         /\ AllAsBefore(MoveOutput(ds, d, x, y, distance, order), ds)
         /\ ds[d].on \/ OthersClear(ds, d) => Clear(MoveOutput(ds, d, x, y, distance, order))
         /\ OthersClear(ds, d) =>
              \A e \in Displays \ {d} : MoveOutput(ds, d, x, y, distance, order)[e] = ds[e]
<1> DEFINE put == [ds EXCEPT ![d] = MoveTo(ds[d], x, y)]
           dropped == IF distance > 0 THEN ResolveDrop(put, d, distance, order) ELSE put
           r == MoveOutput(ds, d, x, y, distance, order)
<1>1. /\ put \in Layouts /\ AllAsBefore(put, ds)
      /\ \A e \in Displays \ {d} : put[e] = ds[e]
  <2>1. \A e \in Displays \ {d} : put[e] = ds[e] BY DEF Layouts
  <2> QED BY <2>1, PutKeeps
<1>2. /\ dropped \in Layouts /\ AllAsBefore(dropped, ds)
      /\ \A e \in Displays \ {d} : dropped[e] = ds[e]
  <2> HIDE DEF put
  <2>1. CASE distance > 0
    <3>1. /\ ResolveDrop(put, d, distance, order) \in Layouts
          /\ AllAsBefore(ResolveDrop(put, d, distance, order), put)
          /\ \A e \in Displays \ {d} : ResolveDrop(put, d, distance, order)[e] = put[e]
      BY <1>1, DroppedKeeps
    <3>2. dropped = ResolveDrop(put, d, distance, order) BY <2>1
    <3> HIDE DEF dropped
    <3> QED BY <1>1, <3>1, <3>2 DEF AllAsBefore, AsBefore
  <2>2. CASE ~(distance > 0) BY <1>1, <2>2
  <2> QED BY <2>1, <2>2
<1>3. r = IF ds[d].on THEN ResolveOverlaps(dropped, d, order) ELSE put BY DEF MoveOutput
<1> HIDE DEF put, dropped, r
<1>4. CASE ds[d].on
  <2>1. r \in Layouts /\ AllAsBefore(r, dropped) /\ Clear(r)
    BY <1>2, <1>3, <1>4, ResolvedKeeps, ResolvedIsClear DEF AllAsBefore
  <2>2. AllAsBefore(r, ds) BY <1>2, <2>1 DEF AllAsBefore, AsBefore
  <2>3. ASSUME OthersClear(ds, d) PROVE \A e \in Displays \ {d} : r[e] = ds[e]
    <3>1. OthersClear(dropped, d) BY <1>2, <2>3 DEF OthersClear, Collide
    <3>2. r = PlaceOutside(dropped, d, order) BY <1>2, <1>3, <1>4, <3>1, ResolvedMovesOne
    <3> QED BY <1>2, <3>2, PlacementKeeps
  <2> QED BY <2>1, <2>2, <2>3 DEF r
<1>5. CASE ~ds[d].on
  <2>1. r = put /\ ~Reflowable(put[d])
    <3>1. AsBefore(put[d], ds[d]) BY <1>1 DEF AllAsBefore
    <3> QED BY <1>3, <1>5, <3>1 DEF AsBefore, Reflowable, Placeable
  <2>2. ASSUME OthersClear(ds, d) PROVE Clear(r)
    <3>1. \A e, c \in Displays \ {d} : e # c => ~Collide(put, e, c)
      BY <1>1, <2>2 DEF OthersClear, Collide
    <3> QED BY <2>1, <3>1 DEF Clear, Collide
  <2> QED BY <1>1, <1>5, <2>1, <2>2 DEF r
<1> QED BY <1>4, <1>5

-----------------------------------------------------------------------------
\* What is beside an edited display moves with its edges.

Old(o) == [width |-> Width(o), height |-> Height(o)]

\* Displays that move with an edge are what they were.
LEMMA ReflowKeeps ==
  ASSUME NEW ds \in Layouts, NEW d \in Displays, NEW was \in Placements
  PROVE  /\ Reflow(ds, d, Old(was)) \in Layouts
         /\ AllAsBefore(Reflow(ds, d, Old(was)), ds)
         /\ Width(ds[d]) = Width(was) /\ Height(ds[d]) = Height(was) => Reflow(ds, d, Old(was)) = ds
<1> DEFINE old == Old(was)
           moving == Moving(ds, d, old)
           r == [e \in Displays |-> IF e \in moving THEN Shifted(ds, d, old, e) ELSE ds[e]]
<1>1. old.width = Width(was) /\ old.height = Height(was) BY DEF Old
<1>2. \A e \in Displays : ds[e] \in Placements /\ AsBefore(ds[e], ds[e]) BY DEF Layouts, AsBefore
<1>3. CASE ~Reflowable(ds[d]) \/ (Width(ds[d]) = Width(was) /\ Height(ds[d]) = Height(was))
  <2>1. Reflow(ds, d, old) = ds BY <1>1, <1>3 DEF Reflow
  <2> QED BY <1>2, <2>1 DEF AllAsBefore
<1>4. CASE ~(~Reflowable(ds[d]) \/ (Width(ds[d]) = Width(was) /\ Height(ds[d]) = Height(was)))
  <2>1. Reflow(ds, d, old) = r BY <1>1, <1>4 DEF Reflow
  <2>2. ASSUME NEW e \in Displays
        PROVE  Shifted(ds, d, old, e) \in Placements /\ AsBefore(Shifted(ds, d, old, e), ds[e])
    <3> DEFINE x == IF PastRight(ds, d, old, e) THEN ds[e].x + Width(ds[d]) - old.width ELSE ds[e].x
               y == IF PastBottom(ds, d, old, e) THEN ds[e].y + Height(ds[d]) - old.height ELSE ds[e].y
    <3>1. /\ Width(ds[d]) \in Int /\ Height(ds[d]) \in Int /\ old.width \in Int /\ old.height \in Int
          /\ ds[e].x \in Int /\ ds[e].y \in Int
      BY <1>1, <1>2, Extents DEF Placements
    <3>2. x \in Int /\ y \in Int BY <3>1
    <3>3. Shifted(ds, d, old, e) = MoveTo(ds[e], x, y) BY DEF Shifted
    <3> HIDE DEF x, y
    <3> QED BY <1>2, <3>2, <3>3, Moved DEF AsBefore
  <2>3. \A e \in Displays : r[e] \in Placements /\ AsBefore(r[e], ds[e]) BY <1>2, <2>2
  <2>4. r \in Layouts
    <3>1. r = [e \in Displays |-> r[e]] OBVIOUS
    <3> HIDE DEF r
    <3> QED BY <2>3, <3>1 DEF Layouts
  <2> HIDE DEF r
  <2> QED BY <1>4, <2>1, <2>3, <2>4 DEF AllAsBefore
<1> QED BY <1>3, <1>4

\* An edit of one display leaves the draft in order, and when it resizes nothing only
\* that display moves.
LEMMA EditClears ==
  ASSUME NEW ds \in Layouts, NEW d \in Displays, NEW o \in Placements,
         NEW order \in Orders, Covers(order)
  PROVE  /\ Edited(ds, d, o, order) \in Layouts
         /\ AllAsBefore(Edited(ds, d, o, order), [ds EXCEPT ![d] = o])
         /\ Clear(Edited(ds, d, o, order))
         /\ OthersClear(ds, d) /\ Width(o) = Width(ds[d]) /\ Height(o) = Height(ds[d]) =>
              \A e \in Displays \ {d} : Edited(ds, d, o, order)[e] = ds[e]
<1> DEFINE put == [ds EXCEPT ![d] = o]
           s == Reflow(put, d, Old(ds[d]))
           r == Edited(ds, d, o, order)
<1>1. put \in Layouts /\ put[d] = o /\ \A e \in Displays \ {d} : put[e] = ds[e] BY DEF Layouts
<1>2. ds[d] \in Placements BY DEF Layouts
<1>3. /\ s \in Layouts /\ AllAsBefore(s, put)
      /\ Width(o) = Width(ds[d]) /\ Height(o) = Height(ds[d]) => s = put
  <2> HIDE DEF put
  <2> QED BY <1>1, <1>2, ReflowKeeps
<1>4. r = ResolveOverlaps(s, d, order) BY DEF Edited, Old
<1> HIDE DEF put, s, r
<1>5. r \in Layouts /\ AllAsBefore(r, s) /\ Clear(r)
  BY <1>3, <1>4, ResolvedKeeps, ResolvedIsClear DEF AllAsBefore
<1>6. AllAsBefore(r, put) BY <1>3, <1>5 DEF AllAsBefore, AsBefore
<1>7. ASSUME OthersClear(ds, d), Width(o) = Width(ds[d]), Height(o) = Height(ds[d])
      PROVE  \A e \in Displays \ {d} : r[e] = ds[e]
  <2>1. s = put BY <1>3, <1>7
  <2>2. OthersClear(put, d) BY <1>1, <1>7 DEF OthersClear, Collide
  <2>3. r = PlaceOutside(put, d, order) BY <1>1, <1>4, <2>1, <2>2, ResolvedMovesOne
  <2> QED BY <1>1, <2>3, PlacementKeeps
<1> QED BY <1>5, <1>6, <1>7 DEF put, r

\* Remembering the upright rotation leaves a display where it is.
LEMMA UprightIsTyped ==
  ASSUME NEW was \in Placements, NEW now \in Placements
  PROVE  /\ RememberUpright(was, now) \in Placements
         /\ RememberUpright(was, now).x = now.x /\ RememberUpright(was, now).y = now.y
         /\ was.auto = now.auto =>
              /\ Width(RememberUpright(was, now)) = Width(now)
              /\ Height(RememberUpright(was, now)) = Height(now)
<1>1. was.turn \in 0..1 /\ now.upright \in 0..1 /\ 0 \in 0..1 BY DEF Placements
<1>2. \A u \in 0..1 : [now EXCEPT !.upright = u] \in Placements BY DEF Placements
<1>3. [now EXCEPT !.turn = now.upright, !.upright = 0] \in Placements BY <1>1 DEF Placements
<1>4. RememberUpright(was, now) \in Placements BY <1>1, <1>2, <1>3 DEF RememberUpright
<1>5. \A u \in 0..1 : /\ [now EXCEPT !.upright = u].x = now.x /\ [now EXCEPT !.upright = u].y = now.y
                       /\ [now EXCEPT !.upright = u].turn = now.turn
                       /\ [now EXCEPT !.upright = u].size = now.size
  BY DEF Placements
<1>6. /\ [now EXCEPT !.turn = now.upright, !.upright = 0].x = now.x
      /\ [now EXCEPT !.turn = now.upright, !.upright = 0].y = now.y
  BY DEF Placements
<1>7. RememberUpright(was, now).x = now.x /\ RememberUpright(was, now).y = now.y
  BY <1>1, <1>5, <1>6 DEF RememberUpright
<1>8. was.auto = now.auto =>
        /\ RememberUpright(was, now).turn = now.turn
        /\ RememberUpright(was, now).size = now.size
  BY <1>1, <1>5 DEF RememberUpright
<1> QED BY <1>4, <1>7, <1>8 DEF Width, Height

\* A panel's edit is refused, or like any other.
LEMMA PanelEditClears ==
  ASSUME NEW ds \in Layouts, NEW d \in Displays, NEW o \in Placements, NEW distance
  PROVE  LET r == PanelEdit(ds, d, o, distance)
             n == RememberUpright(ds[d], o)
         IN  \/ r = ds
             \/ /\ r \in Layouts /\ Clear(r) /\ AllAsBefore(r, [ds EXCEPT ![d] = n])
                /\ OthersClear(ds, d) /\ Width(n) = Width(ds[d]) /\ Height(n) = Height(ds[d]) =>
                     \A e \in Displays \ {d} : r[e] = ds[e]
                /\ ~(distance > 0) => r = Edited(ds, d, n, SortedOrder(ds))
<1> DEFINE n == RememberUpright(ds[d], o)
           order == SortedOrder(ds)
           put == [ds EXCEPT ![d] = n]
           s == Reflow(put, d, Old(ds[d]))
           t == IF distance > 0 THEN ResolveDrop(s, d, distance, order) ELSE s
           u == ResolveOverlaps(t, d, order)
           r == PanelEdit(ds, d, o, distance)
<1>1. order \in Orders /\ Covers(order) BY SortedOrderCovers
<1>2. ds[d] \in Placements /\ n \in Placements
  <2>1. ds[d] \in Placements BY DEF Layouts
  <2> QED BY <2>1, UprightIsTyped
<1>3. put \in Layouts /\ put[d] = n /\ \A e \in Displays \ {d} : put[e] = ds[e]
  <2> HIDE DEF n
  <2> QED BY <1>2 DEF Layouts
<1>4. /\ s \in Layouts /\ AllAsBefore(s, put)
      /\ Width(n) = Width(ds[d]) /\ Height(n) = Height(ds[d]) => s = put
  <2> HIDE DEF put, n
  <2> QED BY <1>2, <1>3, ReflowKeeps
<1>5. r = u \/ r = ds BY DEF PanelEdit, Old
<1>6. ~(distance > 0) => u = Edited(ds, d, n, order) BY DEF Edited, Old
<1> HIDE DEF n, put, s, order
<1>7. t \in Layouts /\ AllAsBefore(t, s) /\ \A e \in Displays \ {d} : t[e] = s[e]
  <2>1. CASE distance > 0
    <3>1. t = ResolveDrop(s, d, distance, order) BY <2>1
    <3> HIDE DEF t
    <3> QED BY <1>1, <1>4, <3>1, DroppedKeeps
  <2>2. CASE ~(distance > 0) BY <1>4, <2>2 DEF AllAsBefore, AsBefore
  <2> QED BY <2>1, <2>2
<1> HIDE DEF t
<1>8. u \in Layouts /\ Clear(u) /\ AllAsBefore(u, t)
  BY <1>1, <1>7, ResolvedKeeps, ResolvedIsClear DEF AllAsBefore
<1>9. ASSUME OthersClear(ds, d), Width(n) = Width(ds[d]), Height(n) = Height(ds[d])
      PROVE  \A e \in Displays \ {d} : u[e] = ds[e]
  <2>1. \A e \in Displays \ {d} : t[e] = ds[e] BY <1>3, <1>4, <1>7, <1>9
  <2>2. OthersClear(t, d) BY <1>9, <2>1 DEF OthersClear, Collide
  <2>3. u = PlaceOutside(t, d, order) BY <1>1, <1>7, <2>2, ResolvedMovesOne
  <2> QED BY <1>1, <1>7, <2>1, <2>3, PlacementKeeps
<1> HIDE DEF u
<1>10. AllAsBefore(u, put) BY <1>4, <1>7, <1>8 DEF AllAsBefore, AsBefore
<1> HIDE DEF r
<1>11. r = ds \/ /\ r \in Layouts /\ Clear(r) /\ AllAsBefore(r, put)
                 /\ OthersClear(ds, d) /\ Width(n) = Width(ds[d]) /\ Height(n) = Height(ds[d]) =>
                      \A e \in Displays \ {d} : r[e] = ds[e]
                 /\ ~(distance > 0) => r = Edited(ds, d, n, order)
  BY <1>5, <1>6, <1>8, <1>9, <1>10
<1> QED BY <1>11 DEF r, n, put, order

-----------------------------------------------------------------------------
\* A row of displays, one of which is resized where it stands.

InARow(ds) == \A e, f \in Displays : e # f => InOneRow(ds, e, f)

\* What is right of it moves by the difference in width, the rest stays.
LEMMA RowMovesTogether ==
  ASSUME NEW ds \in Layouts, NEW d \in Displays, NEW o \in Placements,
         o.x = ds[d].x, o.y = ds[d].y, Width(o) # Width(ds[d]),
         InARow(ds), Reflowable(o), \A e \in Displays : Reflowable(ds[e])
  PROVE  LET r == Reflow([ds EXCEPT ![d] = o], d, Old(ds[d]))
         IN  /\ r[d] = o
             /\ \A e \in Displays \ {d} :
                  IF ds[e].x >= Box(ds[d]).right THEN r[e].x = ds[e].x + Width(o) - Width(ds[d])
                  ELSE r[e].x = ds[e].x
<1> DEFINE put == [ds EXCEPT ![d] = o]
           old == Old(ds[d])
           r == Reflow(put, d, old)
           right(e) == ds[e].x >= Box(ds[d]).right
           candidates == {e \in Displays \ {d} :
                            Reflowable(put[e]) /\ (PastRight(put, d, old, e) \/ PastBottom(put, d, old, e))}
<1>1. put \in Layouts /\ put[d] = o /\ \A e \in Displays \ {d} : put[e] = ds[e] BY DEF Layouts
<1>2. \A e \in Displays : ds[e] \in Placements BY DEF Layouts
<1>3. old.width = Width(ds[d]) /\ old.height = Height(ds[d]) BY DEF Old
<1>4. Reflowable(put[d]) /\ Width(put[d]) # old.width BY <1>1, <1>3
<1>5. r = [e \in Displays |-> IF e \in Moving(put, d, old) THEN Shifted(put, d, old, e) ELSE put[e]]
  BY <1>4 DEF Reflow
<1>6. /\ \A e \in Displays : ds[e].x \in Int /\ ds[e].y \in Int
      /\ \A e \in Displays : Width(ds[e]) \in Nat \ {0} /\ Height(ds[e]) \in Nat \ {0}
      /\ Width(o) \in Nat \ {0} /\ Height(o) \in Nat \ {0}
  BY <1>2, Extents DEF Placements
<1> HIDE DEF put, r, old
<1>7. ASSUME NEW e \in Displays \ {d}
      PROVE  /\ PastRight(put, d, old, e) <=> right(e)
             /\ ~PastBottom(put, d, old, e)
             /\ SameRow(Box(ds[d]), Box(ds[e]))
  <2>1. PastRight(put, d, old, e) <=> right(e) BY <1>1, <1>3, <1>4 DEF PastRight, Box
  <2>2. SameRow(Box(ds[d]), Box(ds[e])) BY DEF InARow, InOneRow
  <2>3. ds[e].y < ds[d].y + Height(ds[d]) BY <2>2 DEF SameRow, SpansOverlap, Box
  <2>4. ~(ds[e].y >= ds[d].y + Height(ds[d])) BY <1>6, <2>3
  <2>5. ~PastBottom(put, d, old, e) BY <1>1, <1>3, <2>4 DEF PastBottom
  <2> QED BY <2>1, <2>2, <2>5
<1>8. ASSUME NEW e \in Displays \ {d}, right(e) PROVE e \in Moving(put, d, old)
  <2>1. e \in candidates BY <1>1, <1>7, <1>8
  <2>2. Attached(put, d, old, e)
    <3> DEFINE tall == Max({old.height, Height(o)})
               span == [Box(o) EXCEPT !.right = o.x + Max({old.width, Width(o)}), !.bottom = o.y + tall]
    <3>1. tall \in Int /\ tall >= old.height
      <4>1. old.height \in Int /\ Height(o) \in Int BY <1>3, <1>6
      <4>2. \E x \in {old.height, Height(o)} : \A y \in {old.height, Height(o)} : x >= y
        <5>1. CASE old.height >= Height(o) BY <4>1, <5>1
        <5>2. CASE ~(old.height >= Height(o)) BY <4>1, <5>2
        <5> QED BY <5>1, <5>2
      <4> QED BY <4>1, <4>2 DEF Max
    <3>2. span.top = o.y /\ span.bottom = o.y + tall BY DEF Box
    <3>3. /\ Box(ds[e]).top < ds[d].y + Height(ds[d]) /\ Box(ds[e]).bottom > ds[d].y
          /\ Box(ds[e]).top \in Int /\ Box(ds[e]).bottom \in Int
      BY <1>2, <1>6, <1>7, Boxes DEF SameRow, SpansOverlap, Box
    <3> HIDE DEF tall
    <3>4. Box(ds[e]).top < span.bottom /\ Box(ds[e]).bottom > span.top
      BY <1>3, <1>6, <3>1, <3>2, <3>3
    <3>5. SameRow(Box(put[e]), span) BY <1>1, <3>4 DEF SameRow, SpansOverlap
    <3>6. PastRight(put, d, old, e) BY <1>7, <1>8
    <3> QED BY <1>1, <3>5, <3>6 DEF Attached, tall
  <2> QED BY <2>1, <2>2 DEF Moving
<1>9. ASSUME NEW e \in Displays \ {d}, ~right(e) PROVE e \notin Moving(put, d, old)
  BY <1>7, <1>9 DEF Moving
<1>10. d \notin Moving(put, d, old) BY DEF Moving
<1>11. r[d] = o BY <1>1, <1>5, <1>10
<1>12. ASSUME NEW e \in Displays \ {d}, right(e) PROVE r[e].x = ds[e].x + Width(o) - Width(ds[d])
  <2> DEFINE x == ds[e].x + Width(o) - Width(ds[d])
             y == ds[e].y
  <2>1. r[e] = Shifted(put, d, old, e) BY <1>5, <1>8, <1>12
  <2>2. PastRight(put, d, old, e) /\ ~PastBottom(put, d, old, e) BY <1>7, <1>12
  <2>3. Shifted(put, d, old, e) = MoveTo(ds[e], x, y) BY <1>1, <1>3, <2>2 DEF Shifted
  <2>4. x \in Int /\ y \in Int /\ ds[e] \in Placements BY <1>2, <1>6
  <2> HIDE DEF x, y
  <2>5. r[e].x = x BY <2>1, <2>3, <2>4, Moved
  <2> QED BY <2>5 DEF x
<1>13. \A e \in Displays \ {d} : ~right(e) => r[e].x = ds[e].x BY <1>1, <1>5, <1>9
<1>14. r[d] = o /\ \A e \in Displays \ {d} :
         IF right(e) THEN r[e].x = ds[e].x + Width(o) - Width(ds[d]) ELSE r[e].x = ds[e].x
  BY <1>11, <1>12, <1>13
<1> QED BY <1>14 DEF r, put, old

\* It is still a row, so that nothing else moves.
LEMMA RowIsKept ==
  ASSUME NEW ds \in Layouts, NEW d \in Displays, NEW o \in Placements,
         NEW order \in Orders, Covers(order),
         o.x = ds[d].x, o.y = ds[d].y, Width(o) # Width(ds[d]),
         InARow(ds), Reflowable(o), \A e \in Displays : Reflowable(ds[e])
  PROVE  LET r == Edited(ds, d, o, order)
         IN  \A e \in Displays : ds[e].x >= Box(ds[d]).right =>
               r[e].x - Box(r[d]).right = ds[e].x - Box(ds[d]).right
<1> DEFINE put == [ds EXCEPT ![d] = o]
           s == Reflow(put, d, Old(ds[d]))
           r == Edited(ds, d, o, order)
           R == Box(ds[d]).right
           D == Width(o) - Width(ds[d])
<1>1. put \in Layouts /\ put[d] = o /\ \A e \in Displays \ {d} : put[e] = ds[e] BY DEF Layouts
<1>2. \A e \in Displays : ds[e] \in Placements BY DEF Layouts
<1>3. s \in Layouts /\ AllAsBefore(s, put)
  <2> HIDE DEF put
  <2> QED BY <1>1, <1>2, ReflowKeeps
<1>4. s[d] = o /\ \A e \in Displays \ {d} : IF ds[e].x >= R THEN s[e].x = ds[e].x + D ELSE s[e].x = ds[e].x
  <2>1. /\ s[d] = o
        /\ \A e \in Displays \ {d} :
             IF ds[e].x >= Box(ds[d]).right THEN s[e].x = ds[e].x + Width(o) - Width(ds[d])
             ELSE s[e].x = ds[e].x
    BY RowMovesTogether
  <2>2. \A e \in Displays : ds[e].x \in Int /\ Width(ds[e]) \in Nat \ {0} /\ Width(o) \in Nat \ {0}
    BY <1>2, Extents DEF Placements
  <2>3. \A e \in Displays : ds[e].x + Width(o) - Width(ds[d]) = ds[e].x + D BY <2>2
  <2> HIDE DEF s
  <2> QED BY <2>1, <2>3
<1>5. r = ResolveOverlaps(s, d, order) BY DEF Edited, Old
<1>6. /\ \A e \in Displays : ds[e].x \in Int /\ Width(ds[e]) \in Nat \ {0}
      /\ Width(o) \in Nat \ {0} /\ D \in Int /\ o.x \in Int
      /\ R = ds[d].x + Width(ds[d]) /\ R \in Int
  <2>1. \A e \in Displays : ds[e].x \in Int /\ Width(ds[e]) \in Nat \ {0} BY <1>2, Extents DEF Placements
  <2>2. Width(o) \in Nat \ {0} /\ o.x \in Int BY Extents DEF Placements
  <2>3. R = ds[d].x + Width(ds[d]) BY DEF Box
  <2> QED BY <2>1, <2>2, <2>3
<1>7. \A e \in Displays \ {d} : s[e] \in Placements /\ Width(s[e]) = Width(ds[e])
  <2> HIDE DEF s, put
  <2> QED BY <1>1, <1>3 DEF AllAsBefore, AsBefore, Layouts
<1>8. \A e, f \in Displays : e # f =>
        ds[e].x >= ds[f].x + Width(ds[f]) \/ ds[e].x + Width(ds[e]) <= ds[f].x
  BY DEF InARow, InOneRow, Box
<1> HIDE DEF s, put, r, R, D
<1>9. ASSUME NEW e \in Displays, NEW f \in Displays, e # f
      PROVE  s[e].x >= s[f].x + Width(s[f]) \/ s[f].x >= s[e].x + Width(s[e])
  <2>0. s[d].x = ds[d].x /\ Width(s[d]) = Width(ds[d]) + D BY <1>4, <1>6 DEF D
  <2>1. ASSUME NEW a \in Displays \ {d}
        PROVE  s[a].x >= s[d].x + Width(s[d]) \/ s[d].x >= s[a].x + Width(s[a])
    <3>1. CASE ds[a].x >= R
      <4>1. s[a].x = ds[a].x + D BY <1>4, <3>1
      <4> QED BY <1>6, <2>0, <3>1, <4>1
    <3>2. CASE ~(ds[a].x >= R)
      <4>1. s[a].x = ds[a].x /\ Width(s[a]) = Width(ds[a]) BY <1>4, <1>7, <3>2
      <4>2. ds[a].x + Width(ds[a]) <= ds[d].x BY <1>6, <1>8, <3>2
      <4> QED BY <1>6, <2>0, <4>1, <4>2
    <3> QED BY <3>1, <3>2
  <2>2. CASE e = d BY <1>9, <2>1, <2>2
  <2>3. CASE f = d BY <1>9, <2>1, <2>3
  <2>4. CASE e # d /\ f # d
    <3>1. /\ s[e].x = IF ds[e].x >= R THEN ds[e].x + D ELSE ds[e].x
          /\ s[f].x = IF ds[f].x >= R THEN ds[f].x + D ELSE ds[f].x
          /\ Width(s[e]) = Width(ds[e]) /\ Width(s[f]) = Width(ds[f])
      BY <1>4, <1>7, <2>4
    <3>2. /\ ds[e].x >= ds[f].x + Width(ds[f]) \/ ds[e].x + Width(ds[e]) <= ds[f].x
          /\ ds[e].x >= R \/ ds[e].x + Width(ds[e]) <= ds[d].x
          /\ ds[f].x >= R \/ ds[f].x + Width(ds[f]) <= ds[d].x
      BY <1>6, <1>8, <1>9, <2>4
    <3>3. R + D = ds[d].x + Width(o) BY <1>6 DEF D
    <3> QED BY <1>6, <3>1, <3>2, <3>3
  <2> QED BY <2>2, <2>3, <2>4
<1>10. \A e, f \in Displays : e # f => ~Collide(s, e, f)
  <2>1. ASSUME NEW e \in Displays, NEW f \in Displays, e # f, Overlap(Box(s[e]), Box(s[f])) PROVE FALSE
    <3>1. s[e] \in Placements /\ s[f] \in Placements BY <1>3 DEF Layouts
    <3>2. /\ Width(s[e]) \in Nat /\ Width(s[f]) \in Nat /\ s[e].x \in Int /\ s[f].x \in Int
      BY <3>1, Extents DEF Placements
    <3>3. s[e].x < s[f].x + Width(s[f]) /\ s[e].x + Width(s[e]) > s[f].x
      BY <2>1 DEF Overlap, SameColumn, SpansOverlap, Box
    <3> QED BY <1>9, <2>1, <3>2, <3>3
  <2> QED BY <2>1 DEF Collide
<1>11. r = s
  <2>1. OthersClear(s, d) BY <1>10 DEF OthersClear
  <2>2. Free(s, d) BY <1>3, <1>10, FreeMeans
  <2> QED BY <1>3, <1>5, <2>1, <2>2, ResolvedMovesOne, FreeStays
<1>12. ASSUME NEW e \in Displays, ds[e].x >= R PROVE r[e].x - Box(r[d]).right = ds[e].x - R
  <2>1. e # d BY <1>6, <1>12
  <2>2. r[e].x = ds[e].x + D /\ Box(r[d]).right = ds[d].x + Width(o) BY <1>4, <1>11, <1>12, <2>1 DEF Box
  <2> QED BY <1>6, <2>2 DEF D
<1> QED BY <1>12 DEF r, R

-----------------------------------------------------------------------------
\* The steps of an edited draft, by what they do to it.

InspectorEdits(d, o) ==
  /\ Sets(d, o)
  /\ \/ o.x = outputs[d].x /\ o.y = outputs[d].y
     \/ Width(o) = Width(outputs[d]) /\ Height(o) = Height(outputs[d])

PanelSendsEdit(d, o, distance) ==
  /\ PanelSends(d, o, distance)
  /\ LET n == RememberUpright(outputs[d], o)
     IN \/ ~(distance > 0) /\ n.x = outputs[d].x /\ n.y = outputs[d].y
        \/ Width(n) = Width(outputs[d]) /\ Height(n) = Height(outputs[d])

\* Every inspector edit sets one display, and either leaves it in its place or its size.
LEMMA InspectorKinds ==
  ASSUME outputs \in Layouts, NEW d \in Displays
  PROVE  /\ Toggles(d) \/ StepsRotation(d) => \E o \in Placements : InspectorEdits(d, o)
         /\ \A s \in Sizes : ChangesSize(d, s) => \E o \in Placements : InspectorEdits(d, o)
         /\ \A c \in {0, 1, FollowsDevice} : PicksRotation(d, c) => \E o \in Placements : InspectorEdits(d, o)
         /\ \A e \in 0..Count : Mirrors(d, e) => \E o \in Placements : InspectorEdits(d, o)
         /\ \A x, y \in Coords : TypesPosition(d, x, y) => \E o \in Placements : InspectorEdits(d, o)
<1> DEFINE o == outputs[d]
<1>1. o \in Placements BY DEF Layouts
<1> HIDE DEF o
<1>2. [o EXCEPT !.on = ~@] \in Placements /\ [o EXCEPT !.on = ~@].x = o.x /\ [o EXCEPT !.on = ~@].y = o.y
  BY <1>1 DEF Placements
<1>3. /\ [o EXCEPT !.turn = 1 - @] \in Placements
      /\ [o EXCEPT !.turn = 1 - @].x = o.x /\ [o EXCEPT !.turn = 1 - @].y = o.y
  <2>1. o.turn \in 0..1 BY <1>1 DEF Placements
  <2>2. 1 - o.turn \in 0..1 BY <2>1
  <2> QED BY <1>1, <2>2 DEF Placements
<1>4. ASSUME NEW s \in Sizes
      PROVE  /\ [o EXCEPT !.size = s] \in Placements
             /\ [o EXCEPT !.size = s].x = o.x /\ [o EXCEPT !.size = s].y = o.y
  BY <1>1 DEF Placements
<1>5. ASSUME NEW c \in {0, 1, FollowsDevice}
      PROVE  Rotated(o, c) \in Placements /\ Rotated(o, c).x = o.x /\ Rotated(o, c).y = o.y
  <2> DEFINE p == IF c = FollowsDevice THEN [o EXCEPT !.auto = TRUE]
                  ELSE [o EXCEPT !.turn = c, !.auto = FALSE]
  <2>1. c = FollowsDevice \/ c \in 0..1 OBVIOUS
  <2>2. p \in Placements /\ p.x = o.x /\ p.y = o.y BY <1>1, <2>1 DEF Placements
  <2>3. Rotated(o, c) = RememberUpright(o, p) BY DEF Rotated
  <2> HIDE DEF p
  <2> QED BY <1>1, <2>2, <2>3, UprightIsTyped
<1>6. ASSUME NEW e \in 0..Count
      PROVE  /\ [o EXCEPT !.mirror = e] \in Placements
             /\ [o EXCEPT !.mirror = e].x = o.x /\ [o EXCEPT !.mirror = e].y = o.y
  BY <1>1 DEF Placements
<1>7. ASSUME NEW x \in Coords, NEW y \in Coords
      PROVE  /\ MoveTo(o, x, y) \in Placements
             /\ Width(MoveTo(o, x, y)) = Width(o) /\ Height(MoveTo(o, x, y)) = Height(o)
  BY <1>1, EditorAssumption, Moved
<1>8. ASSUME Toggles(d) PROVE \E p \in Placements : InspectorEdits(d, p)
  <2>1. Sets(d, [o EXCEPT !.on = ~@]) BY <1>8 DEF Toggles, o
  <2> QED BY <1>2, <2>1 DEF InspectorEdits, o
<1>9. ASSUME StepsRotation(d) PROVE \E p \in Placements : InspectorEdits(d, p)
  <2>1. Sets(d, [o EXCEPT !.turn = 1 - @]) BY <1>9 DEF StepsRotation, o
  <2> QED BY <1>3, <2>1 DEF InspectorEdits, o
<1>10. ASSUME NEW s \in Sizes, ChangesSize(d, s) PROVE \E p \in Placements : InspectorEdits(d, p)
  <2>1. Sets(d, [o EXCEPT !.size = s]) BY <1>10 DEF ChangesSize, o
  <2> QED BY <1>4, <2>1 DEF InspectorEdits, o
<1>11. ASSUME NEW c \in {0, 1, FollowsDevice}, PicksRotation(d, c)
       PROVE  \E p \in Placements : InspectorEdits(d, p)
  <2>1. Sets(d, Rotated(o, c)) BY <1>11 DEF PicksRotation, o
  <2> QED BY <1>5, <2>1 DEF InspectorEdits, o
<1>12. ASSUME NEW e \in 0..Count, Mirrors(d, e) PROVE \E p \in Placements : InspectorEdits(d, p)
  <2>1. Sets(d, [o EXCEPT !.mirror = e]) BY <1>12 DEF Mirrors, o
  <2> QED BY <1>6, <2>1 DEF InspectorEdits, o
<1>13. ASSUME NEW x \in Coords, NEW y \in Coords, TypesPosition(d, x, y)
       PROVE  \E p \in Placements : InspectorEdits(d, p)
  <2>1. Sets(d, MoveTo(o, x, y)) BY <1>13 DEF TypesPosition, o
  <2> QED BY <1>7, <2>1 DEF InspectorEdits, o
<1> QED BY <1>8, <1>9, <1>10, <1>11, <1>12, <1>13

\* Every move puts one display at a place.
LEMMA PlaceKinds ==
  ASSUME outputs \in Layouts, NEW d \in Displays
  PROVE  /\ MovesToOrigin(d) => \E x, y \in Int : Places(d, x, y)
         /\ \A dx, dy \in Int : Nudges(d, dx, dy) => \E x, y \in Int : Places(d, x, y)
         /\ \A direction \in {"left", "right", "above", "below"} :
              PlacesBeside(d, direction) => \E x, y \in Int : Places(d, x, y)
<1>1. \A e \in Displays : outputs[e] \in Placements BY DEF Layouts
<1>2. outputs[d].x \in Int /\ outputs[d].y \in Int BY <1>1 DEF Placements
<1>3. MovesToOrigin(d) => \E x, y \in Int : Places(d, x, y) BY DEF MovesToOrigin
<1>4. \A dx, dy \in Int : Nudges(d, dx, dy) => \E x, y \in Int : Places(d, x, y)
  BY <1>2 DEF Nudges
<1>5. ASSUME NEW direction \in {"left", "right", "above", "below"}, PlacesBeside(d, direction)
      PROVE  \E x, y \in Int : Places(d, x, y)
  <2> DEFINE K == Anchors(outputs, d, DraftOrder)
             c == Centre(outputs[d])
             Dist(e) == LET k == Centre(outputs[e])
                        IN (c[1] - k[1]) * (c[1] - k[1]) + (c[2] - k[2]) * (c[2] - k[2])
             far == [k \in DOMAIN DraftOrder |-> Dist(DraftOrder[k])]
             a == NearestAnchor(outputs, d, DraftOrder)
             place == BesidePosition(outputs[d], outputs[a], direction)
  <2>1. K # {} /\ K \subseteq DOMAIN DraftOrder BY <1>5 DEF PlacesBeside, Anchors
  <2>2. DOMAIN DraftOrder = Displays /\ Displays \subseteq Nat /\ \A e \in Displays : DraftOrder[e] = e
    BY EditorAssumption DEF DraftOrder, Displays
  <2>3. ASSUME NEW e \in Displays PROVE Centre(outputs[e])[1] \in Int /\ Centre(outputs[e])[2] \in Int
    <3>1. /\ outputs[e].x \in Int /\ outputs[e].y \in Int
          /\ Width(outputs[e]) \in Int /\ Height(outputs[e]) \in Int
      BY <1>1, Extents DEF Placements
    <3> QED BY <3>1 DEF Centre
  <2>4. ASSUME NEW k \in K PROVE far[k] \in Nat
    <3> DEFINE p == c[1] - Centre(outputs[k])[1]
               q == c[2] - Centre(outputs[k])[2]
    <3>1. k \in Displays /\ far[k] = p * p + q * q BY <2>1, <2>2
    <3>2. p \in Int /\ q \in Int BY <2>3, <3>1
    <3> HIDE DEF p, q
    <3>3. p * p \in Nat /\ q * q \in Nat BY <3>2, IntIsSquared
    <3> QED BY <3>1, <3>3
  <2>5. a = Nearest(K, DraftOrder, far) BY DEF NearestAnchor
  <2>6. \E k \in K : a = DraftOrder[k]
    <3> HIDE DEF K, far, a
    <3> QED BY <2>1, <2>2, <2>4, <2>5, NearestIsThere
  <2>7. a \in Displays BY <2>1, <2>2, <2>6
  <2> HIDE DEF a
  <2>8. Box(outputs[a]).left \in Int /\ Box(outputs[a]).right \in Int
        /\ Box(outputs[a]).top \in Int /\ Box(outputs[a]).bottom \in Int
    BY <1>1, <2>7, Boxes
  <2>9. /\ outputs[a].x \in Int /\ outputs[a].y \in Int
        /\ Width(outputs[a]) \in Int /\ Height(outputs[a]) \in Int
        /\ Width(outputs[d]) \in Int /\ Height(outputs[d]) \in Int
    BY <1>1, <2>7, Extents DEF Placements
  <2>10. \A n \in Int : Half(n) \in Int BY DEF Half
  <2>11. place[1] \in Int /\ place[2] \in Int
    <3>1. /\ outputs[a].y + Half(Height(outputs[a]) - Height(outputs[d])) \in Int
          /\ outputs[a].x + Half(Width(outputs[a]) - Width(outputs[d])) \in Int
      BY <2>9, <2>10
    <3> QED BY <2>8, <2>9, <3>1 DEF BesidePosition
  <2>12. Places(d, place[1], place[2]) BY <1>5 DEF PlacesBeside, a
  <2> QED BY <2>11, <2>12
<1> QED BY <1>3, <1>4, <1>5

\* Every panel edit is one of a display's place or of something else.
LEMMA PanelKinds ==
  ASSUME outputs \in Layouts, NEW d \in Displays
  PROVE  /\ \A o \in PanelEdits(outputs[d]) : PanelSends(d, o, 0) =>
              \E p \in Placements : PanelSendsEdit(d, p, 0)
         /\ \A x, y \in Coords : PanelSends(d, MoveTo(outputs[d], x, y), 1) =>
              \E p \in Placements : PanelSendsEdit(d, p, 1)
<1> DEFINE o == outputs[d]
<1>1. o \in Placements BY DEF Layouts
<1>2. ASSUME NEW p \in PanelEdits(o) PROVE p \in Placements /\ p.x = o.x /\ p.y = o.y
  <2> HIDE DEF o
  <2>1. CASE p \in {[o EXCEPT !.on = ~@]} BY <1>1, <2>1 DEF Placements
  <2>2. CASE p \in {[o EXCEPT !.mirror = m] : m \in 0..Count} BY <1>1, <2>2 DEF Placements
  <2>3. CASE p \in {[o EXCEPT !.size = s] : s \in Sizes \ {NoMode}} BY <1>1, <2>3 DEF Placements
  <2>4. CASE p \in {[o EXCEPT !.turn = t, !.auto = FALSE] : t \in 0..1} BY <1>1, <2>4 DEF Placements
  <2> QED BY <2>1, <2>2, <2>3, <2>4 DEF PanelEdits
<1>3. ASSUME NEW p \in PanelEdits(o), PanelSends(d, p, 0)
      PROVE  \E q \in Placements : PanelSendsEdit(d, q, 0)
  <2>1. p \in Placements /\ p.x = o.x /\ p.y = o.y BY <1>2
  <2>2. RememberUpright(o, p).x = o.x /\ RememberUpright(o, p).y = o.y BY <1>1, <2>1, UprightIsTyped
  <2> QED BY <1>3, <2>1, <2>2 DEF PanelSendsEdit
<1>4. ASSUME NEW x \in Coords, NEW y \in Coords, PanelSends(d, MoveTo(o, x, y), 1)
      PROVE  \E q \in Placements : PanelSendsEdit(d, q, 1)
  <2> DEFINE p == MoveTo(o, x, y)
  <2>1. /\ p \in Placements /\ Width(p) = Width(o) /\ Height(p) = Height(o)
    BY <1>1, EditorAssumption, Moved
  <2>2. p.auto = o.auto BY <1>1 DEF MoveTo, Placements
  <2>3. Width(RememberUpright(o, p)) = Width(o) /\ Height(RememberUpright(o, p)) = Height(o)
    <3> HIDE DEF p, o
    <3> QED BY <1>1, <2>1, <2>2, UprightIsTyped
  <2> QED BY <1>4, <2>1, <2>3 DEF PanelSendsEdit
<1> QED BY <1>3, <1>4

-----------------------------------------------------------------------------
\* Every step of a draft is of one of these kinds.
StepKind ==
  \/ DialogOpens \/ ClosesDialog
  \/ \E d \in Displays, o \in Placements : InspectorEdits(d, o)
  \/ \E d \in Displays, x, y \in Int : Places(d, x, y)
  \/ \E d \in Displays : Presses(d) \/ PressesHidden(d)
  \/ \E x, y \in Int : Drags(x, y) \/ Releases(x, y)
  \/ \E layout \in Arrangements : Loads(layout)
  \/ \E d \in Displays, o \in Placements : PanelSendsEdit(d, o, 0) \/ PanelSendsEdit(d, o, 1)

\* There are no other steps.
LEMMA StepKinds ==
  ASSUME outputs \in Layouts, DraftNext
  PROVE  StepKind
<1>1. -1..1 \subseteq Int OBVIOUS
<1>2. Coords \subseteq Int BY EditorAssumption
<1>3. ASSUME NEW d \in Displays,
             \/ Toggles(d) \/ StepsRotation(d)
             \/ \E s \in Sizes \ {NoMode} : ChangesSize(d, s)
             \/ \E c \in {0, 1, FollowsDevice} : PicksRotation(d, c)
             \/ \E e \in 0..Count : Mirrors(d, e)
             \/ \E x, y \in Coords : TypesPosition(d, x, y)
      PROVE  \E o \in Placements : InspectorEdits(d, o)
  BY <1>3, InspectorKinds
<1>4. ASSUME NEW d \in Displays,
             \/ MovesToOrigin(d)
             \/ \E dx, dy \in -1..1 : dx * dy = 0 /\ dx # dy /\ Nudges(d, dx, dy)
             \/ \E direction \in {"left", "right", "above", "below"} : PlacesBeside(d, direction)
      PROVE  \E x, y \in Int : Places(d, x, y)
  BY <1>1, <1>4, PlaceKinds
<1>5. ASSUME NEW d \in Displays,
             \/ \E o \in PanelEdits(outputs[d]) : PanelSends(d, o, 0)
             \/ \E x, y \in Coords : PanelSends(d, MoveTo(outputs[d], x, y), 1)
      PROVE  \E o \in Placements : PanelSendsEdit(d, o, 0) \/ PanelSendsEdit(d, o, 1)
  BY <1>5, PanelKinds
<1>6. CASE DialogOpens \/ ClosesDialog BY <1>6 DEF StepKind
<1>7. CASE \E d \in Displays : Toggles(d) \/ StepsRotation(d) \/ MovesToOrigin(d) \/ Presses(d) \/ PressesHidden(d)
  BY <1>3, <1>4, <1>7 DEF StepKind
<1>8. CASE \E d \in Displays, s \in Sizes \ {NoMode} : ChangesSize(d, s) BY <1>3, <1>8 DEF StepKind
<1>9. CASE \E d \in Displays, c \in {0, 1, FollowsDevice} : PicksRotation(d, c) BY <1>3, <1>9 DEF StepKind
<1>10. CASE \E d \in Displays, e \in 0..Count : Mirrors(d, e) BY <1>3, <1>10 DEF StepKind
<1>11. CASE \E d \in Displays, dx, dy \in -1..1 : dx * dy = 0 /\ dx # dy /\ Nudges(d, dx, dy)
  BY <1>4, <1>11 DEF StepKind
<1>12. CASE \E d \in Displays, direction \in {"left", "right", "above", "below"} : PlacesBeside(d, direction)
  BY <1>4, <1>12 DEF StepKind
<1>13. CASE \E d \in Displays, x, y \in Coords : TypesPosition(d, x, y) BY <1>3, <1>13 DEF StepKind
<1>14. CASE \E x, y \in Coords : Drags(x, y) \/ Releases(x, y) BY <1>2, <1>14 DEF StepKind
<1>15. CASE \E layout \in Arrangements : Loads(layout) BY <1>15 DEF StepKind
<1>16. CASE \E d \in Displays : \E o \in PanelEdits(outputs[d]) : PanelSends(d, o, 0)
  BY <1>5, <1>16 DEF StepKind
<1>17. CASE \E d \in Displays, x, y \in Coords : PanelSends(d, MoveTo(outputs[d], x, y), 1)
  BY <1>5, <1>17 DEF StepKind
<1> QED
  BY <1>6, <1>7, <1>8, <1>9, <1>10, <1>11, <1>12, <1>13, <1>14, <1>15, <1>16, <1>17 DEF DraftNext

-----------------------------------------------------------------------------
\* While a display is dragged the others are in order, and until it moves so is it.
InOrderOrHeld ==
  IF drag = NoDrag THEN Clear(outputs)
  ELSE OthersClear(outputs, drag.of) /\ (drag.moved \/ Clear(outputs))

DraftInv ==
  /\ DraftTypeOK
  /\ drag # NoDrag => drag.of \in Displays
  /\ mode = "dialog" => drag # NoDrag
  /\ excused \/ InOrderOrHeld

\* In a clear layout any displays are clear of each other.
LEMMA ClearOthers ==
  ASSUME NEW ds, Clear(ds), NEW d
  PROVE  OthersClear(ds, d)
BY DEF Clear, OthersClear, Collide

\* A clear draft is in order, whether or not a display is held.
LEMMA ClearIsInOrder ==
  ASSUME Clear(outputs)
  PROVE  InOrderOrHeld
BY ClearOthers DEF InOrderOrHeld

\* A display that is off is in nobody's way, wherever it is written down.
LEMMA DarkIsAside ==
  ASSUME NEW ds \in Layouts, NEW d \in Displays, ~ds[d].on, NEW x \in Int, NEW y \in Int,
         NEW distance, NEW order
  PROVE  /\ \A e, c \in Displays : Collide(MoveOutput(ds, d, x, y, distance, order), e, c) => Collide(ds, e, c)
         /\ MoveOutput(ds, d, x, y, distance, order) \in Layouts
<1> DEFINE put == [ds EXCEPT ![d] = MoveTo(ds[d], x, y)]
<1>1. MoveOutput(ds, d, x, y, distance, order) = put BY DEF MoveOutput
<1>2. put \in Layouts /\ AllAsBefore(put, ds) BY PutKeeps
<1>3. \A e \in Displays \ {d} : put[e] = ds[e] BY DEF Layouts
<1>4. ~Reflowable(put[d])
  BY <1>2 DEF AllAsBefore, AsBefore, Reflowable, Placeable
<1> HIDE DEF put
<1> QED BY <1>1, <1>2, <1>3, <1>4 DEF Collide

\* An edit in the inspector leaves the draft clear.
LEMMA EditKeepsInv ==
  ASSUME DraftInv, NEW d \in Displays, NEW o \in Placements, Sets(d, o)
  PROVE  DraftInv'
<1>1. outputs \in Layouts BY DEF DraftInv, DraftTypeOK, Layouts
<1>2. outputs' \in Layouts /\ Clear(outputs)'
  <2>1. outputs' = Edited(outputs, d, o, DraftOrder) BY DEF Sets, Becomes
  <2>2. Clear(outputs') BY <1>1, <2>1, DraftOrderCovers, EditClears
  <2>3. outputs' \in Layouts BY <1>1, <2>1, DraftOrderCovers, EditClears
  <2> QED BY <2>2, <2>3
<1>3. /\ drag' = drag /\ mode' = "main" /\ excused' \in BOOLEAN
      /\ edits < MaxEdits /\ edits' = edits + 1 /\ drags' = drags /\ loads' = loads
  BY DEF Sets, EditsDraft, Becomes, DraftInv, DraftTypeOK
<1>4. DraftTypeOK' BY <1>2, <1>3, EditorAssumption DEF DraftInv, DraftTypeOK, Layouts
<1>5. InOrderOrHeld'
  <2>1. \A c : OthersClear(outputs', c) BY <1>2, ClearOthers
  <2> QED BY <1>2, <2>1 DEF InOrderOrHeld
<1> QED BY <1>3, <1>4, <1>5 DEF DraftInv, NoDrag

\* So does a move of a display that is on; one that is off lies on nothing.
LEMMA PlaceKeepsInv ==
  ASSUME DraftInv, NEW d \in Displays, NEW x \in Int, NEW y \in Int, Places(d, x, y)
  PROVE  DraftInv'
<1> DEFINE r == MoveOutput(outputs, d, x, y, 0, DraftOrder)
<1>1. outputs \in Layouts BY DEF DraftInv, DraftTypeOK, Layouts
<1>2. /\ drag' = drag /\ mode' = mode /\ mode = "main" /\ excused' \in BOOLEAN
      /\ edits < MaxEdits /\ edits' = edits + 1 /\ drags' = drags /\ loads' = loads
      /\ outputs' = r /\ excused' = (excused /\ ~Clear(r))
  BY DEF Places, EditsDraft, Becomes, DraftInv, DraftTypeOK
<1>3. /\ r \in Layouts
      /\ outputs[d].on \/ OthersClear(outputs, d) => Clear(r)
  BY <1>1, DraftOrderCovers, MoveClears
<1>4. ~outputs[d].on => \A e, c \in Displays : Collide(r, e, c) => Collide(outputs, e, c)
  BY <1>1, DarkIsAside
<1> HIDE DEF r
<1>5. DraftTypeOK' BY <1>2, <1>3, EditorAssumption DEF DraftInv, DraftTypeOK, Layouts
<1>6. CASE Clear(r)
  <2>1. \A c : OthersClear(r, c) BY <1>6, ClearOthers
  <2>2. InOrderOrHeld' BY <1>2, <1>6, <2>1 DEF InOrderOrHeld
  <2> QED BY <1>2, <1>5, <2>2 DEF DraftInv, NoDrag
<1>7. CASE ~Clear(r) /\ ~excused
  <2>1. ~outputs[d].on /\ InOrderOrHeld BY <1>3, <1>7 DEF DraftInv
  <2>2. Clear(outputs) => Clear(r) BY <1>4, <2>1 DEF Clear, Collide
  <2>3. drag # NoDrag /\ drag.moved /\ OthersClear(outputs, drag.of)
    BY <1>7, <2>1, <2>2 DEF InOrderOrHeld
  <2>4. OthersClear(r, drag.of) BY <1>4, <2>1, <2>3 DEF OthersClear
  <2>5. InOrderOrHeld' BY <1>2, <2>3, <2>4 DEF InOrderOrHeld, NoDrag
  <2> QED BY <1>2, <1>5, <2>5 DEF DraftInv, NoDrag
<1>8. CASE ~Clear(r) /\ excused BY <1>2, <1>5, <1>8 DEF DraftInv, NoDrag
<1> QED BY <1>6, <1>7, <1>8

\* A press finds the draft clear, or the overlap is excused.
LEMMA PressKeepsInv ==
  ASSUME DraftInv, NEW d \in Displays, Presses(d)
  PROVE  DraftInv'
<1>1. outputs[d] \in Placements /\ Count \in Nat
  BY EditorAssumption DEF DraftInv, DraftTypeOK
<1>2. outputs[d].x \in Int /\ outputs[d].y \in Int /\ d \in 0..Count /\ d # 0
  BY <1>1 DEF Placements, Displays
<1>3. /\ drag' = [of |-> d, x |-> outputs[d].x, y |-> outputs[d].y, moved |-> FALSE]
      /\ drag'.of = d /\ drag' # NoDrag
  BY <1>2 DEF Presses, NoDrag
<1>4. drag' \in [of : 0..Count, x : Int, y : Int, moved : BOOLEAN] BY <1>2, <1>3
<1>5. /\ outputs' = outputs /\ mode' = mode /\ edits' = edits /\ loads' = loads
      /\ drags < MaxDrags /\ drags' = drags + 1 /\ excused' = (excused \/ ~Clear(outputs))
  BY DEF Presses
<1>6. DraftTypeOK' BY <1>4, <1>5, EditorAssumption DEF DraftInv, DraftTypeOK
<1>7. excused' \/ InOrderOrHeld'
  <2>1. CASE Clear(outputs)
    <3>1. OthersClear(outputs, d) BY <2>1, ClearOthers
    <3> QED BY <1>3, <1>5, <2>1, <3>1 DEF InOrderOrHeld
  <2>2. CASE ~Clear(outputs) BY <1>5, <2>2
  <2> QED BY <2>1, <2>2
<1> QED BY <1>3, <1>6, <1>7 DEF DraftInv

\* A press on a display without a place ends the drag; one that enables it is an edit.
LEMMA HiddenPressKeepsInv ==
  ASSUME DraftInv, NEW d \in Displays, PressesHidden(d)
  PROVE  DraftInv'
<1> DEFINE r == Edited(outputs, d, [outputs[d] EXCEPT !.on = TRUE], DraftOrder)
<1>1. outputs \in Layouts BY DEF DraftInv, DraftTypeOK, Layouts
<1>2. /\ drag' = NoDrag /\ mode' = mode /\ mode = "main" /\ edits' = edits /\ drags' = drags /\ loads' = loads
  BY DEF PressesHidden
<1>3. [outputs[d] EXCEPT !.on = TRUE] \in Placements
  <2>1. outputs[d] \in Placements BY <1>1 DEF Layouts
  <2> QED BY <2>1 DEF Placements
<1>4. r \in Layouts /\ Clear(r) BY <1>1, <1>3, DraftOrderCovers, EditClears
<1>5. \/ excused' = (excused \/ ~Clear(outputs)) /\ outputs' = outputs
      \/ outputs' = r /\ excused' = (excused /\ ~Clear(r))
  BY DEF PressesHidden, Becomes
<1> HIDE DEF r
<1>6. outputs' \in Layouts /\ excused' \in BOOLEAN /\ (excused' \/ Clear(outputs'))
  BY <1>1, <1>4, <1>5 DEF DraftInv, DraftTypeOK
<1>7. DraftTypeOK'
  <2>1. 0 \in 0..Count BY EditorAssumption
  <2>2. drag' \in [of : 0..Count, x : Int, y : Int, moved : BOOLEAN] BY <1>2, <2>1 DEF NoDrag
  <2> QED BY <1>2, <1>6, <2>2 DEF DraftInv, DraftTypeOK, Layouts
<1> QED BY <1>2, <1>6, <1>7 DEF DraftInv, InOrderOrHeld, NoDrag

\* A drag disturbs only the display it moves.
LEMMA DragKeepsInv ==
  ASSUME DraftInv, NEW x \in Int, NEW y \in Int, Drags(x, y)
  PROVE  DraftInv'
<1> DEFINE d == drag.of
           r == [outputs EXCEPT ![d] = MoveTo(outputs[d], x, y)]
<1>1. outputs \in Layouts /\ drag # NoDrag /\ d \in Displays
  BY DEF DraftInv, DraftTypeOK, Layouts, Drags
<1>2. /\ drag' = [drag EXCEPT !.moved = TRUE] /\ outputs' = r /\ mode' = mode /\ mode = "main"
      /\ excused' = excused /\ edits' = edits /\ drags' = drags /\ loads' = loads
  BY DEF Drags
<1>3. drag \in [of : 0..Count, x : Int, y : Int, moved : BOOLEAN] BY DEF DraftInv, DraftTypeOK
<1>4. /\ drag' \in [of : 0..Count, x : Int, y : Int, moved : BOOLEAN]
      /\ drag'.of = d /\ drag'.moved /\ drag' # NoDrag
  BY <1>2, <1>3 DEF NoDrag
<1>5. r \in Layouts /\ \A e \in Displays \ {d} : r[e] = outputs[e]
  <2>1. r \in Layouts BY <1>1, PutKeeps
  <2> QED BY <1>1, <2>1 DEF Layouts
<1> HIDE DEF r
<1>6. DraftTypeOK' BY <1>2, <1>4, <1>5 DEF DraftInv, DraftTypeOK, Layouts
<1>7. excused \/ OthersClear(outputs, d) BY <1>1 DEF DraftInv, InOrderOrHeld
<1>8. OthersClear(outputs, d) => OthersClear(r, d) BY <1>5 DEF OthersClear, Collide
<1>9. excused' \/ InOrderOrHeld'
  BY <1>2, <1>4, <1>7, <1>8 DEF InOrderOrHeld
<1> QED BY <1>1, <1>2, <1>4, <1>6, <1>9 DEF DraftInv

\* A drop finds a place for the dragged display when the others are in order.
LEMMA DropIsClear ==
  ASSUME outputs \in Layouts, drag.of \in Displays, drag.x \in Int, drag.y \in Int,
         NEW x \in Int, NEW y \in Int
  PROVE  /\ Dropped(x, y) \in Layouts
         /\ OthersClear(outputs, drag.of) => Clear(Dropped(x, y))
<1> DEFINE d == drag.of
           back == [outputs EXCEPT ![d] = MoveTo(outputs[d], drag.x, drag.y)]
<1>1. Dropped(x, y) = IF back[d].mirror # NotMirroring THEN back ELSE MoveOutput(back, d, x, y, 1, DraftOrder)
  BY DEF Dropped
<1>2. back \in Layouts /\ \A e \in Displays \ {d} : back[e] = outputs[e]
  <2>1. back \in Layouts BY PutKeeps
  <2> QED BY <2>1 DEF Layouts
<1> HIDE DEF back
<1>3. OthersClear(outputs, d) => OthersClear(back, d) BY <1>2 DEF OthersClear, Collide
<1>4. CASE back[d].mirror # NotMirroring
  <2>1. ~Reflowable(back[d]) BY <1>4 DEF Reflowable, Placeable
  <2>2. OthersClear(back, d) => Clear(back) BY <2>1 DEF OthersClear, Clear, Collide
  <2> QED BY <1>1, <1>2, <1>3, <1>4, <2>2
<1>5. CASE ~(back[d].mirror # NotMirroring)
  BY <1>1, <1>2, <1>3, <1>5, DraftOrderCovers, MoveClears
<1> QED BY <1>4, <1>5

\* A release drops the display, or leaves it where it never moved from.
LEMMA ReleaseKeepsInv ==
  ASSUME DraftInv, NEW x \in Int, NEW y \in Int, Releases(x, y)
  PROVE  DraftInv'
<1>1. outputs \in Layouts /\ drag # NoDrag /\ drag.of \in Displays
  BY DEF DraftInv, DraftTypeOK, Layouts, Releases
<1>2. drag.x \in Int /\ drag.y \in Int BY DEF DraftInv, DraftTypeOK
<1>3. drag' = NoDrag /\ mode' = mode /\ mode = "main" /\ edits' = edits /\ drags' = drags /\ loads' = loads
  BY DEF Releases
<1>4. \/ outputs' = Dropped(x, y) /\ excused' = (excused /\ ~Clear(Dropped(x, y)))
      \/ ~drag.moved /\ outputs' = outputs /\ excused' = excused
  BY DEF Releases, Becomes
<1>5. outputs' \in Layouts /\ excused' \in BOOLEAN
  BY <1>1, <1>2, <1>4, DropIsClear DEF DraftInv, DraftTypeOK
<1>6. excused' \/ Clear(outputs')
  <2>1. excused \/ (OthersClear(outputs, drag.of) /\ (drag.moved \/ Clear(outputs)))
    BY <1>1 DEF DraftInv, InOrderOrHeld
  <2>2. OthersClear(outputs, drag.of) => Clear(Dropped(x, y)) BY <1>1, <1>2, DropIsClear
  <2>3. CASE excused BY <1>4, <2>3
  <2>4. CASE ~excused BY <1>4, <2>1, <2>2, <2>4
  <2> QED BY <2>3, <2>4
<1>7. DraftTypeOK'
  <2>1. 0 \in 0..Count BY EditorAssumption
  <2>2. drag' \in [of : 0..Count, x : Int, y : Int, moved : BOOLEAN] BY <1>3, <2>1 DEF NoDrag
  <2> QED BY <1>3, <1>5, <2>2 DEF DraftInv, DraftTypeOK, Layouts
<1> QED BY <1>3, <1>6, <1>7 DEF DraftInv, InOrderOrHeld, NoDrag

\* A panel's edit is refused or leaves the draft clear.
LEMMA PanelKeepsInv ==
  ASSUME DraftInv, NEW d \in Displays, NEW o \in Placements, NEW distance, PanelSends(d, o, distance)
  PROVE  DraftInv'
<1> DEFINE r == PanelEdit(outputs, d, o, distance)
<1>1. outputs \in Layouts BY DEF DraftInv, DraftTypeOK, Layouts
<1>2. /\ drag = NoDrag /\ drag' = drag /\ mode' = mode /\ excused' \in BOOLEAN
      /\ edits < MaxEdits /\ edits' = edits + 1 /\ drags' = drags /\ loads' = loads
      /\ outputs' = r /\ excused' = (excused /\ ~Clear(r))
  BY DEF PanelSends, EditsDraft, Becomes, DraftInv, DraftTypeOK
<1>3. r = outputs \/ (r \in Layouts /\ Clear(r)) BY <1>1, PanelEditClears
<1> HIDE DEF r
<1>4. DraftTypeOK' BY <1>1, <1>2, <1>3, EditorAssumption DEF DraftInv, DraftTypeOK, Layouts
<1>5. excused \/ Clear(outputs) BY <1>2 DEF DraftInv, InOrderOrHeld
<1>6. excused' \/ Clear(outputs') BY <1>2, <1>3, <1>5
<1> QED BY <1>2, <1>4, <1>6 DEF DraftInv, InOrderOrHeld

\* A draft starts in order, or excused.
LEMMA DraftInvStarts ==
  ASSUME DraftInit
  PROVE  DraftInv
<1>1. PICK layout \in Arrangements : Opened(layout) BY DEF DraftInit
<1>2. outputs \in Layouts /\ excused = ~Clear(outputs)
  BY <1>1, EditorAssumption DEF Opened, Layouts
<1>3. 0 \in 0..Count /\ 0 \in 0..MaxEdits /\ 0 \in 0..MaxDrags /\ 0 \in 0..MaxLoads BY EditorAssumption
<1>4. drag \in [of : 0..Count, x : Int, y : Int, moved : BOOLEAN] BY <1>3 DEF DraftInit, NoDrag
<1>5. DraftTypeOK BY <1>2, <1>3, <1>4 DEF DraftInit, DraftTypeOK, Layouts
<1> QED BY <1>2, <1>5 DEF DraftInit, DraftInv, InOrderOrHeld

\* A layout that is loaded is in order, or excused.
LEMMA LoadKeepsInv ==
  ASSUME DraftInv, NEW layout \in Arrangements, Loads(layout)
  PROVE  DraftInv'
<1>1. /\ outputs' = layout /\ excused' = ~Clear(layout) /\ drag' = NoDrag /\ mode' = "main"
      /\ edits' = edits /\ drags' = drags /\ loads < MaxLoads /\ loads' = loads + 1
  BY DEF Loads
<1>2. layout \in Layouts BY EditorAssumption DEF Layouts
<1>3. DraftTypeOK'
  <2>1. 0 \in 0..Count BY EditorAssumption
  <2>2. drag' \in [of : 0..Count, x : Int, y : Int, moved : BOOLEAN] BY <1>1, <2>1 DEF NoDrag
  <2> QED BY <1>1, <1>2, <2>2, EditorAssumption DEF DraftInv, DraftTypeOK, Layouts
<1> QED BY <1>1, <1>3 DEF DraftInv, InOrderOrHeld, NoDrag

\* Every step keeps the invariant,
LEMMA DraftInvStays ==
  ASSUME DraftInv, DraftNext
  PROVE  DraftInv'
<1>1. StepKind BY StepKinds DEF DraftInv, DraftTypeOK, Layouts
<1>2. CASE DialogOpens BY <1>2 DEF DialogOpens, DraftInv, DraftTypeOK, InOrderOrHeld
<1>3. CASE ClosesDialog BY <1>3 DEF ClosesDialog, DraftInv, DraftTypeOK, InOrderOrHeld
<1>4. CASE \E d \in Displays, o \in Placements : InspectorEdits(d, o)
  BY <1>4, EditKeepsInv DEF InspectorEdits
<1>5. CASE \E d \in Displays, x, y \in Int : Places(d, x, y) BY <1>5, PlaceKeepsInv
<1>6. CASE \E d \in Displays : Presses(d) \/ PressesHidden(d)
  BY <1>6, PressKeepsInv, HiddenPressKeepsInv
<1>7. CASE \E x, y \in Int : Drags(x, y) \/ Releases(x, y) BY <1>7, DragKeepsInv, ReleaseKeepsInv
<1>8. CASE \E layout \in Arrangements : Loads(layout) BY <1>8, LoadKeepsInv
<1>9. CASE \E d \in Displays, o \in Placements : PanelSendsEdit(d, o, 0) \/ PanelSendsEdit(d, o, 1)
  BY <1>9, PanelKeepsInv DEF PanelSendsEdit
<1> QED BY <1>1, <1>2, <1>3, <1>4, <1>5, <1>6, <1>7, <1>8, <1>9 DEF StepKind

\* so that it holds always.
LEMMA DraftInvHolds == DraftSpec => []DraftInv
<1>1. DraftInit => DraftInv BY DraftInvStarts
<1>2. DraftInv /\ [DraftNext]_draftVars => DraftInv'
  <2>1. CASE DraftNext BY <2>1, DraftInvStays
  <2>2. CASE UNCHANGED draftVars
    BY <2>2 DEF draftVars, DraftInv, DraftTypeOK, InOrderOrHeld
  <2> QED BY <2>1, <2>2
<1> QED BY <1>1, <1>2, PTL DEF DraftSpec

\* The draft has a place, a size and a rotation for each display, whatever is edited.
THEOREM DraftIsTyped == DraftSpec => []DraftTypeOK
<1>1. DraftInv => DraftTypeOK BY DEF DraftInv
<1> QED BY <1>1, DraftInvHolds, PTL

\* Whatever is edited, dragged, loaded or sent by a panel, for any displays, sizes and
\* coordinates: no display lies on another (ResolveLayoutOverlaps, dragRelease).
THEOREM DraftIsAlwaysClear == DraftSpec => []DraftIsClear
<1>1. DraftInv => DraftIsClear BY DEF DraftInv, InOrderOrHeld, DraftIsClear
<1> QED BY <1>1, DraftInvHolds, PTL

-----------------------------------------------------------------------------
SameSizes ==
  \A e \in Displays :
    Width(outputs'[e]) = Width(outputs[e]) /\ Height(outputs'[e]) = Height(outputs[e])

MovesOnly(d) ==
  \A e \in Displays \ {d} : outputs'[e].x = outputs[e].x /\ outputs'[e].y = outputs[e].y

\* An inspector edit that resizes nothing moves its display alone,
LEMMA EditsOne ==
  ASSUME outputs \in Layouts, Clear(outputs), SameSizes,
         NEW d \in Displays, NEW o \in Placements, Sets(d, o)
  PROVE  MovesOnly(d)
<1> DEFINE put == [outputs EXCEPT ![d] = o]
           r == Edited(outputs, d, o, DraftOrder)
<1>1. outputs' = r BY DEF Sets, Becomes
<1>2. /\ AllAsBefore(r, put) /\ put[d] = o
      /\ OthersClear(outputs, d) /\ Width(o) = Width(outputs[d]) /\ Height(o) = Height(outputs[d]) =>
           \A e \in Displays \ {d} : r[e] = outputs[e]
  BY DraftOrderCovers, EditClears DEF Layouts
<1> HIDE DEF r, put
<1>3. Width(o) = Width(outputs[d]) /\ Height(o) = Height(outputs[d])
  BY <1>1, <1>2 DEF SameSizes, AllAsBefore, AsBefore
<1> QED BY <1>1, <1>2, <1>3, ClearOthers DEF MovesOnly

\* and so does a panel's.
LEMMA PanelEditsOne ==
  ASSUME outputs \in Layouts, Clear(outputs), SameSizes,
         NEW d \in Displays, NEW o \in Placements, NEW distance, PanelSends(d, o, distance)
  PROVE  MovesOnly(d)
<1> DEFINE n == RememberUpright(outputs[d], o)
           put == [outputs EXCEPT ![d] = n]
           r == PanelEdit(outputs, d, o, distance)
<1>1. outputs' = r BY DEF PanelSends, Becomes
<1>2. /\ put[d] = n
      /\ \/ r = outputs
         \/ /\ AllAsBefore(r, put)
            /\ OthersClear(outputs, d) /\ Width(n) = Width(outputs[d]) /\ Height(n) = Height(outputs[d]) =>
                 \A e \in Displays \ {d} : r[e] = outputs[e]
  <2>1. put[d] = n BY DEF Layouts
  <2> QED BY <2>1, PanelEditClears
<1> HIDE DEF r, put, n
<1>3. CASE r = outputs BY <1>1, <1>3 DEF MovesOnly
<1>4. CASE r # outputs
  <2>1. Width(n) = Width(outputs[d]) /\ Height(n) = Height(outputs[d])
    BY <1>1, <1>2, <1>4 DEF SameSizes, AllAsBefore, AsBefore
  <2> QED BY <1>1, <1>2, <1>4, <2>1, ClearOthers DEF MovesOnly
<1> QED BY <1>3, <1>4

\* Hence every step of a clear draft that resizes nothing moves one display.
LEMMA StepsMoveOne ==
  ASSUME DraftInv, DraftNext
  PROVE  OthersStay
<1> SUFFICES ASSUME Clear(outputs), drag = NoDrag, loads' = loads, SameSizes
             PROVE  \E d \in Displays : MovesOnly(d)
  BY DEF OthersStay, SameSizes, MovesOnly
<1>0. outputs \in Layouts BY DEF DraftInv, DraftTypeOK, Layouts
<1>1. StepKind BY <1>0, StepKinds
<1>2. CASE DialogOpens BY <1>2 DEF DialogOpens
<1>3. CASE ClosesDialog BY <1>3 DEF ClosesDialog, DraftInv
<1>4. ASSUME NEW d \in Displays, NEW o \in Placements, InspectorEdits(d, o)
      PROVE  MovesOnly(d)
  BY <1>0, <1>4, EditsOne DEF InspectorEdits
<1>5. ASSUME NEW d \in Displays, NEW x \in Int, NEW y \in Int, Places(d, x, y)
      PROVE  MovesOnly(d)
  <2> DEFINE r == MoveOutput(outputs, d, x, y, 0, DraftOrder)
  <2>1. outputs' = r BY <1>5 DEF Places, Becomes
  <2>2. OthersClear(outputs, d) BY ClearOthers
  <2>3. \A e \in Displays \ {d} : r[e] = outputs[e]
    BY <1>0, <2>2, DraftOrderCovers, MoveClears
  <2> HIDE DEF r
  <2> QED BY <2>1, <2>3 DEF MovesOnly
<1>6. ASSUME NEW d \in Displays, Presses(d) \/ PressesHidden(d) PROVE MovesOnly(d)
  <2>1. outputs' = outputs BY <1>6 DEF Presses, PressesHidden
  <2> QED BY <2>1 DEF MovesOnly
<1>7. CASE \E x, y \in Int : Drags(x, y) \/ Releases(x, y) BY <1>7 DEF Drags, Releases
<1>8. CASE \E layout \in Arrangements : Loads(layout)
  BY <1>8 DEF Loads, DraftInv, DraftTypeOK
<1>9. ASSUME NEW d \in Displays, NEW o \in Placements, PanelSendsEdit(d, o, 0) \/ PanelSendsEdit(d, o, 1)
      PROVE  MovesOnly(d)
  BY <1>0, <1>9, PanelEditsOne DEF PanelSendsEdit
<1> QED BY <1>1, <1>2, <1>3, <1>4, <1>5, <1>6, <1>7, <1>8, <1>9 DEF StepKind

\* A display of a row that an edit resizes where it stands carries what is right of it along.
LEMMA EditKeepsGaps ==
  ASSUME outputs \in Layouts, InARow(outputs), \A e \in Displays : Reflowable(outputs[e]),
         NEW c \in Displays, NEW o \in Placements, NEW order \in Orders, Covers(order),
         outputs' = Edited(outputs, c, o, order),
         \/ o.x = outputs[c].x /\ o.y = outputs[c].y
         \/ Width(o) = Width(outputs[c]) /\ Height(o) = Height(outputs[c]),
         NEW d \in Displays, Width(outputs'[d]) # Width(outputs[d]),
         \A e \in Displays : Reflowable(outputs'[e])
  PROVE  \A e \in Displays : outputs[e].x >= Box(outputs[d]).right =>
           outputs'[e].x - Box(outputs'[d]).right = outputs[e].x - Box(outputs[d]).right
<1> DEFINE put == [outputs EXCEPT ![c] = o]
           r == Edited(outputs, c, o, order)
<1>1. AllAsBefore(r, put) BY EditClears
<1>2. put[c] = o /\ \A e \in Displays \ {c} : put[e] = outputs[e] BY DEF Layouts
<1>3. outputs' = r OBVIOUS
<1> HIDE DEF r, put
<1>4. c = d BY <1>1, <1>2, <1>3 DEF AllAsBefore, AsBefore
<1>5. Width(o) # Width(outputs[d]) /\ Reflowable(o)
  BY <1>1, <1>2, <1>3, <1>4 DEF AllAsBefore, AsBefore
<1>6. o.x = outputs[d].x /\ o.y = outputs[d].y BY <1>4, <1>5
<1>7. \A e \in Displays : outputs[e].x >= Box(outputs[d]).right =>
        r[e].x - Box(r[d]).right = outputs[e].x - Box(outputs[d]).right
  BY <1>4, <1>5, <1>6, RowIsKept DEF r
<1> QED BY <1>3, <1>7

\* Hence every step of a draft in a row keeps the gaps right of what it resizes.
LEMMA StepsKeepGaps ==
  ASSUME DraftInv, DraftNext
  PROVE  RowKeepsItsGaps
<1> SUFFICES ASSUME NEW d \in Displays,
                    drag = NoDrag, loads' = loads, Width(outputs'[d]) # Width(outputs[d]),
                    \A e \in Displays : Reflowable(outputs[e]) /\ Reflowable(outputs'[e]),
                    InARow(outputs)
             PROVE  \A e \in Displays : outputs[e].x >= Box(outputs[d]).right =>
                      outputs'[e].x - Box(outputs'[d]).right = outputs[e].x - Box(outputs[d]).right
  BY DEF RowKeepsItsGaps, InARow
<1> DEFINE GapsStay == \A e \in Displays : outputs[e].x >= Box(outputs[d]).right =>
                     outputs'[e].x - Box(outputs'[d]).right = outputs[e].x - Box(outputs[d]).right
<1>0. outputs \in Layouts BY DEF DraftInv, DraftTypeOK, Layouts
<1>1. StepKind BY <1>0, StepKinds
<1>2. outputs' # outputs OBVIOUS
<1>3. CASE DialogOpens \/ ClosesDialog BY <1>2, <1>3 DEF DialogOpens, ClosesDialog
<1>4. ASSUME NEW c \in Displays, NEW o \in Placements, InspectorEdits(c, o) PROVE GapsStay
  <2>1. outputs' = Edited(outputs, c, o, DraftOrder) BY <1>4 DEF InspectorEdits, Sets, Becomes
  <2>2. \/ o.x = outputs[c].x /\ o.y = outputs[c].y
        \/ Width(o) = Width(outputs[c]) /\ Height(o) = Height(outputs[c])
    BY <1>4 DEF InspectorEdits
  <2> QED BY <1>0, <2>1, <2>2, DraftOrderCovers, EditKeepsGaps
<1>5. ASSUME NEW c \in Displays, NEW x \in Int, NEW y \in Int, Places(c, x, y) PROVE FALSE
  <2> DEFINE r == MoveOutput(outputs, c, x, y, 0, DraftOrder)
  <2>1. AllAsBefore(r, outputs) BY <1>0, DraftOrderCovers, MoveClears
  <2>2. outputs' = r BY <1>5 DEF Places, Becomes
  <2> HIDE DEF r
  <2> QED BY <2>1, <2>2 DEF AllAsBefore, AsBefore
<1>6. CASE \E c \in Displays : Presses(c) \/ PressesHidden(c)
  BY <1>2, <1>6 DEF Presses, PressesHidden
<1>7. CASE \E x, y \in Int : Drags(x, y) \/ Releases(x, y) BY <1>7 DEF Drags, Releases
<1>8. CASE \E layout \in Arrangements : Loads(layout)
  BY <1>8 DEF Loads, DraftInv, DraftTypeOK
<1>9. ASSUME NEW c \in Displays, NEW o \in Placements, PanelSendsEdit(c, o, 0) \/ PanelSendsEdit(c, o, 1)
      PROVE  GapsStay
  <2> DEFINE n == RememberUpright(outputs[c], o)
             order == SortedOrder(outputs)
             put == [outputs EXCEPT ![c] = n]
  <2>1. order \in Orders /\ Covers(order) BY SortedOrderCovers
  <2>2. n \in Placements
    <3>1. outputs[c] \in Placements BY <1>0 DEF Layouts
    <3> QED BY <3>1, UprightIsTyped
  <2>3. put[c] = n /\ \A e \in Displays \ {c} : put[e] = outputs[e] BY <1>0 DEF Layouts
  <2>4. CASE PanelSendsEdit(c, o, 0)
    <3>1. outputs' = PanelEdit(outputs, c, o, 0) BY <2>4 DEF PanelSendsEdit, PanelSends, Becomes
    <3>2. outputs' = Edited(outputs, c, n, order)
      <4>1. \/ PanelEdit(outputs, c, o, 0) = outputs
            \/ ~(0 > 0) => PanelEdit(outputs, c, o, 0) = Edited(outputs, c, n, order)
        <5> HIDE DEF put
        <5> QED BY <1>0, PanelEditClears, Zenon
      <4>2. ~(0 > 0) OBVIOUS
      <4> HIDE DEF n, order, put
      <4> QED BY <1>2, <3>1, <4>1, <4>2
    <3>3. \/ n.x = outputs[c].x /\ n.y = outputs[c].y
          \/ Width(n) = Width(outputs[c]) /\ Height(n) = Height(outputs[c])
      BY <2>4 DEF PanelSendsEdit
    <3> HIDE DEF n, order
    <3> QED BY <1>0, <2>1, <2>2, <3>2, <3>3, EditKeepsGaps
  <2>5. CASE PanelSendsEdit(c, o, 1)
    <3>1. outputs' = PanelEdit(outputs, c, o, 1) BY <2>5 DEF PanelSendsEdit, PanelSends, Becomes
    <3>2. AllAsBefore(outputs', put) BY <1>0, <1>2, <3>1, PanelEditClears
    <3>3. Width(n) = Width(outputs[c])
      BY <2>5 DEF PanelSendsEdit
    <3> HIDE DEF n, put
    <3> QED BY <2>3, <3>2, <3>3 DEF AllAsBefore, AsBefore
  <2> QED BY <1>9, <2>4, <2>5
<1> QED BY <1>1, <1>3, <1>4, <1>5, <1>6, <1>7, <1>8, <1>9 DEF StepKind

\* Whatever is edited: an edit that resizes nothing moves the edited display alone, and
\* one that resizes a display of a row moves what is right of it by as much
\* (ReflowAfterResize, ResolveLayoutOverlaps).
THEOREM EditsStayLocal == DraftSpec => EditsAreLocal
<1>1. DraftInv /\ [DraftNext]_draftVars => [OthersStay /\ RowKeepsItsGaps]_draftVars
  BY StepsMoveOne, StepsKeepGaps
<1> QED BY <1>1, DraftInvHolds, PTL DEF DraftSpec, EditsAreLocal

=============================================================================
