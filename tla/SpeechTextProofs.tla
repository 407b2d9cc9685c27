-------------------------- MODULE SpeechTextProofs --------------------------
(***************************************************************************)
(* BuildSSML, for a document of any length: the SSML it makes has its tags *)
(* closed in the order of nesting, a say-as of BuildSSML's has no tag      *)
(* inside, and an Edge voice gets no tag but those it takes.  What has to  *)
(* be known between two fragments is Ready: the flags say which tags are   *)
(* open (Consistent), and none is left open inside which the next fragment *)
(* would open one that belongs outside.  And a service that is not an Edge *)
(* voice finds one bookmark in it for each in the list of BuildSSML.       *)
(* Last, the offset mappings lead from each piece of the SSML back to its  *)
(* text (Located), and MapTextOffset makes the range of it.                *)
(*                                                                         *)
(* BuildSSML and its parts are loops over a sequence, here functions on    *)
(* 0 .. n.  That there is such a function is Recursion, and what holds for *)
(* all of it is Stays and Induct; they rest on Least.                      *)
(***************************************************************************)
EXTENDS SpeechText, SequenceTheorems, WellFoundedInduction, NaturalsInduction, FiniteSetTheorems, TLAPS

\* Every set of numbers has a least one.
LEMMA Least ==
  ASSUME NEW S, S \subseteq Nat, S # {}
  PROVE  \E x \in S : \A y \in S : x <= y
<1>1. PICK x \in S : \A y \in S : ~(<<y, x>> \in OpToRel(<, Nat))
  BY NatLessThanWellFounded, WFMin
<1>2. \A y \in S : ~(y < x)
  BY <1>1 DEF OpToRel
<1> QED
  BY <1>2

\* What holds for 0 and goes on to the next number holds up to n.
LEMMA Induct ==
  ASSUME NEW n \in Nat, NEW S, 0 \in S, \A i \in 0 .. n - 1 : i \in S => i + 1 \in S
  PROVE  \A i \in 0 .. n : i \in S
<1> SUFFICES ASSUME \E i \in 0 .. n : i \notin S PROVE FALSE
  OBVIOUS
<1> DEFINE B == {i \in 0 .. n : i \notin S}
<1>0. B \subseteq Nat /\ B # {}
  OBVIOUS
<1>1. PICK b \in B : \A c \in B : b <= c
  <2> HIDE DEF B
  <2> QED
    BY <1>0, Least
<1>2. b # 0 /\ b - 1 \in 0 .. n - 1 /\ b - 1 \notin B
  BY <1>1
<1> QED
  BY <1>2

\* The functions on 0 .. n that begin with base and go on with step.
Runs(V, n, base, step) ==
    {f \in [0 .. n -> V] : f[0] = base /\ \A i \in 1 .. n : f[i] = step[i][f[i - 1]]}

\* There is one.
LEMMA Recursion ==
  ASSUME NEW V, NEW n \in Nat, NEW base \in V, NEW step \in [1 .. n -> [V -> V]]
  PROVE  Runs(V, n, base, step) # {}
<1> DEFINE Good(k) == {f \in [0 .. k -> V] :
                         f[0] = base /\ \A i \in 1 .. k : f[i] = step[i][f[i - 1]]}
           S == {k \in 0 .. n : Good(k) # {}}
<1>1. 0 \in S
  <2> DEFINE f == [i \in 0 .. 0 |-> base]
  <2>1. f \in [0 .. 0 -> V] /\ f[0] = base
    OBVIOUS
  <2>2. f \in Good(0)
    <3> HIDE DEF f
    <3> QED
      BY <2>1
  <2> HIDE DEF Good, f
  <2> QED
    BY <2>2
<1>2. ASSUME NEW k \in 0 .. n - 1, k \in S PROVE k + 1 \in S
  <2>1. PICK f \in [0 .. k -> V] :
           f[0] = base /\ \A i \in 1 .. k : f[i] = step[i][f[i - 1]]
    BY <1>2
  <2> DEFINE x == step[k + 1][f[k]]
             g == [i \in 0 .. k + 1 |-> IF i = k + 1 THEN x ELSE f[i]]
  <2>2. x \in V
    <3>1. f[k] \in V /\ k + 1 \in 1 .. n
      OBVIOUS
    <3> QED
      BY <3>1
  <2>3. g \in [0 .. k + 1 -> V]
    <3> HIDE DEF x
    <3> QED
      BY <2>2
  <2>4. /\ g[k + 1] = x /\ \A i \in 0 .. k : g[i] = f[i]
    OBVIOUS
  <2>5. \A i \in 1 .. k + 1 : g[i] = step[i][g[i - 1]]
    <3> SUFFICES ASSUME NEW i \in 1 .. k + 1 PROVE g[i] = step[i][g[i - 1]]
      OBVIOUS
    <3> HIDE DEF g
    <3>1. CASE i = k + 1
      BY <2>4, <3>1
    <3>2. CASE i \in 1 .. k
      BY <2>1, <2>4, <3>2
    <3> QED
      BY <3>1, <3>2
  <2>6. g \in Good(k + 1)
    <3>1. g[0] = base
      BY <2>1, <2>4
    <3> HIDE DEF g
    <3> QED
      BY <2>3, <2>5, <3>1
  <2> HIDE DEF Good
  <2> QED
    BY <2>6
<1>3. n \in S
  <2> HIDE DEF S, Good
  <2>1. \A k \in 0 .. n : k \in S
    BY <1>1, <1>2, Induct
  <2> QED
    BY <2>1
<1> QED
  BY <1>3 DEF Runs

\* Its values have the type of what each step makes.
LEMMA Stays ==
  ASSUME NEW V, NEW n \in Nat, NEW f, f = [i \in DOMAIN f |-> f[i]], DOMAIN f = 0 .. n,
         f[0] \in V, \A i \in 1 .. n : f[i - 1] \in V => f[i] \in V
  PROVE  f \in [0 .. n -> V]
<1> DEFINE S == {i \in 0 .. n : f[i] \in V}
<1>1. 0 \in S
  OBVIOUS
<1>2. ASSUME NEW i \in 0 .. n - 1, i \in S PROVE i + 1 \in S
  <2>1. i + 1 \in 1 .. n /\ (i + 1) - 1 = i
    OBVIOUS
  <2>2. f[(i + 1) - 1] \in V => f[i + 1] \in V
    BY <2>1
  <2> QED
    BY <1>2, <2>1, <2>2
<1>3. \A i \in 0 .. n : i \in S
  <2> HIDE DEF S
  <2> QED
    BY <1>1, <1>2, Induct
<1> QED
  BY <1>3

Strings == STRING \cup {"none", "open", "close", "self", "a", "<", ">", " ", "&", ";", "mismatch",
                        "speak", "voice", "prosody", "emphasis", "say-as", "phoneme", "break", "bookmark"}
Tags  == [dir : Strings, name : Strings]
Cells == [ch : Strings, from : Int, tag : Tags]

LEMMA Literals ==
  /\ {"none", "open", "close", "self", "a", "<", ">", " ", "&", ";", "mismatch"} \subseteq Strings
  /\ {"speak", "voice", "prosody", "emphasis", "say-as", "phoneme", "break", "bookmark"} \subseteq Strings
BY DEF Strings

LEMMA MadeCell == ASSUME NEW c \in Strings PROVE Made(c) \in Cells
<1>1. "none" \in Strings
  BY DEF Strings
<1> QED
  BY <1>1 DEF Made, Cells, Tags, NoTag, NoOffset

LEMMA TagCells ==
  ASSUME NEW d \in Strings, NEW m \in Strings
  PROVE  Tag(d, m) \in Seq(Cells)
<1>1. "<" \in Strings /\ ">" \in Strings /\ "a" \in Strings
  BY DEF Strings
<1>2. Made("<") \in Cells /\ Made(">") \in Cells /\ Made("a") \in Cells
  BY <1>1, MadeCell
<1>3. [Made("a") EXCEPT !.tag = [dir |-> d, name |-> m]] \in Cells
  BY <1>2 DEF Cells, Tags
<1> QED
  BY <1>2, <1>3 DEF Tag

LEMMA OpeningIs ==
  ASSUME NEW names \in Seq(Strings)
  PROVE  \E f \in [0 .. Len(names) -> Seq(Cells)] :
           /\ f[0] = <<>> /\ Opening(names) = f[Len(names)]
           /\ \A i \in 1 .. Len(names) : f[i] = f[i - 1] \o Tag("open", names[i])
<1>0. \A i \in 1 .. Len(names) : Tag("open", names[i]) \in Seq(Cells)
  <2>1. "open" \in Strings
    BY Literals
  <2>2. \A i \in 1 .. Len(names) : names[i] \in Strings
    OBVIOUS
  <2> QED
    BY <2>1, <2>2, TagCells
<1>a. \A v \in Seq(Cells), i \in 1 .. Len(names) : v \o Tag("open", names[i]) \in Seq(Cells)
  BY <1>0
<1>b. PICK n \in Nat : n = Len(names)
  OBVIOUS
<1> DEFINE V == Seq(Cells)
           base == <<>>
           step == [i \in 1 .. n |-> [v \in V |-> v \o Tag("open", names[i])]]
           is(f) == f = [i \in 0 .. Len(names) |-> IF i = 0 THEN <<>> ELSE f[i - 1] \o Tag("open", names[i])]
           F == CHOOSE f : is(f)
<1>1. base \in V /\ step \in [1 .. n -> [V -> V]]
  BY <1>a, <1>b
<1>2. PICK f \in Runs(V, n, base, step) : TRUE
  <2> HIDE DEF V, base, step, is, F
  <2> QED
    BY <1>1, Recursion
<1>3. is(f)
  <2>1. f \in [0 .. n -> V] /\ f[0] = base /\ \A i \in 1 .. n : f[i - 1] \in V /\ f[i] = step[i][f[i - 1]]
    <3> HIDE DEF V, base, step, is, F
    <3>1. f \in [0 .. n -> V] /\ f[0] = base /\ \A i \in 1 .. n : f[i] = step[i][f[i - 1]]
      BY DEF Runs
    <3>2. \A i \in 1 .. n : i - 1 \in 0 .. n
      OBVIOUS
    <3> QED
      BY <3>1, <3>2
  <2>2. \A i \in 1 .. n : f[i] = f[i - 1] \o Tag("open", names[i])
    <3> HIDE DEF V, is, F
    <3> QED
      BY <2>1
  <2>3. f = [i \in 0 .. n |-> IF i = 0 THEN <<>> ELSE f[i - 1] \o Tag("open", names[i])]
    <3> HIDE DEF V, step, is, F
    <3> QED
      BY <2>1, <2>2
  <2> QED
    BY <2>3, <1>b
<1>4. is(F)
  <2> HIDE DEF is
  <2> QED
    BY <1>3
<1>5. Opening(names) = F[n]
  BY <1>b DEF Opening
<1>6. DOMAIN F = 0 .. n /\ F = [i \in DOMAIN F |-> F[i]] /\ F[0] = <<>>
      /\ \A i \in 1 .. n : F[i] = F[i - 1] \o Tag("open", names[i])
  <2> HIDE DEF F, V, base, step
  <2>1. F = [i \in 0 .. n |-> IF i = 0 THEN <<>> ELSE F[i - 1] \o Tag("open", names[i])]
    BY <1>4, <1>b
  <2> HIDE DEF is
  <2> QED
    BY <2>1
<1>7. F \in [0 .. n -> V]
  <2>1. ASSUME NEW i \in 1 .. n, F[i - 1] \in V PROVE F[i] \in V
    <3>1. F[i] = F[i - 1] \o Tag("open", names[i])
      BY <1>6
    <3> HIDE DEF F, is
    <3> QED
      BY <1>a, <1>b, <2>1, <3>1
  <2>2. F[0] \in V
    BY <1>1, <1>6
  <2> HIDE DEF V, F
  <2> QED
    BY <1>6, <2>1, <2>2, Stays
<1> HIDE DEF F
<1> QED
  BY <1>b, <1>5, <1>6, <1>7

LEMMA ClosingIs ==
  ASSUME NEW names \in Seq(Strings)
  PROVE  \E f \in [0 .. Len(names) -> Seq(Cells)] :
           /\ f[0] = <<>> /\ Closing(names) = f[Len(names)]
           /\ \A i \in 1 .. Len(names) : f[i] = Tag("close", names[i]) \o f[i - 1]
<1>0. \A i \in 1 .. Len(names) : Tag("close", names[i]) \in Seq(Cells)
  <2>1. "close" \in Strings
    BY Literals
  <2>2. \A i \in 1 .. Len(names) : names[i] \in Strings
    OBVIOUS
  <2> QED
    BY <2>1, <2>2, TagCells
<1>a. \A v \in Seq(Cells), i \in 1 .. Len(names) : Tag("close", names[i]) \o v \in Seq(Cells)
  BY <1>0
<1>b. PICK n \in Nat : n = Len(names)
  OBVIOUS
<1> DEFINE V == Seq(Cells)
           base == <<>>
           step == [i \in 1 .. n |-> [v \in V |-> Tag("close", names[i]) \o v]]
           is(f) == f = [i \in 0 .. Len(names) |-> IF i = 0 THEN <<>> ELSE Tag("close", names[i]) \o f[i - 1]]
           F == CHOOSE f : is(f)
<1>1. base \in V /\ step \in [1 .. n -> [V -> V]]
  BY <1>a, <1>b
<1>2. PICK f \in Runs(V, n, base, step) : TRUE
  <2> HIDE DEF V, base, step, is, F
  <2> QED
    BY <1>1, Recursion
<1>3. is(f)
  <2>1. f \in [0 .. n -> V] /\ f[0] = base /\ \A i \in 1 .. n : f[i - 1] \in V /\ f[i] = step[i][f[i - 1]]
    <3> HIDE DEF V, base, step, is, F
    <3>1. f \in [0 .. n -> V] /\ f[0] = base /\ \A i \in 1 .. n : f[i] = step[i][f[i - 1]]
      BY DEF Runs
    <3>2. \A i \in 1 .. n : i - 1 \in 0 .. n
      OBVIOUS
    <3> QED
      BY <3>1, <3>2
  <2>2. \A i \in 1 .. n : f[i] = Tag("close", names[i]) \o f[i - 1]
    <3> HIDE DEF V, is, F
    <3> QED
      BY <2>1
  <2>3. f = [i \in 0 .. n |-> IF i = 0 THEN <<>> ELSE Tag("close", names[i]) \o f[i - 1]]
    <3> HIDE DEF V, step, is, F
    <3> QED
      BY <2>1, <2>2
  <2> QED
    BY <2>3, <1>b
<1>4. is(F)
  <2> HIDE DEF is
  <2> QED
    BY <1>3
<1>5. Closing(names) = F[n]
  BY <1>b DEF Closing
<1>6. DOMAIN F = 0 .. n /\ F = [i \in DOMAIN F |-> F[i]] /\ F[0] = <<>>
      /\ \A i \in 1 .. n : F[i] = Tag("close", names[i]) \o F[i - 1]
  <2> HIDE DEF F, V, base, step
  <2>1. F = [i \in 0 .. n |-> IF i = 0 THEN <<>> ELSE Tag("close", names[i]) \o F[i - 1]]
    BY <1>4, <1>b
  <2> HIDE DEF is
  <2> QED
    BY <2>1
<1>7. F \in [0 .. n -> V]
  <2>1. ASSUME NEW i \in 1 .. n, F[i - 1] \in V PROVE F[i] \in V
    <3>1. F[i] = Tag("close", names[i]) \o F[i - 1]
      BY <1>6
    <3> HIDE DEF F, is
    <3> QED
      BY <1>a, <1>b, <2>1, <3>1
  <2>2. F[0] \in V
    BY <1>1, <1>6
  <2> HIDE DEF V, F
  <2> QED
    BY <1>6, <2>1, <2>2, Stays
<1> HIDE DEF F
<1> QED
  BY <1>b, <1>5, <1>6, <1>7

LEMMA PushedType ==
  ASSUME NEW stack \in Seq(Strings), NEW tag \in Tags
  PROVE  Pushed(stack, tag) \in Seq(Strings)
<1>1. tag.name \in Strings /\ "mismatch" \in Strings
  BY Literals DEF Tags
<1>2. Append(stack, tag.name) \in Seq(Strings) /\ Append(stack, "mismatch") \in Seq(Strings)
  BY <1>1
<1>3. stack # <<>> => Front(stack) \in Seq(Strings)
  BY DEF Front
<1> QED
  BY <1>2, <1>3 DEF Pushed

LEMMA OpenTagsIs ==
  ASSUME NEW ssml \in Seq(Cells)
  PROVE  \E f \in [0 .. Len(ssml) -> Seq(Strings)] :
           /\ f[0] = <<>> /\ OpenTags(ssml) = f[Len(ssml)]
           /\ \A i \in 1 .. Len(ssml) : f[i] = Pushed(f[i - 1], ssml[i].tag)
<1>0. \A i \in 1 .. Len(ssml) : ssml[i].tag \in Tags
  <2>1. \A i \in 1 .. Len(ssml) : ssml[i] \in Cells
    OBVIOUS
  <2> QED
    BY <2>1 DEF Cells
<1>a. \A v \in Seq(Strings), i \in 1 .. Len(ssml) : Pushed(v, ssml[i].tag) \in Seq(Strings)
  BY <1>0, PushedType
<1>b. PICK n \in Nat : n = Len(ssml)
  OBVIOUS
<1> DEFINE V == Seq(Strings)
           base == <<>>
           step == [i \in 1 .. n |-> [v \in V |-> Pushed(v, ssml[i].tag)]]
           is(f) == f = [i \in 0 .. Len(ssml) |-> IF i = 0 THEN <<>> ELSE Pushed(f[i - 1], ssml[i].tag)]
           F == CHOOSE f : is(f)
<1>1. base \in V /\ step \in [1 .. n -> [V -> V]]
  BY <1>a, <1>b
<1>2. PICK f \in Runs(V, n, base, step) : TRUE
  <2> HIDE DEF V, base, step, is, F
  <2> QED
    BY <1>1, Recursion
<1>3. is(f)
  <2>1. f \in [0 .. n -> V] /\ f[0] = base /\ \A i \in 1 .. n : f[i - 1] \in V /\ f[i] = step[i][f[i - 1]]
    <3> HIDE DEF V, base, step, is, F
    <3>1. f \in [0 .. n -> V] /\ f[0] = base /\ \A i \in 1 .. n : f[i] = step[i][f[i - 1]]
      BY DEF Runs
    <3>2. \A i \in 1 .. n : i - 1 \in 0 .. n
      OBVIOUS
    <3> QED
      BY <3>1, <3>2
  <2>2. \A i \in 1 .. n : f[i] = Pushed(f[i - 1], ssml[i].tag)
    <3> HIDE DEF V, is, F
    <3> QED
      BY <2>1
  <2>3. f = [i \in 0 .. n |-> IF i = 0 THEN <<>> ELSE Pushed(f[i - 1], ssml[i].tag)]
    <3> HIDE DEF V, step, is, F
    <3> QED
      BY <2>1, <2>2
  <2> QED
    BY <2>3, <1>b
<1>4. is(F)
  <2> HIDE DEF is
  <2> QED
    BY <1>3
<1>5. OpenTags(ssml) = F[n]
  BY <1>b DEF OpenTags
<1>6. DOMAIN F = 0 .. n /\ F = [i \in DOMAIN F |-> F[i]] /\ F[0] = <<>>
      /\ \A i \in 1 .. n : F[i] = Pushed(F[i - 1], ssml[i].tag)
  <2> HIDE DEF F, V, base, step
  <2>1. F = [i \in 0 .. n |-> IF i = 0 THEN <<>> ELSE Pushed(F[i - 1], ssml[i].tag)]
    BY <1>4, <1>b
  <2> HIDE DEF is
  <2> QED
    BY <2>1
<1>7. F \in [0 .. n -> V]
  <2>1. ASSUME NEW i \in 1 .. n, F[i - 1] \in V PROVE F[i] \in V
    <3>1. F[i] = Pushed(F[i - 1], ssml[i].tag)
      BY <1>6
    <3> HIDE DEF F, is
    <3> QED
      BY <1>a, <1>b, <2>1, <3>1
  <2>2. F[0] \in V
    BY <1>1, <1>6
  <2> HIDE DEF V, F
  <2> QED
    BY <1>6, <2>1, <2>2, Stays
<1> HIDE DEF F
<1> QED
  BY <1>b, <1>5, <1>6, <1>7

LEMMA OpenTagsType ==
  ASSUME NEW ssml \in Seq(Cells)
  PROVE  OpenTags(ssml) \in Seq(Strings)
<1>1. PICK f \in [0 .. Len(ssml) -> Seq(Strings)] : OpenTags(ssml) = f[Len(ssml)]
  BY OpenTagsIs
<1>2. Len(ssml) \in 0 .. Len(ssml)
  OBVIOUS
<1> QED
  BY <1>1, <1>2

LEMMA OpenTagsNone == OpenTags(<<>>) = <<>>
<1>1. <<>> \in Seq(Cells) /\ Len(<<>>) = 0
  OBVIOUS
<1> QED
  BY <1>1, OpenTagsIs

\* One more character pushes its tag.
LEMMA OpenTagsAppend ==
  ASSUME NEW s \in Seq(Cells), NEW x \in Cells
  PROVE  OpenTags(Append(s, x)) = Pushed(OpenTags(s), x.tag)
<1> DEFINE t == Append(s, x)
<1>1. /\ t \in Seq(Cells) /\ Len(t) = Len(s) + 1 /\ t[Len(s) + 1] = x
      /\ \A i \in 1 .. Len(s) : t[i] = s[i]
  OBVIOUS
<1>b. PICK n \in Nat : n = Len(s)
  OBVIOUS
<1> HIDE DEF t
<1>2. PICK f \in [0 .. Len(s) -> Seq(Strings)] :
         /\ f[0] = <<>> /\ OpenTags(s) = f[Len(s)]
         /\ \A i \in 1 .. Len(s) : f[i] = Pushed(f[i - 1], s[i].tag)
  BY OpenTagsIs
<1>3. PICK g \in [0 .. Len(t) -> Seq(Strings)] :
         /\ g[0] = <<>> /\ OpenTags(t) = g[Len(t)]
         /\ \A i \in 1 .. Len(t) : g[i] = Pushed(g[i - 1], t[i].tag)
  BY <1>1, OpenTagsIs
<1> DEFINE S == {i \in 0 .. n : f[i] = g[i]}
<1>4. 0 \in S
  BY <1>2, <1>3
<1>5. ASSUME NEW i \in 0 .. n - 1, i \in S PROVE i + 1 \in S
  <2>1. i + 1 \in 1 .. Len(s) /\ i + 1 \in 1 .. Len(t) /\ (i + 1) - 1 = i
    BY <1>1, <1>b
  <2>2. f[i + 1] = Pushed(f[(i + 1) - 1], s[i + 1].tag) /\ g[i + 1] = Pushed(g[(i + 1) - 1], t[i + 1].tag)
    BY <1>2, <1>3, <2>1
  <2>3. f[i] = g[i] /\ t[i + 1] = s[i + 1]
    BY <1>1, <1>5, <2>1
  <2>4. f[i + 1] = g[i + 1]
    BY <2>1, <2>2, <2>3
  <2> QED
    BY <1>b, <2>1, <2>4
<1>6. \A i \in 0 .. n : i \in S
  <2> HIDE DEF S
  <2> QED
    BY <1>4, <1>5, Induct
<1>7. f[n] = g[n]
  BY <1>6
<1>8. n + 1 \in 1 .. Len(t) /\ (n + 1) - 1 = n
  BY <1>1, <1>b
<1>9. g[n + 1] = Pushed(g[(n + 1) - 1], t[n + 1].tag)
  BY <1>3, <1>8
<1> QED
  BY <1>1, <1>2, <1>3, <1>7, <1>8, <1>9, <1>b DEF t

\* A text character pushes nothing, a tag what it says.
LEMMA OpenTagsThree ==
  ASSUME NEW s \in Seq(Cells), NEW x \in Cells, NEW y \in Cells, NEW z \in Cells,
         x.tag = NoTag, z.tag = NoTag
  PROVE  OpenTags(s \o <<x, y, z>>) = Pushed(OpenTags(s), y.tag)
<1>0. \A stack : Pushed(stack, NoTag) = stack
  BY DEF Pushed, NoTag
<1>1. s \o <<x, y, z>> = Append(Append(Append(s, x), y), z)
  OBVIOUS
<1>2. Append(s, x) \in Seq(Cells) /\ Append(Append(s, x), y) \in Seq(Cells)
  OBVIOUS
<1>3. OpenTags(Append(s, x)) = OpenTags(s)
  BY <1>0, OpenTagsAppend
<1>4. OpenTags(Append(Append(s, x), y)) = Pushed(OpenTags(s), y.tag)
  BY <1>2, <1>3, OpenTagsAppend
<1>5. OpenTags(Append(Append(Append(s, x), y), z)) = Pushed(OpenTags(s), y.tag)
  BY <1>0, <1>2, <1>4, OpenTagsAppend
<1> QED
  BY <1>1, <1>5

LEMMA OpenTagsTag ==
  ASSUME NEW s \in Seq(Cells), NEW d \in Strings, NEW m \in Strings
  PROVE  OpenTags(s \o Tag(d, m)) = Pushed(OpenTags(s), [dir |-> d, name |-> m])
<1> DEFINE y == [Made("a") EXCEPT !.tag = [dir |-> d, name |-> m]]
<1>1. Made("<") \in Cells /\ Made(">") \in Cells /\ Made("a") \in Cells
  BY Literals, MadeCell
<1>2. y \in Cells /\ y.tag = [dir |-> d, name |-> m]
  BY <1>1 DEF Cells, Tags
<1>3. Made("<").tag = NoTag /\ Made(">").tag = NoTag
  BY DEF Made
<1>4. Tag(d, m) = <<Made("<"), y, Made(">")>>
  BY DEF Tag
<1> HIDE DEF y
<1> QED
  BY <1>1, <1>2, <1>3, <1>4, OpenTagsThree

-----------------------------------------------------------------------------
Fragments ==
    {f \in [act : Acts, at : Nat, text : Seq(Strings), prosody : Nat, emphasis : BOOLEAN,
            context : Nat, tag : Tags] :
        f.act = "ParseUnknownTag" => f.tag.dir \in {"self", "open", "close", "bad"}}

LEMMA SeqSubset == ASSUME NEW S, NEW T, S \subseteq T PROVE Seq(S) \subseteq Seq(T)
OBVIOUS

LEMMA TextFragments == Seq(TextFrags) \subseteq Seq(Fragments)
<1>1. STRING \subseteq Strings
  BY DEF Strings
<1>2. Seq(STRING) \subseteq Seq(Strings)
  BY <1>1, SeqSubset
<1>3. [dir : STRING, name : STRING] \subseteq Tags
  BY <1>1 DEF Tags
<1>4. TextFrags \subseteq Fragments
  <2>1. SUFFICES ASSUME NEW f \in TextFrags PROVE f \in Fragments
    OBVIOUS
  <2>2. f \in [act : Acts, at : Nat, text : Seq(Strings), prosody : Nat, emphasis : BOOLEAN,
                context : Nat, tag : Tags]
    BY <1>2, <1>3 DEF TextFrags
  <2> QED
    BY <2>2 DEF TextFrags, Fragments
<1> QED
  BY <1>4, SeqSubset

Builders ==
    [edge : BOOLEAN, ssml : Seq(Cells), mappings : Seq([sapi : Int, ssml : Int]),
     bookmarks : Seq(Int), hasText : BOOLEAN, lastSAPIOffset : Int,
     inProsody : BOOLEAN, inEmphasis : BOOLEAN, inSayAs : BOOLEAN,
     customTags : Seq(Strings), inCustomTags : BOOLEAN, prosodyCount : Nat]

\* What BuildSSML remembers of the tags.
Same(b, c) ==
    /\ c.edge = b.edge /\ c.inProsody = b.inProsody /\ c.inEmphasis = b.inEmphasis
    /\ c.inSayAs = b.inSayAs /\ c.customTags = b.customTags
    /\ c.inCustomTags = b.inCustomTags /\ c.prosodyCount = b.prosodyCount

\* Text behind s, and nothing else.
TextAfter(s) ==
    {t \in Seq(Cells) : /\ Len(s) <= Len(t) /\ OpenTags(t) = OpenTags(s)
                        /\ \A i \in 1 .. Len(s) : t[i] = s[i]
                        /\ \A i \in Len(s) + 1 .. Len(t) : t[i].tag = NoTag}
Said(b) == {c \in Builders : Same(b, c) /\ c.ssml \in TextAfter(b.ssml)}

LEMMA WriteType ==
  ASSUME NEW b \in Builders, NEW chars \in Seq(Cells)
  PROVE  /\ Write(b, chars) \in Builders /\ Same(b, Write(b, chars))
         /\ Write(b, chars).ssml = b.ssml \o chars
         /\ Write(b, chars).hasText = b.hasText
<1> DEFINE s == b.ssml \o chars
<1>1. s \in Seq(Cells)
  BY DEF Builders
<1>2. Write(b, chars) = [b EXCEPT !.ssml = s]
  BY DEF Write
<1> HIDE DEF s
<1>3. [b EXCEPT !.ssml = s] \in Builders /\ [b EXCEPT !.ssml = s].ssml = s
      /\ [b EXCEPT !.ssml = s].hasText = b.hasText
  BY <1>1 DEF Builders
<1>4. Same(b, [b EXCEPT !.ssml = s])
  BY DEF Same, Builders
<1> QED
  BY <1>2, <1>3, <1>4 DEF s

LEMMA TextAfterSelf == ASSUME NEW s \in Seq(Cells) PROVE s \in TextAfter(s)
<1>1. Len(s) \in Nat
  OBVIOUS
<1>2. \A i \in Len(s) + 1 .. Len(s) : s[i].tag = NoTag
  BY <1>1
<1> QED
  BY <1>1, <1>2 DEF TextAfter

LEMMA TextAfterText ==
  ASSUME NEW s \in Seq(Cells), NEW t \in TextAfter(s), NEW u \in TextAfter(t)
  PROVE  u \in TextAfter(s)
<1>1. Len(s) \in Nat /\ Len(t) \in Nat /\ Len(u) \in Nat /\ Len(s) <= Len(t) /\ Len(t) <= Len(u)
  BY DEF TextAfter
<1>2. \A i \in 1 .. Len(s) : i \in 1 .. Len(t)
  BY <1>1
<1>3. \A i \in 1 .. Len(s) : u[i] = s[i]
  BY <1>2 DEF TextAfter
<1>4. ASSUME NEW i \in Len(s) + 1 .. Len(u) PROVE u[i].tag = NoTag
  <2>1. CASE i \in Len(s) + 1 .. Len(t)
    <3>1. i \in 1 .. Len(t)
      BY <1>1, <2>1
    <3> QED
      BY <2>1, <3>1 DEF TextAfter
  <2>2. CASE i \in Len(t) + 1 .. Len(u)
    BY <2>2 DEF TextAfter
  <2> QED
    BY <1>1, <2>1, <2>2
<1>5. Len(s) <= Len(u) /\ OpenTags(u) = OpenTags(s) /\ u \in Seq(Cells)
  BY <1>1 DEF TextAfter
<1> QED
  BY <1>3, <1>4, <1>5 DEF TextAfter

LEMMA TextAfterOne ==
  ASSUME NEW s \in Seq(Cells), NEW x \in Cells, x.tag = NoTag
  PROVE  s \o <<x>> \in TextAfter(s)
<1> DEFINE t == Append(s, x)
<1>1. t = s \o <<x>>
  OBVIOUS
<1>2. OpenTags(t) = OpenTags(s)
  BY OpenTagsAppend DEF Pushed, NoTag
<1>3. /\ t \in Seq(Cells) /\ Len(s) \in Nat /\ Len(t) = Len(s) + 1 /\ t[Len(s) + 1] = x
      /\ \A i \in 1 .. Len(s) : t[i] = s[i]
  OBVIOUS
<1> HIDE DEF t
<1>4. \A i \in Len(s) + 1 .. Len(t) : t[i].tag = NoTag
  BY <1>3
<1>5. t \in TextAfter(s)
  BY <1>2, <1>3, <1>4 DEF TextAfter
<1> QED
  BY <1>1, <1>5

LEMMA TextAfterThree ==
  ASSUME NEW s \in Seq(Cells), NEW x \in Cells, NEW y \in Cells, NEW z \in Cells,
         x.tag = NoTag, y.tag = NoTag, z.tag = NoTag
  PROVE  s \o <<x, y, z>> \in TextAfter(s)
<1>1. s \o <<x, y, z>> = ((s \o <<x>>) \o <<y>>) \o <<z>>
  <2>1. s \o <<x, y, z>> = Append(Append(Append(s, x), y), z)
    OBVIOUS
  <2> DEFINE t == Append(s, x)
             u == Append(t, y)
  <2>2. t \in Seq(Cells) /\ t = s \o <<x>>
    OBVIOUS
  <2>3. u \in Seq(Cells) /\ u = t \o <<y>>
    <3> HIDE DEF t
    <3> QED
      BY <2>2
  <2>4. Append(u, z) = u \o <<z>>
    <3> HIDE DEF u
    <3> QED
      BY <2>3
  <2>5. s \o <<x, y, z>> = Append(u, z)
    BY <2>1
  <2> HIDE DEF t, u
  <2> QED
    BY <2>2, <2>3, <2>4, <2>5
<1>2. s \o <<x>> \in Seq(Cells) /\ (s \o <<x>>) \o <<y>> \in Seq(Cells)
  OBVIOUS
<1>3. s \o <<x>> \in TextAfter(s) /\ (s \o <<x>>) \o <<y>> \in TextAfter(s \o <<x>>)
  BY <1>2, TextAfterOne
<1>4. ((s \o <<x>>) \o <<y>>) \o <<z>> \in TextAfter((s \o <<x>>) \o <<y>>)
  BY <1>2, TextAfterOne
<1>5. ((s \o <<x>>) \o <<y>>) \in TextAfter(s)
  BY <1>3, TextAfterText
<1>6. ((s \o <<x>>) \o <<y>>) \o <<z>> \in TextAfter(s)
  BY <1>4, <1>5, TextAfterText
<1> QED
  BY <1>1, <1>6

LEMMA SaidSelf == ASSUME NEW b \in Builders PROVE b \in Said(b)
<1>1. b.ssml \in Seq(Cells)
  BY DEF Builders
<1> QED
  BY <1>1, TextAfterSelf DEF Said, Same

LEMMA SaidMore ==
  ASSUME NEW b \in Builders, NEW c \in Said(b), NEW d \in Said(c)
  PROVE  d \in Said(b)
<1>1. b.ssml \in Seq(Cells)
  BY DEF Builders
<1>2. d.ssml \in TextAfter(b.ssml)
  BY <1>1, TextAfterText DEF Said
<1>3. Same(b, d) /\ d \in Builders
  BY DEF Said, Same
<1> QED
  BY <1>2, <1>3 DEF Said

LEMMA MapSaid ==
  ASSUME NEW b \in Builders, NEW n \in Int
  PROVE  Map(b, n) \in Said(b)
<1> DEFINE m == Append(b.mappings, [sapi |-> n, ssml |-> Len(b.ssml)])
<1>1. m \in Seq([sapi : Int, ssml : Int])
  <2>1. Len(b.ssml) \in Int
    BY DEF Builders
  <2>2. [sapi |-> n, ssml |-> Len(b.ssml)] \in [sapi : Int, ssml : Int]
    BY <2>1
  <2> QED
    BY <2>2 DEF Builders
<1>2. Map(b, n) = [b EXCEPT !.mappings = m]
  BY DEF Map
<1> HIDE DEF m
<1>3. [b EXCEPT !.mappings = m] \in Builders
  BY <1>1 DEF Builders
<1>4. Same(b, [b EXCEPT !.mappings = m]) /\ [b EXCEPT !.mappings = m].ssml = b.ssml
  BY DEF Same, Builders
<1>5. b.ssml \in TextAfter(b.ssml)
  BY TextAfterSelf DEF Builders
<1> QED
  BY <1>2, <1>3, <1>4, <1>5 DEF Said

LEMMA WriteSaid ==
  ASSUME NEW b \in Builders, NEW chars \in Seq(Cells), b.ssml \o chars \in TextAfter(b.ssml)
  PROVE  Write(b, chars) \in Said(b)
BY WriteType DEF Said

LEMMA Triple ==
  ASSUME NEW q, q = [k \in DOMAIN q |-> q[k]], DOMAIN q = 1 .. 3
  PROVE  q = <<q[1], q[2], q[3]>>
OBVIOUS

LEMMA Single ==
  ASSUME NEW q, q = [k \in DOMAIN q |-> q[k]], DOMAIN q = 1 .. 1
  PROVE  q = <<q[1]>>
OBVIOUS

LEMMA EscapedChars ==
  ASSUME NEW c \in Strings
  PROVE  Escaped(c) \in Seq(Strings) /\ Len(Escaped(c)) \in {1, 3}
<1>1. Entity \in Seq(Strings) /\ Len(Entity) = 3
  <2>1. \A x \in Strings, y \in Strings, z \in Strings :
           <<x, y, z>> \in Seq(Strings) /\ Len(<<x, y, z>>) = 3
    OBVIOUS
  <2>2. "&" \in Strings /\ "a" \in Strings /\ ";" \in Strings
    BY Literals
  <2> QED
    BY <2>1, <2>2 DEF Entity
<1>2. <<c>> \in Seq(Strings) /\ Len(<<c>>) = 1
  OBVIOUS
<1> QED
  BY <1>1, <1>2 DEF Escaped

LEMMA WrittenAfter ==
  ASSUME NEW s \in Seq(Cells), NEW n \in Int, NEW chars \in Seq(Strings), Len(chars) \in {1, 3}
  PROVE  LET cells == [k \in DOMAIN chars |-> [Made(chars[k]) EXCEPT !.from = n]]
         IN  cells \in Seq(Cells) /\ s \o cells \in TextAfter(s)
<1> DEFINE Cell(c) == [Made(c) EXCEPT !.from = n]
           cells == [k \in DOMAIN chars |-> Cell(chars[k])]
<1>1. ASSUME NEW c \in Strings PROVE Cell(c) \in Cells /\ Cell(c).tag = NoTag
  <2>1. Made(c) \in Cells /\ Made(c).tag = NoTag
    BY MadeCell DEF Made
  <2> QED
    BY <2>1 DEF Cells
<1>2. DOMAIN chars = 1 .. Len(chars) /\ \A k \in 1 .. Len(chars) : chars[k] \in Strings
  OBVIOUS
<1> HIDE DEF Cell
<1>3. DOMAIN cells = 1 .. Len(chars) /\ cells = [k \in DOMAIN cells |-> cells[k]]
  BY <1>2
<1>4. \A k \in 1 .. Len(chars) : cells[k] \in Cells /\ cells[k].tag = NoTag
  BY <1>1, <1>2
<1> HIDE DEF cells
<1>5. cells \in Seq(Cells) /\ s \o cells \in TextAfter(s)
  <2>1. CASE Len(chars) = 3
    <3>1. \A k \in {1, 2, 3} : cells[k] \in Cells /\ cells[k].tag = NoTag
      BY <1>4, <2>1
    <3>2. cells = <<cells[1], cells[2], cells[3]>>
      BY <1>3, <2>1, Triple
    <3>3. s \o <<cells[1], cells[2], cells[3]>> \in TextAfter(s)
      BY <3>1, TextAfterThree
    <3>4. <<cells[1], cells[2], cells[3]>> \in Seq(Cells)
      BY <3>1
    <3> QED
      BY <3>2, <3>3, <3>4
  <2>2. CASE Len(chars) = 1
    <3>1. cells[1] \in Cells /\ cells[1].tag = NoTag
      BY <1>4, <2>2
    <3>2. cells = <<cells[1]>>
      BY <1>3, <2>2, Single
    <3>3. s \o <<cells[1]>> \in TextAfter(s)
      BY <3>1, TextAfterOne
    <3>4. <<cells[1]>> \in Seq(Cells)
      BY <3>1
    <3> QED
      BY <3>2, <3>3, <3>4
  <2> QED
    BY <2>1, <2>2
<1> QED
  BY <1>5 DEF cells, Cell

LEMMA AppendCharacterSaid ==
  ASSUME NEW b \in Builders, NEW f \in Fragments, NEW i \in 1 .. Len(f.text)
  PROVE  AppendCharacter(b, f, i) \in Said(b)
<1> DEFINE chars == Escaped(f.text[i])
           cells == [k \in DOMAIN chars |-> [Made(chars[k]) EXCEPT !.from = f.at + i - 1]]
           next  == Write(b, cells)
<1>1. f.at \in Nat /\ f.text[i] \in Strings
  BY DEF Fragments
<1>3. cells \in Seq(Cells) /\ b.ssml \o cells \in TextAfter(b.ssml)
  <2>1. b.ssml \in Seq(Cells) /\ f.at + i - 1 \in Int
    BY <1>1 DEF Builders
  <2>2. chars \in Seq(Strings) /\ Len(chars) \in {1, 3}
    BY <1>1, EscapedChars
  <2> HIDE DEF chars
  <2> QED
    BY <2>1, <2>2, WrittenAfter
<1>4. next \in Said(b)
  <2> HIDE DEF cells
  <2> QED
    BY <1>3, WriteSaid
<1>5. Map(next, f.at + i) \in Said(b)
  <2>1. f.at + i \in Int /\ next \in Builders
    BY <1>1, <1>4 DEF Said
  <2> HIDE DEF next
  <2> QED
    BY <1>4, <2>1, MapSaid, SaidMore
<1>6. AppendCharacter(b, f, i) = IF Len(chars) > 1 THEN Map(next, f.at + i) ELSE next
  BY DEF AppendCharacter
<1> QED
  BY <1>4, <1>5, <1>6

LEMMA AppendTextIs ==
  ASSUME NEW b \in Builders, NEW g \in Fragments
  PROVE  \E f \in [0 .. Len(g.text) -> Said(b)] :
           /\ f[0] = b /\ AppendTextFragToSsml(b, g) = f[Len(g.text)]
           /\ \A i \in 1 .. Len(g.text) : f[i] = AppendCharacter(f[i - 1], g, i)
<1>0. b \in Said(b)
  BY SaidSelf
<1>a. \A v \in Said(b), i \in 1 .. Len(g.text) : AppendCharacter(v, g, i) \in Said(b)
  <2> TAKE v \in Said(b), i \in 1 .. Len(g.text)
  <2>1. v \in Builders
    BY DEF Said
  <2> QED
    BY <2>1, AppendCharacterSaid, SaidMore
<1>b. PICK n \in Nat : n = Len(g.text)
  BY DEF Fragments
<1> DEFINE V == Said(b)
           base == b
           step == [i \in 1 .. n |-> [v \in V |-> AppendCharacter(v, g, i)]]
           is(f) == f = [i \in 0 .. Len(g.text) |-> IF i = 0 THEN b ELSE AppendCharacter(f[i - 1], g, i)]
           F == CHOOSE f : is(f)
<1>1. base \in V /\ step \in [1 .. n -> [V -> V]]
  BY <1>0, <1>a, <1>b
<1>2. PICK f \in Runs(V, n, base, step) : TRUE
  <2> HIDE DEF V, base, step, is, F
  <2> QED
    BY <1>1, Recursion
<1>3. is(f)
  <2>1. f \in [0 .. n -> V] /\ f[0] = base /\ \A i \in 1 .. n : f[i - 1] \in V /\ f[i] = step[i][f[i - 1]]
    <3> HIDE DEF V, base, step, is, F
    <3>1. f \in [0 .. n -> V] /\ f[0] = base /\ \A i \in 1 .. n : f[i] = step[i][f[i - 1]]
      BY DEF Runs
    <3>2. \A i \in 1 .. n : i - 1 \in 0 .. n
      OBVIOUS
    <3> QED
      BY <3>1, <3>2
  <2>2. \A i \in 1 .. n : f[i] = AppendCharacter(f[i - 1], g, i)
    <3> HIDE DEF V, is, F
    <3> QED
      BY <2>1
  <2>3. f = [i \in 0 .. n |-> IF i = 0 THEN b ELSE AppendCharacter(f[i - 1], g, i)]
    <3> HIDE DEF V, step, is, F
    <3> QED
      BY <2>1, <2>2
  <2> QED
    BY <2>3, <1>b
<1>4. is(F)
  <2> HIDE DEF is
  <2> QED
    BY <1>3
<1>5. AppendTextFragToSsml(b, g) = F[n]
  BY <1>b DEF AppendTextFragToSsml
<1>6. DOMAIN F = 0 .. n /\ F = [i \in DOMAIN F |-> F[i]] /\ F[0] = b
      /\ \A i \in 1 .. n : F[i] = AppendCharacter(F[i - 1], g, i)
  <2> HIDE DEF F, V, base, step
  <2>1. F = [i \in 0 .. n |-> IF i = 0 THEN b ELSE AppendCharacter(F[i - 1], g, i)]
    BY <1>4, <1>b
  <2> HIDE DEF is
  <2> QED
    BY <2>1
<1>7. F \in [0 .. n -> V]
  <2>1. ASSUME NEW i \in 1 .. n, F[i - 1] \in V PROVE F[i] \in V
    <3>1. F[i] = AppendCharacter(F[i - 1], g, i)
      BY <1>6
    <3> HIDE DEF F, is
    <3> QED
      BY <1>a, <1>b, <2>1, <3>1
  <2>2. F[0] \in V
    BY <1>1, <1>6
  <2> HIDE DEF V, F
  <2> QED
    BY <1>6, <2>1, <2>2, Stays
<1> HIDE DEF F
<1> QED
  BY <1>b, <1>5, <1>6, <1>7

LEMMA AppendTextSaid ==
  ASSUME NEW b \in Builders, NEW f \in Fragments
  PROVE  AppendTextFragToSsml(b, f) \in Said(b)
<1>1. PICK u \in [0 .. Len(f.text) -> Said(b)] : AppendTextFragToSsml(b, f) = u[Len(f.text)]
  BY AppendTextIs
<1>2. Len(f.text) \in 0 .. Len(f.text)
  BY DEF Fragments
<1> QED
  BY <1>1, <1>2

LEMMA MappedTextSaid ==
  ASSUME NEW b \in Builders, NEW f \in Fragments
  PROVE  MappedText(b, f) \in Said(b)
<1> DEFINE m == Map(b, f.at)
           a == AppendTextFragToSsml(m, f)
<1>1. f.at \in Int /\ f.at + Len(f.text) \in Int
  BY DEF Fragments
<1>2. m \in Said(b)
  BY <1>1, MapSaid
<1>3. m \in Builders
  BY <1>2 DEF Said
<1>4. a \in Said(m)
  BY <1>3, AppendTextSaid
<1>5. a \in Said(b)
  BY <1>2, <1>4, SaidMore
<1>6. a \in Builders
  BY <1>5 DEF Said
<1>7. MappedText(b, f) = Map(a, f.at + Len(f.text))
  BY DEF MappedText
<1> QED
  <2> HIDE DEF a, m
  <2> QED
    BY <1>1, <1>5, <1>6, <1>7, MapSaid, SaidMore

LEMMA SpacedSaid ==
  ASSUME NEW b \in Builders, NEW f \in Fragments
  PROVE  Spaced(b, f) \in Said(b)
<1>1. Made(" ") \in Cells /\ Made(" ").tag = NoTag
  <2>1. " " \in Strings
    BY Literals
  <2> QED
    BY <2>1, MadeCell DEF Made
<1>2. b.ssml \in Seq(Cells)
  BY DEF Builders
<1>3. b.ssml \o <<Made(" ")>> \in TextAfter(b.ssml) /\ <<Made(" ")>> \in Seq(Cells)
  <2>1. PICK x \in Cells : x = Made(" ") /\ x.tag = NoTag
    BY <1>1
  <2>2. b.ssml \o <<x>> \in TextAfter(b.ssml)
    BY <1>2, <2>1, TextAfterOne
  <2>3. <<x>> \in Seq(Cells)
    OBVIOUS
  <2> QED
    BY <2>1, <2>2, <2>3
<1>4. Write(b, <<Made(" ")>>) \in Said(b)
  BY <1>3, WriteSaid
<1> QED
  BY <1>4, SaidSelf DEF Spaced

LEMMA SpacedTextSaid ==
  ASSUME NEW b \in Builders, NEW f \in Fragments
  PROVE  MappedText(Spaced(b, f), f) \in Said(b)
<1>1. Spaced(b, f) \in Said(b) /\ Spaced(b, f) \in Builders
  BY SpacedSaid DEF Said
<1> QED
  BY <1>1, MappedTextSaid, SaidMore

LEMMA AddBookmarkSaid ==
  ASSUME NEW b \in Builders, NEW f \in Fragments
  PROVE  AddBookmark(b, f) \in Said(b)
<1> DEFINE m == Append(b.bookmarks, f.at)
<1>1. m \in Seq(Int)
  BY DEF Builders, Fragments
<1>2. AddBookmark(b, f) = [b EXCEPT !.bookmarks = m]
  BY DEF AddBookmark
<1> HIDE DEF m
<1>3. [b EXCEPT !.bookmarks = m] \in Builders
  BY <1>1 DEF Builders
<1>4. Same(b, [b EXCEPT !.bookmarks = m]) /\ [b EXCEPT !.bookmarks = m].ssml = b.ssml
  BY DEF Same, Builders
<1>5. b.ssml \in TextAfter(b.ssml)
  BY TextAfterSelf DEF Builders
<1> QED
  BY <1>2, <1>3, <1>4, <1>5 DEF Said

\* Whatever an Edge voice is sent between its tags is text.
LEMMA EdgeBodySaid ==
  ASSUME NEW b \in Builders, NEW f \in Fragments
  PROVE  EdgeBody(b, f) \in Said(b)
<1>1. CASE Speakable(f)
  <2> DEFINE m == MappedText(Spaced(b, f), f)
             n == f.at + Len(f.text)
  <2>1. m \in Said(b) /\ m \in Builders
    BY SpacedTextSaid DEF Said
  <2>2. n \in Int
    BY DEF Fragments
  <2>3. EdgeBody(b, f) = [m EXCEPT !.lastSAPIOffset = n]
    BY <1>1 DEF EdgeBody
  <2> HIDE DEF m, n
  <2>4. [m EXCEPT !.lastSAPIOffset = n] \in Builders
    BY <2>1, <2>2 DEF Builders
  <2>5. Same(m, [m EXCEPT !.lastSAPIOffset = n]) /\ [m EXCEPT !.lastSAPIOffset = n].ssml = m.ssml
    BY <2>1 DEF Same, Builders
  <2> QED
    BY <2>1, <2>3, <2>4, <2>5 DEF Said, Same
<1>2. CASE ~Speakable(f) /\ f.act = "Bookmark"
  <2>1. Map(b, b.lastSAPIOffset) \in Said(b) /\ Map(b, b.lastSAPIOffset) \in Builders
    <3>1. b.lastSAPIOffset \in Int
      BY DEF Builders
    <3> QED
      BY <3>1, MapSaid DEF Said
  <2>2. AddBookmark(Map(b, b.lastSAPIOffset), f) \in Said(b)
    BY <2>1, AddBookmarkSaid, SaidMore
  <2> QED
    BY <1>2, <2>2 DEF EdgeBody
<1>3. CASE ~Speakable(f) /\ f.act # "Bookmark"
  BY <1>3, SaidSelf DEF EdgeBody
<1> QED
  BY <1>1, <1>2, <1>3

-----------------------------------------------------------------------------
SayAs    == [dir |-> "open", name |-> "say-as"]
EndSayAs == [dir |-> "close", name |-> "say-as"]
Prosody  == [dir |-> "open", name |-> "prosody"]
ProsodyTags(s) == {i \in 1 .. Len(s) : s[i].tag = Prosody}

\* Every say-as was closed by the next tag, but the last one may still be open.
SayAsAlone(s, within) ==
    \A i \in 1 .. Len(s) : s[i].tag = SayAs =>
        \/ \E j \in i + 1 .. Len(s) : s[j].tag = EndSayAs /\ \A k \in i + 1 .. j - 1 : s[k].tag = NoTag
        \/ within /\ \A k \in i + 1 .. Len(s) : s[k].tag = NoTag

\* An Edge voice's tags, and how many prosody tags they are.
EdgeTags == {"none", "speak", "voice", "prosody"}
EdgeOnly(s, n) ==
    /\ \A i \in 1 .. Len(s) : s[i].tag.name \in EdgeTags
    /\ IsFiniteSet(ProsodyTags(s)) /\ Cardinality(ProsodyTags(s)) = n

Sound(s, isEdge, within, n) == SayAsAlone(s, within) /\ (isEdge => EdgeOnly(s, n))

LEMMA TagPlaces ==
  ASSUME NEW s \in Seq(Cells), NEW d \in Strings, NEW m \in Strings
  PROVE  LET t == s \o Tag(d, m)
         IN  /\ t \in Seq(Cells) /\ Len(s) \in Nat /\ Len(t) = Len(s) + 3
             /\ \A i \in 1 .. Len(s) : t[i] = s[i]
             /\ t[Len(s) + 1].tag = NoTag /\ t[Len(s) + 3].tag = NoTag
             /\ t[Len(s) + 2].tag = [dir |-> d, name |-> m]
<1> DEFINE y == [Made("a") EXCEPT !.tag = [dir |-> d, name |-> m]]
<1>1. Made("<") \in Cells /\ Made(">") \in Cells /\ Made("a") \in Cells
  BY Literals, MadeCell
<1>2. y \in Cells /\ y.tag = [dir |-> d, name |-> m]
  BY <1>1 DEF Cells, Tags
<1>3. Made("<").tag = NoTag /\ Made(">").tag = NoTag
  BY DEF Made
<1>4. Tag(d, m) = <<Made("<"), y, Made(">")>>
  BY DEF Tag
<1> HIDE DEF y
<1>5. \A a \in Cells, b \in Cells, c \in Cells :
         LET t == s \o <<a, b, c>>
         IN  /\ t \in Seq(Cells) /\ Len(t) = Len(s) + 3 /\ \A i \in 1 .. Len(s) : t[i] = s[i]
             /\ t[Len(s) + 1] = a /\ t[Len(s) + 2] = b /\ t[Len(s) + 3] = c
  OBVIOUS
<1>6. Len(s) \in Nat
  OBVIOUS
<1> QED
  BY <1>1, <1>2, <1>3, <1>4, <1>5, <1>6

LEMMA SoundText ==
  ASSUME NEW s \in Seq(Cells), NEW t \in TextAfter(s), NEW e, NEW within, NEW n, Sound(s, e, within, n)
  PROVE  Sound(t, e, within, n)
<1>1. /\ Len(s) \in Nat /\ Len(t) \in Nat /\ Len(s) <= Len(t) /\ \A i \in 1 .. Len(s) : t[i] = s[i]
      /\ \A i \in Len(s) + 1 .. Len(t) : t[i].tag = NoTag
  BY DEF TextAfter
<1>2. NoTag # SayAs /\ NoTag # Prosody /\ NoTag.name \in EdgeTags
  BY DEF NoTag, SayAs, Prosody, EdgeTags
<1>3. SayAsAlone(t, within)
  <2> SUFFICES ASSUME NEW i \in 1 .. Len(t), t[i].tag = SayAs
               PROVE  \/ \E j \in i + 1 .. Len(t) : t[j].tag = EndSayAs /\ \A k \in i + 1 .. j - 1 : t[k].tag = NoTag
                      \/ within /\ \A k \in i + 1 .. Len(t) : t[k].tag = NoTag
    BY DEF SayAsAlone
  <2>1. i \in 1 .. Len(s) /\ s[i].tag = SayAs
    BY <1>1, <1>2
  <2>2. \/ \E j \in i + 1 .. Len(s) : s[j].tag = EndSayAs /\ \A k \in i + 1 .. j - 1 : s[k].tag = NoTag
        \/ within /\ \A k \in i + 1 .. Len(s) : s[k].tag = NoTag
    BY <2>1 DEF Sound, SayAsAlone
  <2>3. CASE \E j \in i + 1 .. Len(s) : s[j].tag = EndSayAs /\ \A k \in i + 1 .. j - 1 : s[k].tag = NoTag
    <3>1. PICK j \in i + 1 .. Len(s) : s[j].tag = EndSayAs /\ \A k \in i + 1 .. j - 1 : s[k].tag = NoTag
      BY <2>3
    <3>2. j \in i + 1 .. Len(t) /\ t[j].tag = EndSayAs
      BY <1>1, <2>1, <3>1
    <3>3. \A k \in i + 1 .. j - 1 : k \in 1 .. Len(s)
      BY <1>1, <2>1
    <3>4. \A k \in i + 1 .. j - 1 : t[k].tag = NoTag
      BY <1>1, <3>1, <3>3
    <3> QED
      BY <3>2, <3>4
  <2>4. CASE within /\ \A k \in i + 1 .. Len(s) : s[k].tag = NoTag
    <3>1. \A k \in i + 1 .. Len(t) : k \in Len(s) + 1 .. Len(t) \/ (k \in i + 1 .. Len(s) /\ k \in 1 .. Len(s))
      BY <1>1, <2>1
    <3> QED
      BY <1>1, <2>4, <3>1
  <2> QED
    BY <2>2, <2>3, <2>4
<1>4. ASSUME EdgeOnly(s, n) PROVE EdgeOnly(t, n)
  <2>1. \A i \in 1 .. Len(t) : i \in Len(s) + 1 .. Len(t) \/ i \in 1 .. Len(s)
    BY <1>1
  <2>2. \A i \in 1 .. Len(s) : i \in 1 .. Len(t)
    BY <1>1
  <2>3. ProsodyTags(t) = ProsodyTags(s)
    BY <1>1, <1>2, <2>1, <2>2 DEF ProsodyTags
  <2>4. \A i \in 1 .. Len(t) : t[i].tag.name \in EdgeTags
    BY <1>1, <1>2, <1>4, <2>1 DEF EdgeOnly
  <2> QED
    BY <1>4, <2>3, <2>4 DEF EdgeOnly
<1> QED
  BY <1>3, <1>4 DEF Sound

\* A tag in the middle of the three characters t has more than s.
TagAfter(s, t, tag) ==
    /\ t \in Seq(Cells) /\ Len(s) \in Nat /\ Len(t) = Len(s) + 3
    /\ \A i \in 1 .. Len(s) : t[i] = s[i]
    /\ t[Len(s) + 1].tag = NoTag /\ t[Len(s) + 3].tag = NoTag
    /\ t[Len(s) + 2].tag = tag

LEMMA ClosedStays ==
  ASSUME NEW s, NEW t, NEW tag, TagAfter(s, t, tag), NEW i \in 1 .. Len(s),
         \E j \in i + 1 .. Len(s) : s[j].tag = EndSayAs /\ \A k \in i + 1 .. j - 1 : s[k].tag = NoTag
  PROVE  \E j \in i + 1 .. Len(t) : t[j].tag = EndSayAs /\ \A k \in i + 1 .. j - 1 : t[k].tag = NoTag
<1>1. Len(s) \in Nat /\ Len(t) = Len(s) + 3 /\ \A k \in 1 .. Len(s) : t[k] = s[k]
  BY DEF TagAfter
<1>2. PICK j \in i + 1 .. Len(s) : s[j].tag = EndSayAs /\ \A k \in i + 1 .. j - 1 : s[k].tag = NoTag
  OBVIOUS
<1>3. j \in i + 1 .. Len(t) /\ t[j].tag = EndSayAs
  BY <1>1, <1>2
<1>4. \A k \in i + 1 .. j - 1 : k \in 1 .. Len(s)
  BY <1>1
<1>5. \A k \in i + 1 .. j - 1 : t[k].tag = NoTag
  BY <1>1, <1>2, <1>4
<1> QED
  BY <1>3, <1>5

LEMMA SayAsTag ==
  ASSUME NEW s, NEW t, NEW tag, TagAfter(s, t, tag), SayAsAlone(s, FALSE), tag # SayAs
  PROVE  SayAsAlone(t, FALSE)
<1> SUFFICES ASSUME NEW i \in 1 .. Len(t), t[i].tag = SayAs
             PROVE  \E j \in i + 1 .. Len(t) : t[j].tag = EndSayAs /\ \A k \in i + 1 .. j - 1 : t[k].tag = NoTag
  BY DEF SayAsAlone
<1>1. NoTag # SayAs
  BY DEF NoTag, SayAs
<1>2. i \in 1 .. Len(s) \/ i = Len(s) + 1 \/ i = Len(s) + 2 \/ i = Len(s) + 3
  BY DEF TagAfter
<1>3. i \in 1 .. Len(s) /\ s[i].tag = SayAs
  BY <1>1, <1>2 DEF TagAfter
<1> QED
  BY <1>3, ClosedStays DEF SayAsAlone

LEMMA SayAsOpen ==
  ASSUME NEW s, NEW t, TagAfter(s, t, SayAs), SayAsAlone(s, FALSE)
  PROVE  SayAsAlone(t, TRUE)
<1> SUFFICES ASSUME NEW i \in 1 .. Len(t), t[i].tag = SayAs
             PROVE  \/ \E j \in i + 1 .. Len(t) : t[j].tag = EndSayAs /\ \A k \in i + 1 .. j - 1 : t[k].tag = NoTag
                    \/ \A k \in i + 1 .. Len(t) : t[k].tag = NoTag
  BY DEF SayAsAlone
<1>1. NoTag # SayAs
  BY DEF NoTag, SayAs
<1>2. i \in 1 .. Len(s) \/ i = Len(s) + 1 \/ i = Len(s) + 2 \/ i = Len(s) + 3
  BY DEF TagAfter
<1>3. CASE i \in 1 .. Len(s)
  <2>1. s[i].tag = SayAs
    BY <1>3 DEF TagAfter
  <2>2. \E j \in i + 1 .. Len(s) : s[j].tag = EndSayAs /\ \A k \in i + 1 .. j - 1 : s[k].tag = NoTag
    BY <1>3, <2>1 DEF SayAsAlone
  <2>3. \E j \in i + 1 .. Len(t) : t[j].tag = EndSayAs /\ \A k \in i + 1 .. j - 1 : t[k].tag = NoTag
    BY <1>3, <2>2, ClosedStays
  <2> QED
    BY <2>3
<1>4. CASE i = Len(s) + 2
  <2>1. Len(t) = i + 1 /\ i \in Nat /\ t[i + 1].tag = NoTag
    BY <1>4 DEF TagAfter
  <2>2. \A k \in i + 1 .. Len(t) : k = i + 1
    BY <2>1
  <2> QED
    BY <2>1, <2>2
<1> QED
  BY <1>1, <1>2, <1>3, <1>4 DEF TagAfter

LEMMA SayAsClose ==
  ASSUME NEW s, NEW t, TagAfter(s, t, EndSayAs), SayAsAlone(s, TRUE)
  PROVE  SayAsAlone(t, FALSE)
<1> SUFFICES ASSUME NEW i \in 1 .. Len(t), t[i].tag = SayAs
             PROVE  \E j \in i + 1 .. Len(t) : t[j].tag = EndSayAs /\ \A k \in i + 1 .. j - 1 : t[k].tag = NoTag
  BY DEF SayAsAlone
<1>1. NoTag # SayAs /\ EndSayAs # SayAs
  BY DEF NoTag, SayAs, EndSayAs
<1>2. i \in 1 .. Len(s) \/ i = Len(s) + 1 \/ i = Len(s) + 2 \/ i = Len(s) + 3
  BY DEF TagAfter
<1>3. i \in 1 .. Len(s) /\ s[i].tag = SayAs
  BY <1>1, <1>2 DEF TagAfter
<1>4. CASE \A k \in i + 1 .. Len(s) : s[k].tag = NoTag
  <2> DEFINE j == Len(s) + 2
  <2>1. j \in i + 1 .. Len(t) /\ t[j].tag = EndSayAs
    BY <1>3 DEF TagAfter
  <2>2. \A k \in i + 1 .. j - 1 : k = Len(s) + 1 \/ (k \in i + 1 .. Len(s) /\ k \in 1 .. Len(s))
    BY <1>3 DEF TagAfter
  <2>3. \A k \in i + 1 .. j - 1 : t[k].tag = NoTag
    BY <1>4, <2>2 DEF TagAfter
  <2> QED
    BY <2>1, <2>3
<1> QED
  BY <1>3, <1>4, ClosedStays DEF SayAsAlone

LEMMA EdgeTag ==
  ASSUME NEW s, NEW t, NEW tag, TagAfter(s, t, tag), NEW n \in Nat, EdgeOnly(s, n), tag.name \in EdgeTags
  PROVE  EdgeOnly(t, IF tag = Prosody THEN n + 1 ELSE n)
<1>1. NoTag # Prosody /\ NoTag.name \in EdgeTags
  BY DEF NoTag, Prosody, EdgeTags
<1>2. \A i \in 1 .. Len(t) : i \in 1 .. Len(s) \/ i = Len(s) + 1 \/ i = Len(s) + 2 \/ i = Len(s) + 3
  BY DEF TagAfter
<1>3. /\ \A i \in 1 .. Len(s) : i \in 1 .. Len(t) /\ t[i] = s[i]
      /\ Len(s) + 2 \in 1 .. Len(t) /\ Len(s) + 2 \notin 1 .. Len(s)
      /\ t[Len(s) + 1].tag = NoTag /\ t[Len(s) + 3].tag = NoTag /\ t[Len(s) + 2].tag = tag
  BY DEF TagAfter
<1>4. \A i \in 1 .. Len(t) : t[i].tag.name \in EdgeTags
  BY <1>1, <1>2, <1>3 DEF EdgeOnly
<1>5. CASE tag = Prosody
  <2>1. ProsodyTags(t) = ProsodyTags(s) \cup {Len(s) + 2} /\ Len(s) + 2 \notin ProsodyTags(s)
    BY <1>1, <1>2, <1>3, <1>5 DEF ProsodyTags
  <2>2. IsFiniteSet(ProsodyTags(s)) /\ Cardinality(ProsodyTags(s)) = n
    BY DEF EdgeOnly
  <2>3. IsFiniteSet(ProsodyTags(t)) /\ Cardinality(ProsodyTags(t)) = n + 1
    BY <2>1, <2>2, FS_AddElement
  <2> QED
    BY <1>4, <1>5, <2>3 DEF EdgeOnly
<1>6. CASE tag # Prosody
  <2>1. ProsodyTags(t) = ProsodyTags(s)
    BY <1>1, <1>2, <1>3, <1>6 DEF ProsodyTags
  <2> QED
    BY <1>4, <1>6, <2>1 DEF EdgeOnly
<1> QED
  BY <1>5, <1>6

LEMMA PushedOpen ==
  ASSUME NEW r \in Seq(Strings), NEW m \in Strings
  PROVE  /\ Pushed(r, [dir |-> "open", name |-> m]) = Append(r, m)
         /\ Pushed(r, [dir |-> "self", name |-> m]) = r
BY DEF Pushed

LEMMA PushedClose ==
  ASSUME NEW r \in Seq(Strings), NEW m \in Strings
  PROVE  Pushed(Append(r, m), [dir |-> "close", name |-> m]) = r
<1> DEFINE q == Append(r, m)
<1>1. q # <<>> /\ q[Len(q)] = m /\ SubSeq(q, 1, Len(q) - 1) = r
  OBVIOUS
<1>2. Last(q) = m /\ Front(q) = r
  BY <1>1 DEF Last, Front
<1> HIDE DEF q
<1> QED
  BY <1>1, <1>2 DEF Pushed, q

LEMMA TagIsAfter ==
  ASSUME NEW s \in Seq(Cells), NEW d \in Strings, NEW m \in Strings
  PROVE  TagAfter(s, s \o Tag(d, m), [dir |-> d, name |-> m])
BY TagPlaces DEF TagAfter

NoSayAs(names) == \A i \in 1 .. Len(names) : names[i] # "say-as"

\* A tag of the application's.
LEMMA SayAsOther ==
  ASSUME NEW s \in Seq(Cells), NEW d \in Strings, NEW m \in Strings, m # "say-as", SayAsAlone(s, FALSE)
  PROVE  SayAsAlone(s \o Tag(d, m), FALSE)
<1>1. [dir |-> d, name |-> m] # SayAs
  BY DEF SayAs
<1>2. TagAfter(s, s \o Tag(d, m), [dir |-> d, name |-> m])
  BY TagIsAfter
<1> QED
  BY <1>1, <1>2, SayAsTag

LEMMA Associative ==
  ASSUME NEW s \in Seq(Cells), NEW t \in Seq(Cells), NEW u \in Seq(Cells)
  PROVE  s \o (t \o u) = (s \o t) \o u /\ s \o t \in Seq(Cells)
OBVIOUS

LEMMA NothingAdded ==
  /\ \A s \in Seq(Cells) : s \o <<>> = s
  /\ \A r \in Seq(Strings), names \in Seq(Strings) : r \o SubSeq(names, 1, 0) = r
<1>1. \A names \in Seq(Strings) : SubSeq(names, 1, 0) = <<>>
  OBVIOUS
<1>2. \A r \in Seq(Strings) : r \o <<>> = r
  OBVIOUS
<1>3. \A s \in Seq(Cells) : s \o <<>> = s
  OBVIOUS
<1> QED
  BY <1>1, <1>2, <1>3

LEMMA PrefixGrows ==
  ASSUME NEW r \in Seq(Strings), NEW names \in Seq(Strings), NEW i \in 0 .. Len(names) - 1
  PROVE  /\ SubSeq(names, 1, i) \in Seq(Strings) /\ names[i + 1] \in Strings
         /\ r \o SubSeq(names, 1, i) \in Seq(Strings)
         /\ r \o SubSeq(names, 1, i + 1) = Append(r \o SubSeq(names, 1, i), names[i + 1])
<1> DEFINE p == SubSeq(names, 1, i)
<1>1. p \in Seq(Strings) /\ names[i + 1] \in Strings
  OBVIOUS
<1>2. SubSeq(names, 1, i + 1) = Append(p, names[i + 1])
  OBVIOUS
<1> HIDE DEF p
<1>3. r \o Append(p, names[i + 1]) = Append(r \o p, names[i + 1]) /\ r \o p \in Seq(Strings)
  BY <1>1
<1> QED
  BY <1>1, <1>2, <1>3 DEF p

\* Opening tags stacks their names.
LEMMA OpeningAdds ==
  ASSUME NEW s \in Seq(Cells), NEW names \in Seq(Strings), NoSayAs(names), SayAsAlone(s, FALSE)
  PROVE  /\ Opening(names) \in Seq(Cells)
         /\ OpenTags(s \o Opening(names)) = OpenTags(s) \o names
         /\ SayAsAlone(s \o Opening(names), FALSE)
<1>1. PICK f \in [0 .. Len(names) -> Seq(Cells)] :
         /\ f[0] = <<>> /\ Opening(names) = f[Len(names)]
         /\ \A i \in 1 .. Len(names) : f[i] = f[i - 1] \o Tag("open", names[i])
  BY OpeningIs
<1>2. PICK n \in Nat : n = Len(names)
  OBVIOUS
<1>3. PICK r \in Seq(Strings) : r = OpenTags(s)
  BY OpenTagsType
<1> DEFINE S == {i \in 0 .. n : /\ SayAsAlone(s \o f[i], FALSE)
                                /\ OpenTags(s \o f[i]) = r \o SubSeq(names, 1, i)}
<1>4. 0 \in S
  <2>1. s \o <<>> = s /\ r \o SubSeq(names, 1, 0) = r
    BY NothingAdded
  <2> QED
    BY <1>1, <1>3, <2>1
<1>5. ASSUME NEW i \in 0 .. n - 1, i \in S PROVE i + 1 \in S
  <2>1. i + 1 \in 1 .. Len(names) /\ (i + 1) - 1 = i /\ i \in 0 .. Len(names) /\ i \in 0 .. Len(names) - 1
    BY <1>2
  <2>2. f[i + 1] = f[i] \o Tag("open", names[i + 1]) /\ f[i] \in Seq(Cells)
    BY <1>1, <2>1
  <2>3. PICK m \in Strings : m = names[i + 1] /\ m # "say-as"
    BY <2>1 DEF NoSayAs
  <2>4. PICK d \in Strings : d = "open"
    BY Literals
  <2>5. Tag(d, m) \in Seq(Cells)
    BY TagCells
  <2>6. s \o f[i + 1] = (s \o f[i]) \o Tag(d, m) /\ s \o f[i] \in Seq(Cells)
    <3>1. f[i + 1] = f[i] \o Tag(d, m)
      BY <2>2, <2>3, <2>4
    <3>2. s \o (f[i] \o Tag(d, m)) = (s \o f[i]) \o Tag(d, m) /\ s \o f[i] \in Seq(Cells)
      BY <2>2, <2>5, Associative
    <3> HIDE DEF S
    <3> QED
      BY <3>1, <3>2
  <2>7. PICK q \in Seq(Cells) : q = s \o f[i]
    BY <2>6
  <2>8. SayAsAlone(q, FALSE) /\ OpenTags(q) = r \o SubSeq(names, 1, i)
    BY <1>5, <2>7
  <2>9. SayAsAlone(q \o Tag(d, m), FALSE)
    BY <2>3, <2>8, SayAsOther
  <2>10. /\ r \o SubSeq(names, 1, i) \in Seq(Strings)
         /\ r \o SubSeq(names, 1, i + 1) = Append(r \o SubSeq(names, 1, i), m)
    BY <2>1, <2>3, PrefixGrows
  <2>11. OpenTags(q \o Tag(d, m)) = Append(OpenTags(q), m)
    BY <2>4, <2>8, <2>10, OpenTagsTag, PushedOpen
  <2>12. i + 1 \in 0 .. n
    OBVIOUS
  <2> QED
    BY <2>6, <2>7, <2>8, <2>9, <2>10, <2>11, <2>12
<1>6. \A i \in 0 .. n : i \in S
  <2> HIDE DEF S
  <2> QED
    BY <1>4, <1>5, Induct
<1>7. n \in S /\ n \in 0 .. Len(names)
  <2> HIDE DEF S
  <2> QED
    BY <1>2, <1>6
<1>8. SubSeq(names, 1, n) = names
  BY <1>2
<1> QED
  BY <1>1, <1>2, <1>3, <1>7, <1>8

\* Closing them unstacks the names.
LEMMA ClosingDrops ==
  ASSUME NEW s \in Seq(Cells), NEW names \in Seq(Strings), NoSayAs(names), SayAsAlone(s, FALSE),
         NEW r \in Seq(Strings), OpenTags(s) = r \o names
  PROVE  /\ Closing(names) \in Seq(Cells)
         /\ OpenTags(s \o Closing(names)) = r
         /\ SayAsAlone(s \o Closing(names), FALSE)
<1>1. PICK f \in [0 .. Len(names) -> Seq(Cells)] :
         /\ f[0] = <<>> /\ Closing(names) = f[Len(names)]
         /\ \A i \in 1 .. Len(names) : f[i] = Tag("close", names[i]) \o f[i - 1]
  BY ClosingIs
<1>2. PICK n \in Nat : n = Len(names)
  OBVIOUS
<1> DEFINE From(i) == {q \in Seq(Cells) : SayAsAlone(q, FALSE) /\ OpenTags(q) = r \o SubSeq(names, 1, i)}
           S == {i \in 0 .. n : \A q \in From(i) : SayAsAlone(q \o f[i], FALSE) /\ OpenTags(q \o f[i]) = r}
<1>4. 0 \in S
  <2>1. ASSUME NEW q \in From(0) PROVE SayAsAlone(q \o f[0], FALSE) /\ OpenTags(q \o f[0]) = r
    <3>1. q \in Seq(Cells) /\ SayAsAlone(q, FALSE) /\ OpenTags(q) = r \o SubSeq(names, 1, 0)
      OBVIOUS
    <3>2. q \o f[0] = q /\ r \o SubSeq(names, 1, 0) = r
      BY <1>1, <3>1, NothingAdded
    <3> QED
      BY <3>1, <3>2
  <2>2. 0 \in 0 .. n
    OBVIOUS
  <2> HIDE DEF From
  <2> QED
    BY <2>1, <2>2
<1>5. ASSUME NEW i \in 0 .. n - 1, i \in S PROVE i + 1 \in S
  <2>1. i + 1 \in 1 .. Len(names) /\ (i + 1) - 1 = i /\ i \in 0 .. Len(names) /\ i \in 0 .. Len(names) - 1
    BY <1>2
  <2>2. f[i + 1] = Tag("close", names[i + 1]) \o f[i] /\ f[i] \in Seq(Cells)
    BY <1>1, <2>1
  <2>3. PICK m \in Strings : m = names[i + 1] /\ m # "say-as"
    BY <2>1 DEF NoSayAs
  <2>4. PICK d \in Strings : d = "close"
    BY Literals
  <2>5. Tag(d, m) \in Seq(Cells)
    BY TagCells
  <2>a. From(i + 1) \subseteq Seq(Cells)
    OBVIOUS
  <2>6. ASSUME NEW q \in Seq(Cells), q \in From(i + 1)
        PROVE  SayAsAlone(q \o f[i + 1], FALSE) /\ OpenTags(q \o f[i + 1]) = r
    <3>0. q \in Seq(Cells) /\ SayAsAlone(q, FALSE) /\ OpenTags(q) = r \o SubSeq(names, 1, i + 1)
      BY <2>6
    <3> HIDE DEF From, S
    <3>a. q \o Tag(d, m) \in Seq(Cells)
      BY <2>5, <3>0
    <3>1. PICK t \in Seq(Cells) : t = q \o Tag(d, m)
      BY <3>a
    <3>2. q \o f[i + 1] = t \o f[i]
      <4>1. f[i + 1] = Tag(d, m) \o f[i]
        BY <2>2, <2>3, <2>4
      <4>2. q \o (Tag(d, m) \o f[i]) = (q \o Tag(d, m)) \o f[i]
        <5>1. PICK u \in Seq(Cells) : u = Tag(d, m)
          BY <2>5
        <5>2. PICK v \in Seq(Cells) : v = f[i]
          BY <2>2
        <5>3. q \o (u \o v) = (q \o u) \o v
          OBVIOUS
        <5> QED
          BY <5>1, <5>2, <5>3
      <4> QED
        BY <4>1, <4>2, <3>1
    <3>3. SayAsAlone(t, FALSE)
      BY <2>3, <3>0, <3>1, SayAsOther
    <3>4. PICK p \in Seq(Strings) : p = r \o SubSeq(names, 1, i)
      BY <2>1, PrefixGrows
    <3>5. OpenTags(q) = Append(p, m)
      BY <2>1, <2>3, <3>0, <3>4, PrefixGrows
    <3>6. OpenTags(t) = Pushed(Append(p, m), [dir |-> d, name |-> m])
      <4>1. OpenTags(q \o Tag(d, m)) = Pushed(OpenTags(q), [dir |-> d, name |-> m])
        BY <3>0, OpenTagsTag
      <4> QED
        BY <3>1, <3>5, <4>1
    <3>7. OpenTags(t) = p
      BY <2>4, <3>6, PushedClose
    <3>8. t \in From(i)
      BY <3>3, <3>4, <3>7 DEF From
    <3>9. SayAsAlone(t \o f[i], FALSE) /\ OpenTags(t \o f[i]) = r
      BY <1>5, <3>8 DEF S
    <3> QED
      BY <3>2, <3>9
  <2>7. i + 1 \in 0 .. n
    OBVIOUS
  <2> HIDE DEF From
  <2> QED
    BY <2>a, <2>6, <2>7
<1>6. \A i \in 0 .. n : i \in S
  <2> HIDE DEF S
  <2> QED
    BY <1>4, <1>5, Induct
<1>7. n \in S /\ n \in 0 .. Len(names)
  <2> HIDE DEF S
  <2> QED
    BY <1>2, <1>6
<1>8. SubSeq(names, 1, n) = names
  BY <1>2
<1>9. s \in From(n)
  BY <1>8
<1> QED
  BY <1>1, <1>2, <1>7, <1>9

-----------------------------------------------------------------------------
(***************************************************************************)
(* SSML with the tags of a stack open in it, sound so far.                 *)
(***************************************************************************)
Holds(s, stack, isEdge, within, n) ==
    s \in Seq(Cells) /\ OpenTags(s) = stack /\ Sound(s, isEdge, within, n)

LEMMA HoldsText ==
  ASSUME NEW s, NEW t \in TextAfter(s), NEW r, NEW e, NEW within, NEW n, Holds(s, r, e, within, n)
  PROVE  Holds(t, r, e, within, n)
<1>1. t \in Seq(Cells) /\ OpenTags(t) = r /\ s \in Seq(Cells) /\ Sound(s, e, within, n)
  BY DEF TextAfter, Holds
<1>2. Sound(t, e, within, n)
  BY <1>1, SoundText
<1> QED
  BY <1>1, <1>2 DEF Holds

LEMMA HoldsTag ==
  ASSUME NEW s, NEW r, NEW e, NEW n \in Nat, Holds(s, r, e, FALSE, n),
         NEW d \in Strings, NEW m \in Strings, m # "say-as", e => m \in EdgeTags
  PROVE  Holds(s \o Tag(d, m), Pushed(r, [dir |-> d, name |-> m]), e, FALSE,
               IF d = "open" /\ m = "prosody" THEN n + 1 ELSE n)
<1> DEFINE tag == [dir |-> d, name |-> m]
           t   == s \o Tag(d, m)
           k   == IF d = "open" /\ m = "prosody" THEN n + 1 ELSE n
<1>1. s \in Seq(Cells) /\ OpenTags(s) = r /\ SayAsAlone(s, FALSE) /\ (e => EdgeOnly(s, n))
  BY DEF Holds, Sound
<1>2. t \in Seq(Cells)
  BY <1>1, TagPlaces
<1>3. OpenTags(t) = Pushed(r, tag)
  BY <1>1, OpenTagsTag
<1>4. SayAsAlone(t, FALSE)
  BY <1>1, SayAsOther
<1>5. ASSUME e PROVE EdgeOnly(t, k)
  <2>1. TagAfter(s, t, tag)
    BY <1>1, TagIsAfter
  <2>2. tag.name \in EdgeTags
    BY <1>5
  <2>3. k = IF tag = Prosody THEN n + 1 ELSE n
    BY DEF Prosody
  <2> HIDE DEF tag, t, k
  <2>4. EdgeOnly(t, IF tag = Prosody THEN n + 1 ELSE n)
    BY <1>1, <1>5, <2>1, <2>2, EdgeTag
  <2> QED
    BY <2>3, <2>4
<1> HIDE DEF tag, t, k
<1>6. Holds(t, Pushed(r, tag), e, FALSE, k)
  BY <1>2, <1>3, <1>4, <1>5 DEF Holds, Sound
<1> QED
  BY <1>6 DEF tag, t, k

LEMMA HoldsOpen ==
  ASSUME NEW s, NEW r \in Seq(Strings), NEW e, NEW n \in Nat, Holds(s, r, e, FALSE, n),
         NEW m \in Strings, m # "say-as", e => m \in EdgeTags
  PROVE  Holds(s \o Tag("open", m), Append(r, m), e, FALSE, IF m = "prosody" THEN n + 1 ELSE n)
<1>1. PICK d \in Strings : d = "open"
  BY Literals
<1>2. Holds(s \o Tag(d, m), Pushed(r, [dir |-> d, name |-> m]), e, FALSE,
            IF d = "open" /\ m = "prosody" THEN n + 1 ELSE n)
  BY HoldsTag
<1>3. Pushed(r, [dir |-> d, name |-> m]) = Append(r, m)
  BY <1>1, PushedOpen
<1>4. (IF d = "open" /\ m = "prosody" THEN n + 1 ELSE n) = (IF m = "prosody" THEN n + 1 ELSE n)
  BY <1>1
<1> QED
  BY <1>1, <1>2, <1>3, <1>4

LEMMA HoldsSelf ==
  ASSUME NEW s, NEW r \in Seq(Strings), NEW e, NEW n \in Nat, Holds(s, r, e, FALSE, n),
         NEW m \in Strings, m # "say-as", e => m \in EdgeTags
  PROVE  Holds(s \o Tag("self", m), r, e, FALSE, n)
<1>1. PICK d \in Strings : d = "self"
  BY Literals
<1>2. Holds(s \o Tag(d, m), Pushed(r, [dir |-> d, name |-> m]), e, FALSE,
            IF d = "open" /\ m = "prosody" THEN n + 1 ELSE n)
  BY HoldsTag
<1>3. Pushed(r, [dir |-> d, name |-> m]) = r
  BY <1>1, PushedOpen
<1>4. (IF d = "open" /\ m = "prosody" THEN n + 1 ELSE n) = n
  BY <1>1
<1> QED
  BY <1>1, <1>2, <1>3, <1>4

LEMMA HoldsClose ==
  ASSUME NEW s, NEW r \in Seq(Strings), NEW e, NEW n \in Nat,
         NEW m \in Strings, m # "say-as", e => m \in EdgeTags, Holds(s, Append(r, m), e, FALSE, n)
  PROVE  Holds(s \o Tag("close", m), r, e, FALSE, n)
<1>1. PICK d \in Strings : d = "close"
  BY Literals
<1>a. Append(r, m) \in Seq(Strings)
  OBVIOUS
<1>2. PICK q \in Seq(Strings) : q = Append(r, m)
  BY <1>a
<1>3. Holds(s \o Tag(d, m), Pushed(q, [dir |-> d, name |-> m]), e, FALSE,
            IF d = "open" /\ m = "prosody" THEN n + 1 ELSE n)
  BY <1>2, HoldsTag
<1>4. Pushed(q, [dir |-> d, name |-> m]) = r
  BY <1>1, <1>2, PushedClose
<1>5. (IF d = "open" /\ m = "prosody" THEN n + 1 ELSE n) = n
  BY <1>1
<1> QED
  BY <1>1, <1>3, <1>4, <1>5

LEMMA HoldsSayAs ==
  ASSUME NEW s, NEW r \in Seq(Strings), NEW n, Holds(s, r, FALSE, FALSE, n)
  PROVE  Holds(s \o Tag("open", "say-as"), Append(r, "say-as"), FALSE, TRUE, n)
<1>1. PICK d \in Strings, m \in Strings : d = "open" /\ m = "say-as"
  BY Literals
<1>2. s \in Seq(Cells) /\ OpenTags(s) = r /\ SayAsAlone(s, FALSE)
  BY DEF Holds, Sound
<1>3. PICK t : t = s \o Tag(d, m)
  OBVIOUS
<1>4. t \in Seq(Cells)
  BY <1>2, <1>3, TagPlaces
<1>5. OpenTags(t) = Append(r, m)
  <2>1. OpenTags(t) = Pushed(r, [dir |-> d, name |-> m])
    BY <1>2, <1>3, OpenTagsTag
  <2>2. r \in Seq(Strings)
    BY <1>2, OpenTagsType
  <2> QED
    BY <1>1, <2>1, <2>2, PushedOpen
<1>6. TagAfter(s, t, SayAs)
  BY <1>1, <1>2, <1>3, TagIsAfter DEF SayAs
<1>7. SayAsAlone(t, TRUE)
  BY <1>2, <1>6, SayAsOpen
<1>8. Holds(t, Append(r, m), FALSE, TRUE, n)
  BY <1>4, <1>5, <1>7 DEF Holds, Sound
<1> QED
  BY <1>1, <1>3, <1>8

LEMMA HoldsEndSayAs ==
  ASSUME NEW s, NEW r \in Seq(Strings), NEW n, Holds(s, Append(r, "say-as"), FALSE, TRUE, n)
  PROVE  Holds(s \o Tag("close", "say-as"), r, FALSE, FALSE, n)
<1>1. PICK d \in Strings, m \in Strings : d = "close" /\ m = "say-as"
  BY Literals
<1>2. s \in Seq(Cells) /\ OpenTags(s) = Append(r, m) /\ SayAsAlone(s, TRUE)
  BY <1>1 DEF Holds, Sound
<1>3. PICK t : t = s \o Tag(d, m)
  OBVIOUS
<1>4. t \in Seq(Cells)
  BY <1>2, <1>3, TagPlaces
<1>5. OpenTags(t) = r
  <2>1. OpenTags(t) = Pushed(Append(r, m), [dir |-> d, name |-> m])
    BY <1>2, <1>3, OpenTagsTag
  <2> QED
    BY <1>1, <2>1, PushedClose
<1>6. TagAfter(s, t, EndSayAs)
  BY <1>1, <1>2, <1>3, TagIsAfter DEF EndSayAs
<1>7. SayAsAlone(t, FALSE)
  BY <1>2, <1>6, SayAsClose
<1>8. Holds(t, r, FALSE, FALSE, n)
  BY <1>4, <1>5, <1>7 DEF Holds, Sound
<1> QED
  BY <1>1, <1>3, <1>8

LEMMA NoNames == Opening(<<>>) = <<>> /\ Closing(<<>>) = <<>>
<1>1. <<>> \in Seq(Strings) /\ Len(<<>>) = 0
  OBVIOUS
<1>2. Opening(<<>>) = <<>>
  BY <1>1, OpeningIs
<1>3. Closing(<<>>) = <<>>
  BY <1>1, ClosingIs
<1> QED
  BY <1>2, <1>3

LEMMA HoldsOpening ==
  ASSUME NEW s, NEW r \in Seq(Strings), NEW e, NEW n, Holds(s, r, e, FALSE, n),
         NEW names \in Seq(Strings), NoSayAs(names), e => names = <<>>
  PROVE  Opening(names) \in Seq(Cells) /\ Holds(s \o Opening(names), r \o names, e, FALSE, n)
<1>1. s \in Seq(Cells) /\ OpenTags(s) = r /\ SayAsAlone(s, FALSE) /\ (e => EdgeOnly(s, n))
  BY DEF Holds, Sound
<1>2. /\ Opening(names) \in Seq(Cells) /\ OpenTags(s \o Opening(names)) = r \o names
      /\ SayAsAlone(s \o Opening(names), FALSE)
  BY <1>1, OpeningAdds
<1>3. s \o Opening(names) \in Seq(Cells)
  BY <1>1, <1>2
<1>4. ASSUME e PROVE EdgeOnly(s \o Opening(names), n)
  <2>1. s \o Opening(names) = s
    BY <1>1, <1>4, NoNames, NothingAdded
  <2> QED
    BY <1>1, <1>4, <2>1
<1> QED
  BY <1>2, <1>3, <1>4 DEF Holds, Sound

LEMMA HoldsClosing ==
  ASSUME NEW s, NEW r \in Seq(Strings), NEW e, NEW n,
         NEW names \in Seq(Strings), NoSayAs(names), e => names = <<>>,
         Holds(s, r \o names, e, FALSE, n)
  PROVE  Closing(names) \in Seq(Cells) /\ Holds(s \o Closing(names), r, e, FALSE, n)
<1>1. s \in Seq(Cells) /\ OpenTags(s) = r \o names /\ SayAsAlone(s, FALSE) /\ (e => EdgeOnly(s, n))
  BY DEF Holds, Sound
<1>2. /\ Closing(names) \in Seq(Cells) /\ OpenTags(s \o Closing(names)) = r
      /\ SayAsAlone(s \o Closing(names), FALSE)
  BY <1>1, ClosingDrops
<1>3. s \o Closing(names) \in Seq(Cells)
  BY <1>1, <1>2
<1>4. ASSUME e PROVE EdgeOnly(s \o Closing(names), n)
  <2>1. s \o Closing(names) = s
    BY <1>1, <1>4, NoNames, NothingAdded
  <2> QED
    BY <1>1, <1>4, <2>1
<1> QED
  BY <1>2, <1>3, <1>4 DEF Holds, Sound

-----------------------------------------------------------------------------
\* The tags open inside those of the document: prosody, emphasis, custom, say-as.
One(open, name) == IF open THEN <<name>> ELSE <<>>
Inner(b, r) ==
    LET p == r \o One(b.inProsody, "prosody")
        e == p \o One(b.inEmphasis, "emphasis")
        c == e \o (IF b.inCustomTags THEN b.customTags ELSE <<>>)
    IN  c \o One(b.inSayAs, "say-as")

\* What BuildSSML remembers of the tags is what is open in the SSML.
Consistent(b, r) ==
    /\ b \in Builders
    /\ Holds(b.ssml, Inner(b, r), b.edge, b.inSayAs, b.prosodyCount)
    /\ NoSayAs(b.customTags)
    /\ b.edge => b.customTags = <<>> /\ ~b.inEmphasis /\ ~b.inSayAs

LEMMA ConsistentSaid ==
  ASSUME NEW b, NEW r, Consistent(b, r), NEW c \in Said(b)
  PROVE  Consistent(c, r) /\ Same(b, c)
<1>1. Same(b, c) /\ c \in Builders /\ c.ssml \in TextAfter(b.ssml)
  BY DEF Said
<1>2. Inner(c, r) = Inner(b, r)
  BY <1>1 DEF Same, Inner
<1>3. Holds(c.ssml, Inner(b, r), b.edge, b.inSayAs, b.prosodyCount)
  BY <1>1, HoldsText DEF Consistent
<1> QED
  BY <1>1, <1>2, <1>3 DEF Consistent, Same

\* Nothing inside prosody, and so on, as Inner has it.
LEMMA InnerParts ==
  ASSUME NEW r \in Seq(Strings), NEW b \in Builders
  PROVE  /\ Inner(b, r) \in Seq(Strings)
         /\ ~b.inSayAs => Inner(b, r) = (r \o One(b.inProsody, "prosody") \o One(b.inEmphasis, "emphasis"))
                                           \o (IF b.inCustomTags THEN b.customTags ELSE <<>>)
         /\ ~b.inSayAs /\ (b.inCustomTags => b.customTags = <<>>)
              => Inner(b, r) = r \o One(b.inProsody, "prosody") \o One(b.inEmphasis, "emphasis")
         /\ ~b.inSayAs /\ (b.inCustomTags => b.customTags = <<>>) /\ ~b.inEmphasis
              => Inner(b, r) = r \o One(b.inProsody, "prosody")
         /\ ~b.inSayAs /\ (b.inCustomTags => b.customTags = <<>>) /\ ~b.inEmphasis /\ ~b.inProsody
              => Inner(b, r) = r
<1>0. \A q \in Seq(Strings) : q \o <<>> = q
  OBVIOUS
<1>1. <<>> \in Seq(Strings) /\ \A m \in Strings : <<m>> \in Seq(Strings)
  OBVIOUS
<1>2. PICK p \in Seq(Strings) : p = One(b.inProsody, "prosody")
  <2>1. One(b.inProsody, "prosody") \in Seq(Strings)
    <3>1. "prosody" \in Strings
      BY Literals
    <3> QED
      BY <1>1, <3>1 DEF One
  <2> QED
    BY <2>1
<1>3. PICK e \in Seq(Strings) : e = One(b.inEmphasis, "emphasis")
  <2>1. One(b.inEmphasis, "emphasis") \in Seq(Strings)
    <3>1. "emphasis" \in Strings
      BY Literals
    <3> QED
      BY <1>1, <3>1 DEF One
  <2> QED
    BY <2>1
<1>4. PICK a \in Seq(Strings) : a = One(b.inSayAs, "say-as")
  <2>1. One(b.inSayAs, "say-as") \in Seq(Strings)
    <3>1. "say-as" \in Strings
      BY Literals
    <3> QED
      BY <1>1, <3>1 DEF One
  <2> QED
    BY <2>1
<1>5. PICK c \in Seq(Strings) : c = IF b.inCustomTags THEN b.customTags ELSE <<>>
  <2>1. b.customTags \in Seq(Strings) /\ <<>> \in Seq(Strings)
    BY DEF Builders
  <2> QED
    BY <2>1
<1>6. PICK q1 \in Seq(Strings) : q1 = r \o p
  <2>1. r \o p \in Seq(Strings)
    OBVIOUS
  <2> QED
    BY <2>1
<1>7. PICK q2 \in Seq(Strings) : q2 = q1 \o e
  <2>1. q1 \o e \in Seq(Strings)
    OBVIOUS
  <2> QED
    BY <2>1
<1>8. PICK q3 \in Seq(Strings) : q3 = q2 \o c
  <2>1. q2 \o c \in Seq(Strings)
    OBVIOUS
  <2> QED
    BY <2>1
<1>9. q3 \o a \in Seq(Strings) /\ Inner(b, r) = q3 \o a
  <2>1. q3 \o a \in Seq(Strings)
    OBVIOUS
  <2> QED
    BY <1>2, <1>3, <1>4, <1>5, <1>6, <1>7, <1>8, <2>1 DEF Inner
<1>10. /\ ~b.inSayAs => a = <<>>
       /\ (b.inCustomTags => b.customTags = <<>>) => c = <<>>
       /\ ~b.inEmphasis => e = <<>>
       /\ ~b.inProsody => p = <<>>
  BY <1>2, <1>3, <1>4, <1>5 DEF One
<1>11. q3 \o <<>> = q3 /\ q2 \o <<>> = q2 /\ q1 \o <<>> = q1 /\ r \o <<>> = r
  BY <1>0
<1> QED
  BY <1>2, <1>3, <1>4, <1>5, <1>6, <1>7, <1>8, <1>9, <1>10, <1>11

\* The tags around what the application's own tags are in.
LEMMA Outer ==
  ASSUME NEW b \in Builders, NEW r \in Seq(Strings)
  PROVE  /\ r \o One(b.inProsody, "prosody") \o One(b.inEmphasis, "emphasis") \in Seq(Strings)
         /\ ~b.inSayAs /\ b.inCustomTags
              => Inner(b, r) = (r \o One(b.inProsody, "prosody") \o One(b.inEmphasis, "emphasis")) \o b.customTags
<1>1. \A q \in Seq(Strings), n \in Seq(Strings) : q \o n \in Seq(Strings)
  OBVIOUS
<1>2. \A open : \A m \in Strings : One(open, m) \in Seq(Strings)
  <2>1. <<>> \in Seq(Strings) /\ \A m \in Strings : <<m>> \in Seq(Strings)
    OBVIOUS
  <2> QED
    BY <2>1 DEF One
<1>3. One(b.inProsody, "prosody") \in Seq(Strings) /\ One(b.inEmphasis, "emphasis") \in Seq(Strings)
  BY <1>2, Literals
<1>4. r \o One(b.inProsody, "prosody") \in Seq(Strings)
  BY <1>1, <1>3
<1>5. r \o One(b.inProsody, "prosody") \o One(b.inEmphasis, "emphasis") \in Seq(Strings)
  BY <1>1, <1>3, <1>4
<1>6. ASSUME ~b.inSayAs, b.inCustomTags
      PROVE  Inner(b, r) = (r \o One(b.inProsody, "prosody") \o One(b.inEmphasis, "emphasis")) \o b.customTags
  <2>1. Inner(b, r) = (r \o One(b.inProsody, "prosody") \o One(b.inEmphasis, "emphasis"))
                         \o (IF b.inCustomTags THEN b.customTags ELSE <<>>)
    BY <1>6, InnerParts
  <2>2. (IF b.inCustomTags THEN b.customTags ELSE <<>>) = b.customTags
    BY <1>6
  <2> QED
    BY <2>1, <2>2
<1> QED
  BY <1>5, <1>6

LEMMA ConsistentParts ==
  ASSUME NEW b, NEW r, Consistent(b, r)
  PROVE  /\ b \in Builders /\ b.ssml \in Seq(Cells) /\ b.customTags \in Seq(Strings) /\ b.prosodyCount \in Nat
         /\ b.edge \in BOOLEAN /\ b.inProsody \in BOOLEAN /\ b.inEmphasis \in BOOLEAN
         /\ b.inCustomTags \in BOOLEAN /\ b.inSayAs \in BOOLEAN
<1>1. b \in Builders
  BY DEF Consistent
<1>2. b.ssml \in Seq(Cells) /\ b.customTags \in Seq(Strings) /\ b.prosodyCount \in Nat
  BY <1>1 DEF Builders
<1>3. b.edge \in BOOLEAN /\ b.inProsody \in BOOLEAN /\ b.inEmphasis \in BOOLEAN
  BY <1>1 DEF Builders
<1>4. b.inCustomTags \in BOOLEAN /\ b.inSayAs \in BOOLEAN
  BY <1>1 DEF Builders
<1> QED
  BY <1>1, <1>2, <1>3, <1>4

LEMMA OneMore == \A r \in Seq(Strings), m \in Strings : r \o <<m>> = Append(r, m) /\ r \o <<m>> \in Seq(Strings)
OBVIOUS

LEMMA OpenProsodyStep ==
  ASSUME NEW r \in Seq(Strings), NEW b, Consistent(b, r), NEW f,
         ~b.inProsody /\ (b.edge => Speakable(f)) /\ f.prosody # 0
           => ~b.inEmphasis /\ (b.inCustomTags => b.customTags = <<>>) /\ ~b.inSayAs
  PROVE  LET c == OpenProsody(b, f)
             opens == ~b.inProsody /\ (b.edge => Speakable(f)) /\ f.prosody # 0
         IN  /\ Consistent(c, r) /\ c.edge = b.edge /\ c.inEmphasis = b.inEmphasis
             /\ c.customTags = b.customTags /\ c.inCustomTags = b.inCustomTags /\ c.inSayAs = b.inSayAs
             /\ c.inProsody <=> (b.inProsody \/ opens)
             /\ c.prosodyCount = IF opens THEN b.prosodyCount + 1 ELSE b.prosodyCount
<1> DEFINE opens == ~b.inProsody /\ (b.edge => Speakable(f)) /\ f.prosody # 0
           w == Write(b, Tag("open", "prosody"))
           c == [w EXCEPT !.inProsody = TRUE, !.prosodyCount = @ + 1]
<1>0. b \in Builders /\ b.ssml \in Seq(Cells) /\ b.prosodyCount \in Nat
  BY ConsistentParts
<1>1. CASE ~opens
  <2>1. OpenProsody(b, f) = b
    BY <1>1 DEF OpenProsody
  <2> HIDE DEF opens
  <2> QED
    BY <1>1, <2>1 DEF opens
<1>2. CASE opens
  <2>1. OpenProsody(b, f) = c
    BY <1>2 DEF OpenProsody
  <2>2. "prosody" \in Strings /\ "open" \in Strings
    BY Literals
  <2>3. w \in Builders /\ Same(b, w) /\ w.ssml = b.ssml \o Tag("open", "prosody")
    <3>1. Tag("open", "prosody") \in Seq(Cells)
      BY <2>2, TagCells
    <3> QED
      BY <1>0, <3>1, WriteType
  <2> HIDE DEF w
  <2>4. /\ c \in Builders /\ c.ssml = w.ssml /\ c.inProsody = TRUE /\ c.prosodyCount = b.prosodyCount + 1
        /\ c.edge = b.edge /\ c.inEmphasis = b.inEmphasis /\ c.customTags = b.customTags
        /\ c.inCustomTags = b.inCustomTags /\ c.inSayAs = b.inSayAs
    <3>1. PICK n \in Nat : n = b.prosodyCount + 1
      BY <1>0
    <3>2. c = [w EXCEPT !.inProsody = TRUE, !.prosodyCount = n]
      BY <2>3, <3>1 DEF Same
    <3> HIDE DEF c
    <3>3. c \in Builders
      BY <2>3, <3>2 DEF Builders
    <3>4. /\ c.ssml = w.ssml /\ c.inProsody = TRUE /\ c.prosodyCount = n
          /\ c.edge = w.edge /\ c.inEmphasis = w.inEmphasis /\ c.customTags = w.customTags
          /\ c.inCustomTags = w.inCustomTags /\ c.inSayAs = w.inSayAs
      BY <2>3, <3>2 DEF Builders
    <3> QED
      BY <2>3, <3>1, <3>3, <3>4 DEF Same
  <2> HIDE DEF c
  <2>5. ~b.inProsody /\ ~b.inEmphasis /\ (b.inCustomTags => b.customTags = <<>>) /\ ~b.inSayAs /\ b.inSayAs = FALSE
    <3>1. b.inSayAs \in BOOLEAN
      BY ConsistentParts
    <3> QED
      BY <1>2, <3>1
  <2>6. Inner(b, r) = r
    BY <1>0, <2>5, InnerParts
  <2>7. Holds(b.ssml, r, b.edge, FALSE, b.prosodyCount)
    BY <2>5, <2>6 DEF Consistent
  <2>8. Holds(c.ssml, Append(r, "prosody"), b.edge, FALSE, b.prosodyCount + 1)
    <3>1. PICK m \in Strings : m = "prosody"
      BY <2>2
    <3>2. m # "say-as" /\ m \in EdgeTags
      BY <3>1 DEF EdgeTags
    <3>3. Holds(b.ssml \o Tag("open", m), Append(r, m), b.edge, FALSE,
                IF m = "prosody" THEN b.prosodyCount + 1 ELSE b.prosodyCount)
      BY <1>0, <2>7, <3>2, HoldsOpen
    <3> QED
      BY <2>3, <2>4, <3>1, <3>3
  <2>9. Inner(c, r) = Append(r, "prosody")
    <3>1. Inner(c, r) = r \o One(c.inProsody, "prosody")
      BY <2>4, <2>5, InnerParts
    <3>2. One(c.inProsody, "prosody") = <<"prosody">>
      BY <2>4 DEF One
    <3>3. r \o <<"prosody">> = Append(r, "prosody")
      BY <2>2, OneMore
    <3> QED
      BY <3>1, <3>2, <3>3
  <2>10. Consistent(c, r)
    BY <2>4, <2>5, <2>8, <2>9 DEF Consistent
  <2> QED
    BY <1>2, <2>1, <2>4, <2>10
<1> QED
  BY <1>1, <1>2

LEMMA OpenEmphasisStep ==
  ASSUME NEW r \in Seq(Strings), NEW b, Consistent(b, r), NEW f,
         ~b.inEmphasis /\ f.emphasis /\ ~b.edge => (b.inCustomTags => b.customTags = <<>>) /\ ~b.inSayAs
  PROVE  LET c == OpenEmphasis(b, f)
             opens == ~b.inEmphasis /\ f.emphasis /\ ~b.edge
         IN  /\ Consistent(c, r) /\ c.edge = b.edge /\ c.inProsody = b.inProsody
             /\ c.customTags = b.customTags /\ c.inCustomTags = b.inCustomTags /\ c.inSayAs = b.inSayAs
             /\ c.inEmphasis <=> (b.inEmphasis \/ opens)
             /\ c.prosodyCount = b.prosodyCount
<1> DEFINE opens == ~b.inEmphasis /\ f.emphasis /\ ~b.edge
           w == Write(b, Tag("open", "emphasis"))
           c == [w EXCEPT !.inEmphasis = TRUE]
<1>0. b \in Builders /\ b.ssml \in Seq(Cells) /\ b.prosodyCount \in Nat
  BY ConsistentParts
<1>1. CASE ~opens
  <2>1. OpenEmphasis(b, f) = b
    BY <1>1 DEF OpenEmphasis
  <2> HIDE DEF opens
  <2> QED
    BY <1>1, <2>1 DEF opens
<1>2. CASE opens
  <2>1. OpenEmphasis(b, f) = c
    BY <1>2 DEF OpenEmphasis
  <2>2. "emphasis" \in Strings /\ "open" \in Strings
    BY Literals
  <2>3. w \in Builders /\ Same(b, w) /\ w.ssml = b.ssml \o Tag("open", "emphasis")
    <3>1. Tag("open", "emphasis") \in Seq(Cells)
      BY <2>2, TagCells
    <3> QED
      BY <1>0, <3>1, WriteType
  <2> HIDE DEF w
  <2>4. /\ c \in Builders /\ c.ssml = w.ssml /\ c.inEmphasis = TRUE /\ c.prosodyCount = b.prosodyCount
        /\ c.edge = b.edge /\ c.inProsody = b.inProsody /\ c.customTags = b.customTags
        /\ c.inCustomTags = b.inCustomTags /\ c.inSayAs = b.inSayAs
    BY <2>3 DEF Builders, Same
  <2> HIDE DEF c
  <2>5. ~b.edge /\ ~b.inEmphasis /\ (b.inCustomTags => b.customTags = <<>>) /\ ~b.inSayAs /\ b.inSayAs = FALSE
    <3>1. b.inSayAs \in BOOLEAN
      BY ConsistentParts
    <3> QED
      BY <1>2, <3>1
  <2>a. PICK q \in Seq(Strings) : q = r \o One(b.inProsody, "prosody")
    <3>1. Inner(b, r) = r \o One(b.inProsody, "prosody") /\ Inner(b, r) \in Seq(Strings)
      BY <1>0, <2>5, InnerParts
    <3> QED
      BY <3>1
  <2>6. Inner(b, r) = q
    BY <1>0, <2>5, <2>a, InnerParts
  <2>7. Holds(b.ssml, q, b.edge, FALSE, b.prosodyCount)
    BY <2>5, <2>6 DEF Consistent
  <2>8. Holds(c.ssml, Append(q, "emphasis"), b.edge, FALSE, b.prosodyCount)
    <3>1. PICK m \in Strings : m = "emphasis"
      BY <2>2
    <3>2. m # "say-as" /\ (b.edge => m \in EdgeTags)
      BY <2>5, <3>1
    <3>3. Holds(b.ssml \o Tag("open", m), Append(q, m), b.edge, FALSE,
                IF m = "prosody" THEN b.prosodyCount + 1 ELSE b.prosodyCount)
      BY <1>0, <2>7, <3>2, HoldsOpen
    <3> QED
      BY <2>3, <2>4, <3>1, <3>3
  <2>9. Inner(c, r) = Append(q, "emphasis")
    <3>1. Inner(c, r) = r \o One(c.inProsody, "prosody") \o One(c.inEmphasis, "emphasis")
      BY <2>4, <2>5, InnerParts
    <3>2. One(c.inEmphasis, "emphasis") = <<"emphasis">> /\ One(c.inProsody, "prosody") = One(b.inProsody, "prosody")
      BY <2>4 DEF One
    <3>3. q \o <<"emphasis">> = Append(q, "emphasis")
      BY <2>2, OneMore
    <3> QED
      BY <2>a, <3>1, <3>2, <3>3
  <2>10. Consistent(c, r)
    BY <2>4, <2>5, <2>8, <2>9 DEF Consistent
  <2> QED
    BY <1>2, <2>1, <2>4, <2>10
<1> QED
  BY <1>1, <1>2

LEMMA ReopenStep ==
  ASSUME NEW r \in Seq(Strings), NEW b, Consistent(b, r), ~b.inCustomTags => ~b.inSayAs
  PROVE  LET c == ReopenCustomTags(b)
         IN  /\ Consistent(c, r) /\ c.edge = b.edge /\ c.inProsody = b.inProsody /\ c.inEmphasis = b.inEmphasis
             /\ c.customTags = b.customTags /\ c.inCustomTags /\ c.inSayAs = b.inSayAs
             /\ c.prosodyCount = b.prosodyCount
<1> DEFINE w == Write(b, Opening(b.customTags))
           c == [w EXCEPT !.inCustomTags = TRUE]
<1>0. b \in Builders /\ b.ssml \in Seq(Cells) /\ b.prosodyCount \in Nat /\ b.customTags \in Seq(Strings)
  BY ConsistentParts
<1>1. CASE b.inCustomTags
  BY <1>1 DEF ReopenCustomTags
<1>2. CASE ~b.inCustomTags
  <2>1. ReopenCustomTags(b) = c
    BY <1>2 DEF ReopenCustomTags
  <2>2. ~b.inSayAs /\ b.inSayAs = FALSE /\ NoSayAs(b.customTags) /\ (b.edge => b.customTags = <<>>)
    <3>1. b.inSayAs \in BOOLEAN
      BY ConsistentParts
    <3> QED
      BY <1>2, <3>1 DEF Consistent
  <2>3. PICK q \in Seq(Strings) : q = r \o One(b.inProsody, "prosody") \o One(b.inEmphasis, "emphasis")
    <3>1. Inner(b, r) = r \o One(b.inProsody, "prosody") \o One(b.inEmphasis, "emphasis") /\ Inner(b, r) \in Seq(Strings)
      BY <1>0, <1>2, <2>2, InnerParts
    <3> QED
      BY <3>1
  <2>4. Holds(b.ssml, q, b.edge, FALSE, b.prosodyCount)
    <3>1. Inner(b, r) = q
      BY <1>0, <1>2, <2>2, <2>3, InnerParts
    <3> QED
      BY <2>2, <3>1 DEF Consistent
  <2>5. /\ Opening(b.customTags) \in Seq(Cells)
        /\ Holds(b.ssml \o Opening(b.customTags), q \o b.customTags, b.edge, FALSE, b.prosodyCount)
    BY <1>0, <2>2, <2>4, HoldsOpening
  <2>6. w \in Builders /\ Same(b, w) /\ w.ssml = b.ssml \o Opening(b.customTags)
    BY <1>0, <2>5, WriteType
  <2> HIDE DEF w
  <2>7. /\ c \in Builders /\ c.ssml = w.ssml /\ c.inCustomTags = TRUE /\ c.prosodyCount = b.prosodyCount
        /\ c.edge = b.edge /\ c.inProsody = b.inProsody /\ c.customTags = b.customTags
        /\ c.inEmphasis = b.inEmphasis /\ c.inSayAs = b.inSayAs
    BY <2>6 DEF Builders, Same
  <2> HIDE DEF c
  <2>8. Inner(c, r) = q \o b.customTags
    <3>1. Inner(c, r) = (r \o One(c.inProsody, "prosody") \o One(c.inEmphasis, "emphasis")) \o c.customTags
      BY <2>2, <2>7, InnerParts
    <3> QED
      BY <2>3, <2>7, <3>1
  <2>9. b.edge => ~b.inEmphasis
    BY DEF Consistent
  <2>10. Consistent(c, r)
    BY <2>2, <2>5, <2>6, <2>7, <2>8, <2>9 DEF Consistent
  <2> QED
    BY <2>1, <2>7, <2>10
<1> QED
  BY <1>1, <1>2

LEMMA OpenSayAsStep ==
  ASSUME NEW r \in Seq(Strings), NEW b, Consistent(b, r), NEW f
  PROVE  LET c == OpenSayAs(b, f)
             opens == ~b.inSayAs /\ f.context # 0 /\ f.act = "Speak" /\ ~b.edge
         IN  /\ Consistent(c, r) /\ c.edge = b.edge /\ c.inProsody = b.inProsody /\ c.inEmphasis = b.inEmphasis
             /\ c.customTags = b.customTags /\ c.inCustomTags = b.inCustomTags
             /\ c.inSayAs <=> (b.inSayAs \/ opens)
             /\ c.prosodyCount = b.prosodyCount
<1> DEFINE opens == ~b.inSayAs /\ f.context # 0 /\ f.act = "Speak" /\ ~b.edge
           w == Write(b, Tag("open", "say-as"))
           c == [w EXCEPT !.inSayAs = TRUE]
<1>0. b \in Builders /\ b.ssml \in Seq(Cells) /\ b.prosodyCount \in Nat
  BY ConsistentParts
<1>1. CASE ~opens
  <2>1. OpenSayAs(b, f) = b
    BY <1>1 DEF OpenSayAs
  <2> HIDE DEF opens
  <2> QED
    BY <1>1, <2>1 DEF opens
<1>2. CASE opens
  <2>1. OpenSayAs(b, f) = c
    BY <1>2 DEF OpenSayAs
  <2>2. "say-as" \in Strings /\ "open" \in Strings
    BY Literals
  <2>3. w \in Builders /\ Same(b, w) /\ w.ssml = b.ssml \o Tag("open", "say-as")
    <3>1. Tag("open", "say-as") \in Seq(Cells)
      BY <2>2, TagCells
    <3> QED
      BY <1>0, <3>1, WriteType
  <2> HIDE DEF w
  <2>4. /\ c \in Builders /\ c.ssml = w.ssml /\ c.inSayAs = TRUE /\ c.prosodyCount = b.prosodyCount
        /\ c.edge = b.edge /\ c.inProsody = b.inProsody /\ c.customTags = b.customTags
        /\ c.inCustomTags = b.inCustomTags /\ c.inEmphasis = b.inEmphasis
    BY <2>3 DEF Builders, Same
  <2> HIDE DEF c
  <2>5. ~b.edge /\ b.edge = FALSE /\ b.inSayAs = FALSE /\ NoSayAs(b.customTags)
    <3>1. b.inSayAs \in BOOLEAN /\ b.edge \in BOOLEAN
      BY ConsistentParts
    <3> QED
      BY <1>2, <3>1 DEF Consistent
  <2>6. PICK q \in Seq(Strings) : q = Inner(b, r)
    <3>1. Inner(b, r) \in Seq(Strings)
      BY <1>0, InnerParts
    <3> QED
      BY <3>1
  <2>7. Holds(b.ssml, q, FALSE, FALSE, b.prosodyCount)
    BY <2>5, <2>6 DEF Consistent
  <2>8. Holds(c.ssml, Append(q, "say-as"), FALSE, TRUE, b.prosodyCount)
    BY <2>3, <2>4, <2>7, HoldsSayAs
  <2>9. Inner(c, r) = Append(q, "say-as")
    <3>1. PICK p : p = (r \o One(b.inProsody, "prosody") \o One(b.inEmphasis, "emphasis"))
                         \o (IF b.inCustomTags THEN b.customTags ELSE <<>>)
      OBVIOUS
    <3>a. Inner(b, r) = (r \o One(b.inProsody, "prosody") \o One(b.inEmphasis, "emphasis"))
                         \o (IF b.inCustomTags THEN b.customTags ELSE <<>>)
      BY <1>0, <2>5, InnerParts
    <3>2. p = q
      BY <2>6, <3>1, <3>a
    <3>3. Inner(c, r) = p \o <<"say-as">>
      BY <2>4, <3>1 DEF Inner, One
    <3>4. q \o <<"say-as">> = Append(q, "say-as")
      BY <2>2, OneMore
    <3> QED
      BY <3>2, <3>3, <3>4
  <2>10. Consistent(c, r)
    BY <2>4, <2>5, <2>8, <2>9 DEF Consistent
  <2> QED
    BY <1>2, <2>1, <2>4, <2>10
<1> QED
  BY <1>1, <1>2

LEMMA Largest ==
  ASSUME NEW n \in Nat, NEW S, S \subseteq 0 .. n, S # {}
  PROVE  Max(S) \in S /\ \A y \in S : y <= Max(S)
<1> DEFINE B == {k \in 0 .. n : \A y \in S : y <= k}
<1>1. B \subseteq Nat /\ n \in B
  OBVIOUS
<1>2. PICK k \in B : \A c \in B : k <= c
  <2> HIDE DEF B
  <2> QED
    BY <1>1, Least
<1>3. k \in S
  <2> SUFFICES ASSUME k \notin S PROVE FALSE
    OBVIOUS
  <2>1. \A y \in S : y < k /\ y \in 0 .. n
    BY <1>2
  <2>2. k > 0
    <3>1. PICK y \in S : TRUE
      OBVIOUS
    <3>2. y < k /\ y \in 0 .. n /\ k \in 0 .. n
      BY <2>1
    <3> QED
      BY <3>2
  <2>3. k - 1 \in 0 .. n /\ \A y \in S : y <= k - 1
    BY <1>2, <2>1, <2>2
  <2>4. k - 1 \in B
    BY <2>3
  <2> QED
    BY <1>2, <2>4
<1>4. \A y \in S : k >= y
  BY <1>2
<1>5. \E x \in S : \A y \in S : x >= y
  BY <1>3, <1>4
<1>6. Max(S) \in S /\ \A y \in S : Max(S) >= y
  BY <1>5 DEF Max
<1> QED
  BY <1>6

LEMMA Smallest ==
  ASSUME NEW S, S \subseteq Nat, S # {}
  PROVE  Min(S) \in S /\ \A y \in S : Min(S) <= y
BY Least DEF Min

LEMMA WriteConsistent ==
  ASSUME NEW b, NEW r, Consistent(b, r), NEW chars \in Seq(Cells),
         Holds(b.ssml \o chars, Inner(b, r), b.edge, b.inSayAs, b.prosodyCount)
  PROVE  Consistent(Write(b, chars), r) /\ Same(b, Write(b, chars))
<1> DEFINE w == Write(b, chars)
<1>1. w \in Builders /\ Same(b, w) /\ w.ssml = b.ssml \o chars
  BY WriteType DEF Consistent
<1> HIDE DEF w
<1>2. Inner(w, r) = Inner(b, r)
  BY <1>1 DEF Same, Inner
<1>3. Consistent(w, r)
  BY <1>1, <1>2 DEF Consistent, Same
<1> QED
  BY <1>1, <1>3 DEF w

\* A tag that is closed at once.
LEMMA SelfStep ==
  ASSUME NEW r \in Seq(Strings), NEW b, Consistent(b, r), ~b.edge, ~b.inSayAs,
         NEW m \in Strings, m # "say-as"
  PROVE  Consistent(Write(b, Tag("self", m)), r) /\ Same(b, Write(b, Tag("self", m)))
<1>1. b \in Builders /\ b.prosodyCount \in Nat /\ b.inSayAs = FALSE
  BY ConsistentParts
<1>2. PICK q \in Seq(Strings) : q = Inner(b, r)
  <2>1. Inner(b, r) \in Seq(Strings)
    BY <1>1, InnerParts
  <2> QED
    BY <2>1
<1>3. Holds(b.ssml, q, b.edge, FALSE, b.prosodyCount)
  BY <1>1, <1>2 DEF Consistent
<1>4. Holds(b.ssml \o Tag("self", m), q, b.edge, FALSE, b.prosodyCount)
  BY <1>1, <1>3, HoldsSelf
<1>5. Tag("self", m) \in Seq(Cells)
  <2>1. "self" \in Strings
    BY Literals
  <2> QED
    BY <2>1, TagCells
<1> QED
  BY <1>1, <1>2, <1>4, <1>5, WriteConsistent

LEMMA SameSame ==
  ASSUME NEW a, NEW b, NEW c, Same(a, b), Same(b, c)
  PROVE  Same(a, c)
BY DEF Same

\* A tag around the text of one fragment.
LEMMA AroundStep ==
  ASSUME NEW r \in Seq(Strings), NEW b, Consistent(b, r), ~b.edge, ~b.inSayAs,
         NEW m \in Strings, NEW f \in Fragments
  PROVE  LET c == Write(MappedText(Write(b, Tag("open", m)), f), Tag("close", m))
         IN  Consistent(c, r) /\ Same(b, c)
<1> DEFINE w == Write(b, Tag("open", m))
           t == MappedText(w, f)
           c == Write(t, Tag("close", m))
<1>1. b \in Builders /\ b.prosodyCount \in Nat /\ b.inSayAs = FALSE /\ b.edge = FALSE
  BY ConsistentParts
<1>2. PICK q \in Seq(Strings) : q = Inner(b, r)
  <2>1. Inner(b, r) \in Seq(Strings)
    BY <1>1, InnerParts
  <2> QED
    BY <2>1
<1>3. Holds(b.ssml, q, FALSE, FALSE, b.prosodyCount)
  BY <1>1, <1>2 DEF Consistent
<1>4. "open" \in Strings /\ "close" \in Strings
  BY Literals
<1>5. Tag("open", m) \in Seq(Cells) /\ Tag("close", m) \in Seq(Cells)
  BY <1>4, TagCells
<1>6. w \in Builders /\ Same(b, w) /\ w.ssml = b.ssml \o Tag("open", m)
  BY <1>1, <1>5, WriteType
<1> HIDE DEF w
<1>7. t \in Builders /\ Same(w, t) /\ t.ssml \in TextAfter(w.ssml)
  BY <1>6, MappedTextSaid DEF Said
<1> HIDE DEF t
<1>8. c \in Builders /\ Same(t, c) /\ c.ssml = t.ssml \o Tag("close", m)
  BY <1>5, <1>7, WriteType
<1> HIDE DEF c
<1>9. Same(b, c)
  BY <1>6, <1>7, <1>8, SameSame
<1>10. Holds(c.ssml, q, FALSE, FALSE, b.prosodyCount)
  <2>1. CASE m = "say-as"
    <3>1. Holds(w.ssml, Append(q, "say-as"), FALSE, TRUE, b.prosodyCount)
      BY <1>3, <1>6, <2>1, HoldsSayAs
    <3>2. Holds(t.ssml, Append(q, "say-as"), FALSE, TRUE, b.prosodyCount)
      BY <1>7, <3>1, HoldsText
    <3>3. Holds(t.ssml \o Tag("close", "say-as"), q, FALSE, FALSE, b.prosodyCount)
      BY <3>2, HoldsEndSayAs
    <3> QED
      BY <1>8, <2>1, <3>3
  <2>2. CASE m # "say-as"
    <3>0. PICK k \in Nat : k = IF m = "prosody" THEN b.prosodyCount + 1 ELSE b.prosodyCount
      BY <1>1
    <3>1. Holds(b.ssml \o Tag("open", m), Append(q, m), FALSE, FALSE,
                IF m = "prosody" THEN b.prosodyCount + 1 ELSE b.prosodyCount)
      BY <1>1, <1>3, <2>2, HoldsOpen
    <3>2. Holds(t.ssml, Append(q, m), FALSE, FALSE, k)
      BY <1>6, <1>7, <3>0, <3>1, HoldsText
    <3>3. Holds(t.ssml \o Tag("close", m), q, FALSE, FALSE, k)
      BY <2>2, <3>2, HoldsClose
    <3> QED
      BY <1>8, <3>3 DEF Holds, Sound
  <2> QED
    BY <2>1, <2>2
<1>11. Inner(c, r) = q
  BY <1>2, <1>9 DEF Same, Inner
<1>12. NoSayAs(b.customTags)
  BY DEF Consistent
<1>13. /\ c.edge = FALSE /\ c.inSayAs = FALSE /\ c.prosodyCount = b.prosodyCount
       /\ c.customTags = b.customTags
  BY <1>1, <1>9 DEF Same
<1>14. Consistent(c, r)
  BY <1>8, <1>10, <1>11, <1>12, <1>13 DEF Consistent
<1> QED
  BY <1>9, <1>14 DEF c, t, w

\* A custom tag is opened.
LEMMA CustomOpenStep ==
  ASSUME NEW r \in Seq(Strings), NEW b, Consistent(b, r), ~b.edge, ~b.inSayAs, b.inCustomTags,
         NEW m \in Strings, m # "say-as"
  PROVE  LET c == [Write(b, Tag("open", m)) EXCEPT !.customTags = Append(@, m)]
         IN  /\ Consistent(c, r) /\ c.edge = b.edge /\ c.inProsody = b.inProsody /\ c.inEmphasis = b.inEmphasis
             /\ c.inCustomTags = b.inCustomTags /\ c.inSayAs = b.inSayAs /\ c.prosodyCount = b.prosodyCount
             /\ c.customTags = Append(b.customTags, m)
<1> DEFINE w == Write(b, Tag("open", m))
           c == [w EXCEPT !.customTags = Append(@, m)]
<1>1. b \in Builders /\ b.prosodyCount \in Nat /\ b.inSayAs = FALSE /\ b.edge = FALSE /\ b.customTags \in Seq(Strings)
  BY ConsistentParts
<1>2. PICK q \in Seq(Strings) : q = Inner(b, r)
  <2>1. Inner(b, r) \in Seq(Strings)
    BY <1>1, InnerParts
  <2> QED
    BY <2>1
<1>3. Holds(b.ssml, q, FALSE, FALSE, b.prosodyCount)
  BY <1>1, <1>2 DEF Consistent
<1>4. Tag("open", m) \in Seq(Cells)
  <2>1. "open" \in Strings
    BY Literals
  <2> QED
    BY <2>1, TagCells
<1>5. w \in Builders /\ Same(b, w) /\ w.ssml = b.ssml \o Tag("open", m)
  BY <1>1, <1>4, WriteType
<1> HIDE DEF w
<1>6. Append(b.customTags, m) \in Seq(Strings) /\ NoSayAs(Append(b.customTags, m))
  <2>1. NoSayAs(b.customTags)
    BY DEF Consistent
  <2>2. PICK k \in Seq(Strings) : k = b.customTags
    BY <1>1
  <2>3. /\ Append(k, m) \in Seq(Strings) /\ Len(Append(k, m)) = Len(k) + 1 /\ Append(k, m)[Len(k) + 1] = m
        /\ \A i \in 1 .. Len(k) : Append(k, m)[i] = k[i]
    OBVIOUS
  <2>4. Len(k) \in Nat
    OBVIOUS
  <2>5. \A i \in 1 .. Len(k) + 1 : i \in 1 .. Len(k) \/ i = Len(k) + 1
    BY <2>4
  <2>6. NoSayAs(Append(k, m))
    BY <2>1, <2>2, <2>3, <2>5 DEF NoSayAs
  <2> QED
    BY <2>2, <2>3, <2>6
<1>7. /\ c \in Builders /\ c.ssml = w.ssml /\ c.customTags = Append(b.customTags, m)
      /\ c.edge = b.edge /\ c.inProsody = b.inProsody /\ c.inEmphasis = b.inEmphasis
      /\ c.inCustomTags = b.inCustomTags /\ c.inSayAs = b.inSayAs /\ c.prosodyCount = b.prosodyCount
  <2>1. PICK k \in Seq(Strings) : k = Append(b.customTags, m)
    BY <1>6
  <2>2. c = [w EXCEPT !.customTags = k]
    BY <1>5, <2>1 DEF Same
  <2> HIDE DEF c
  <2> QED
    BY <1>5, <2>1, <2>2 DEF Builders, Same
<1> HIDE DEF c
<1>8. Holds(c.ssml, Append(q, m), FALSE, FALSE, b.prosodyCount)
  <2>1. Holds(b.ssml \o Tag("open", m), Append(q, m), FALSE, FALSE,
              IF m = "prosody" THEN b.prosodyCount + 1 ELSE b.prosodyCount)
    BY <1>1, <1>3, HoldsOpen
  <2> QED
    BY <1>5, <1>7, <2>1 DEF Holds, Sound
<1>9. Inner(c, r) = Append(q, m)
  <2>1. Inner(b, r) = (r \o One(b.inProsody, "prosody") \o One(b.inEmphasis, "emphasis")) \o b.customTags
    BY <1>1, Outer
  <2>2. Inner(c, r) = (r \o One(b.inProsody, "prosody") \o One(b.inEmphasis, "emphasis")) \o Append(b.customTags, m)
    <3>0. c \in Builders /\ ~c.inSayAs /\ c.inCustomTags
      BY <1>1, <1>7
    <3>1. Inner(c, r) = (r \o One(c.inProsody, "prosody") \o One(c.inEmphasis, "emphasis")) \o c.customTags
      BY <3>0, Outer
    <3> QED
      BY <1>7, <3>1
  <2>3. PICK p \in Seq(Strings) : p = r \o One(b.inProsody, "prosody") \o One(b.inEmphasis, "emphasis")
    BY <1>1, Outer
  <2>4. \A k \in Seq(Strings) : p \o Append(k, m) = Append(p \o k, m)
    OBVIOUS
  <2> QED
    BY <1>1, <1>2, <2>1, <2>2, <2>3, <2>4
<1>10. Consistent(c, r)
  BY <1>1, <1>6, <1>7, <1>8, <1>9 DEF Consistent
<1> QED
  BY <1>7, <1>10 DEF c, w

\* What CloseCustomTag does when it finds a tag to close.
ClosesAt(T, b, k, m, i) ==
    /\ EqualsIgnoreCase(k[i], m)
    /\ SubSeq(k, 1, i - 1) \in Seq(T) /\ SubSeq(k, i + 1, Len(k)) \in Seq(T)
    /\ CloseCustomTag(b, m) =
         [Write(b, Closing(SubSeq(k, i + 1, Len(k))) \o Tag("close", m))
            EXCEPT !.customTags = SubSeq(@, 1, i - 1)]

LEMMA CloseCustomTagIs ==
  ASSUME NEW T, NEW b, NEW k \in Seq(T), k = b.customTags, NEW m
  PROVE  \/ CloseCustomTag(b, m) = b
         \/ \E i \in 1 .. Len(k) : ClosesAt(T, b, k, m, i)
<1> DEFINE open == {i \in DOMAIN k : EqualsIgnoreCase(k[i], m)}
           i == Max(open)
<1>1. CASE open = {}
  BY <1>1 DEF CloseCustomTag
<1>2. CASE open # {}
  <2>1. open \subseteq 1 .. Len(k) /\ Len(k) \in Nat
    OBVIOUS
  <2>2. i \in 1 .. Len(k) /\ i \in open
    <3>1. open \subseteq 0 .. Len(k)
      BY <2>1
    <3> HIDE DEF open
    <3> QED
      BY <1>2, <2>1, <3>1, Largest
  <2>3. EqualsIgnoreCase(k[i], m)
    BY <2>2
  <2>4. CloseCustomTag(b, m) =
          [Write(b, Closing(SubSeq(k, i + 1, Len(k))) \o Tag("close", m))
             EXCEPT !.customTags = SubSeq(@, 1, i - 1)]
    BY <1>2 DEF CloseCustomTag
  <2> HIDE DEF i
  <2>5. SubSeq(k, 1, i - 1) \in Seq(T) /\ SubSeq(k, i + 1, Len(k)) \in Seq(T)
    BY <2>2
  <2> QED
    BY <2>2, <2>3, <2>4, <2>5 DEF ClosesAt
<1> QED
  BY <1>1, <1>2

LEMMA Split ==
  ASSUME NEW k \in Seq(Strings), NEW i \in 1 .. Len(k), NEW p \in Seq(Strings)
  PROVE  /\ SubSeq(k, 1, i - 1) \in Seq(Strings) /\ SubSeq(k, i + 1, Len(k)) \in Seq(Strings)
         /\ p \o SubSeq(k, 1, i - 1) \in Seq(Strings)
         /\ p \o k = Append(p \o SubSeq(k, 1, i - 1), k[i]) \o SubSeq(k, i + 1, Len(k))
         /\ NoSayAs(k) => /\ NoSayAs(SubSeq(k, 1, i - 1)) /\ NoSayAs(SubSeq(k, i + 1, Len(k)))
                          /\ k[i] # "say-as"
<1>1. SubSeq(k, 1, i - 1) \in Seq(Strings) /\ SubSeq(k, i + 1, Len(k)) \in Seq(Strings) /\ k[i] \in Strings
  OBVIOUS
<1>2. k = Append(SubSeq(k, 1, i - 1), k[i]) \o SubSeq(k, i + 1, Len(k))
  <2>1. k = SubSeq(k, 1, i) \o SubSeq(k, i + 1, Len(k))
    OBVIOUS
  <2>2. SubSeq(k, 1, i) = Append(SubSeq(k, 1, i - 1), k[i])
    OBVIOUS
  <2> QED
    BY <2>1, <2>2
<1>3. \A a \in Seq(Strings), x \in Strings, b \in Seq(Strings) :
         p \o (Append(a, x) \o b) = Append(p \o a, x) \o b /\ p \o a \in Seq(Strings)
  <2> TAKE a \in Seq(Strings), x \in Strings, b \in Seq(Strings)
  <2>1. PICK y \in Seq(Strings) : y = Append(a, x)
    <3>1. Append(a, x) \in Seq(Strings)
      OBVIOUS
    <3> QED
      BY <3>1
  <2>2. p \o (y \o b) = (p \o y) \o b
    OBVIOUS
  <2>3. p \o Append(a, x) = Append(p \o a, x) /\ p \o a \in Seq(Strings)
    OBVIOUS
  <2> QED
    BY <2>1, <2>2, <2>3
<1>4. ASSUME NoSayAs(k)
      PROVE  /\ NoSayAs(SubSeq(k, 1, i - 1)) /\ NoSayAs(SubSeq(k, i + 1, Len(k)))
             /\ k[i] # "say-as"
  <2>1. /\ Len(SubSeq(k, 1, i - 1)) = i - 1 /\ Len(SubSeq(k, i + 1, Len(k))) = Len(k) - i
        /\ \A j \in 1 .. i - 1 : SubSeq(k, 1, i - 1)[j] = k[j]
        /\ \A j \in 1 .. Len(k) - i : SubSeq(k, i + 1, Len(k))[j] = k[i + j]
    OBVIOUS
  <2>2. (\A j \in 1 .. i - 1 : j \in 1 .. Len(k)) /\ \A j \in 1 .. Len(k) - i : i + j \in 1 .. Len(k)
    OBVIOUS
  <2> QED
    BY <1>4, <2>1, <2>2 DEF NoSayAs
<1>5. PICK a \in Seq(Strings) : a = SubSeq(k, 1, i - 1)
  BY <1>1
<1>6. PICK b \in Seq(Strings) : b = SubSeq(k, i + 1, Len(k))
  BY <1>1
<1>7. PICK x \in Strings : x = k[i]
  BY <1>1
<1>8. p \o (Append(a, x) \o b) = Append(p \o a, x) \o b /\ p \o a \in Seq(Strings) /\ k = Append(a, x) \o b
  BY <1>2, <1>3, <1>5, <1>6, <1>7
<1>9. p \o k = Append(p \o a, x) \o b
  BY <1>8
<1> QED
  BY <1>4, <1>5, <1>6, <1>7, <1>8, <1>9

\* The open tags are among these names, and one that differs from m in its
\* case only is not.
Among(b, names) == \A k \in 1 .. Len(b.customTags) : b.customTags[k] \in names
SameCase(names, m) == \A n \in names : EqualsIgnoreCase(n, m) => n = m

\* Both at once, or one after the other.
LEMMA WriteTwice ==
  ASSUME NEW z \in Builders, NEW t \in Seq(Cells), NEW u \in Seq(Cells)
  PROVE  /\ Write(z, t \o u) \in Builders /\ Same(z, Write(z, t \o u))
         /\ Write(z, t \o u).ssml = (z.ssml \o t) \o u
<1>1. z.ssml \in Seq(Cells)
  BY DEF Builders
<1>2. PICK s \in Seq(Cells) : s = z.ssml
  BY <1>1
<1>a. t \o u \in Seq(Cells)
  BY Associative
<1>3. PICK w \in Seq(Cells) : w = t \o u
  BY <1>a
<1>4. s \o w = (s \o t) \o u
  BY <1>3, Associative
<1>5. /\ Write(z, w) \in Builders /\ Same(z, Write(z, w)) /\ Write(z, w).ssml = z.ssml \o w
  BY WriteType
<1> QED
  BY <1>2, <1>3, <1>4, <1>5

\* What was opened since, and it, are closed.
LEMMA CustomCloseStep ==
  ASSUME NEW r \in Seq(Strings), NEW b, Consistent(b, r), ~b.edge, ~b.inSayAs, b.inCustomTags,
         NEW m, NEW names, Among(b, names), SameCase(names, m)
  PROVE  LET c == CloseCustomTag(b, m)
         IN  /\ Consistent(c, r) /\ c.edge = b.edge /\ c.inProsody = b.inProsody /\ c.inEmphasis = b.inEmphasis
             /\ c.inCustomTags = b.inCustomTags /\ c.inSayAs = b.inSayAs /\ c.prosodyCount = b.prosodyCount
             /\ Among(c, names)
<1>1. /\ b \in Builders /\ b.prosodyCount \in Nat /\ b.inSayAs = FALSE /\ b.edge = FALSE
      /\ b.customTags \in Seq(Strings) /\ NoSayAs(b.customTags)
  BY ConsistentParts DEF Consistent
<1>2. PICK k \in Seq(Strings) : k = b.customTags
  BY <1>1
<1>3. CASE CloseCustomTag(b, m) = b
  BY <1>3
<1>4. CASE CloseCustomTag(b, m) # b
  <2>1. PICK i \in 1 .. Len(k) : ClosesAt(Strings, b, k, m, i)
    BY <1>2, <1>4, CloseCustomTagIs
  <2>2. PICK n \in Strings : n = k[i] /\ n = m
    <3>1. k[i] \in Strings /\ k[i] \in names
      BY <1>2 DEF Among
    <3> QED
      BY <2>1, <3>1 DEF SameCase, ClosesAt
  <2>3. PICK rest \in Seq(Strings), gone \in Seq(Strings) :
           rest = SubSeq(k, 1, i - 1) /\ gone = SubSeq(k, i + 1, Len(k))
    BY <2>1 DEF ClosesAt
  <2>4. PICK p \in Seq(Strings) : p = r \o One(b.inProsody, "prosody") \o One(b.inEmphasis, "emphasis")
    BY <1>1, Outer
  <2>5. /\ p \o rest \in Seq(Strings) /\ p \o k = Append(p \o rest, n) \o gone
        /\ NoSayAs(rest) /\ NoSayAs(gone) /\ n # "say-as"
    <3>1. NoSayAs(k)
      BY <1>1, <1>2
    <3>2. /\ p \o SubSeq(k, 1, i - 1) \in Seq(Strings)
          /\ p \o k = Append(p \o SubSeq(k, 1, i - 1), k[i]) \o SubSeq(k, i + 1, Len(k))
          /\ NoSayAs(SubSeq(k, 1, i - 1)) /\ NoSayAs(SubSeq(k, i + 1, Len(k)))
          /\ k[i] # "say-as"
      BY <3>1, Split
    <3> QED
      BY <2>2, <2>3, <3>2
  <2>6. Inner(b, r) = p \o k
    BY <1>1, <1>2, <2>4, Outer
  <2>7. PICK q \in Seq(Strings) : q = p \o rest
    BY <2>5
  <2>8. PICK q1 \in Seq(Strings) : q1 = Append(q, n)
    <3>1. Append(q, n) \in Seq(Strings)
      OBVIOUS
    <3> QED
      BY <3>1
  <2>9. Holds(b.ssml, q1 \o gone, FALSE, FALSE, b.prosodyCount)
    BY <1>1, <2>5, <2>6, <2>7, <2>8 DEF Consistent
  <2>10. PICK t \in Seq(Cells) : t = Closing(gone) /\ Holds(b.ssml \o t, q1, FALSE, FALSE, b.prosodyCount)
    BY <2>5, <2>9, HoldsClosing
  <2>11. PICK u \in Seq(Cells) : u = Tag("close", n)
    BY Literals, TagCells
  <2>12. Holds((b.ssml \o t) \o u, q, FALSE, FALSE, b.prosodyCount)
    BY <1>1, <2>5, <2>8, <2>10, <2>11, HoldsClose
  <2>13. PICK w \in Builders : w = Write(b, t \o u) /\ Same(b, w) /\ w.ssml = (b.ssml \o t) \o u
    BY <1>1, WriteTwice
  <2>14. w.customTags = k
    BY <1>2, <2>13 DEF Same
  <2> DEFINE c == [w EXCEPT !.customTags = rest]
  <2>15. CloseCustomTag(b, m) = c
    BY <2>1, <2>2, <2>3, <2>10, <2>11, <2>13, <2>14 DEF ClosesAt
  <2>16. /\ c \in Builders /\ c.ssml = w.ssml /\ c.customTags = rest
         /\ c.edge = b.edge /\ c.inProsody = b.inProsody /\ c.inEmphasis = b.inEmphasis
         /\ c.inCustomTags = b.inCustomTags /\ c.inSayAs = b.inSayAs /\ c.prosodyCount = b.prosodyCount
    BY <2>13 DEF Builders, Same
  <2> HIDE DEF c
  <2>17. Inner(c, r) = q
    <3>1. c \in Builders /\ ~c.inSayAs /\ c.inCustomTags
      BY <1>1, <2>16
    <3>2. Inner(c, r) = (r \o One(c.inProsody, "prosody") \o One(c.inEmphasis, "emphasis")) \o c.customTags
      BY <3>1, Outer
    <3> QED
      BY <2>4, <2>7, <2>16, <3>2
  <2>18. Consistent(c, r)
    BY <1>1, <2>5, <2>12, <2>13, <2>16, <2>17 DEF Consistent
  <2>19. Among(c, names)
    <3>1. \A j \in 1 .. Len(rest) : j \in 1 .. Len(k) /\ rest[j] = k[j]
      BY <2>3
    <3> QED
      BY <1>2, <2>16, <3>1 DEF Among
  <2> QED
    BY <2>15, <2>16, <2>18, <2>19
<1> QED
  BY <1>3, <1>4

\* What Body does with the tags of a fragment leaves those around it alone.
SameFlags(b, c) ==
    /\ c.edge = b.edge /\ c.inProsody = b.inProsody /\ c.inEmphasis = b.inEmphasis
    /\ c.inCustomTags = b.inCustomTags /\ c.inSayAs = b.inSayAs /\ c.prosodyCount = b.prosodyCount

\* An opening tag is one of the names, a closing tag the same as the one it closes.
Spells(f, names) ==
    f.act = "ParseUnknownTag" =>
      /\ f.tag.dir = "open" => f.tag.name \in names
      /\ f.tag.dir = "close" => SameCase(names, f.tag.name)

LEMMA BodyStep ==
  ASSUME NEW r \in Seq(Strings), NEW b, Consistent(b, r), ~b.edge, b.inCustomTags, NEW f \in Fragments,
         b.inSayAs => f.act = "Speak", f.act = "ParseUnknownTag" => f.tag.name # "say-as",
         NEW names, Among(b, names), Spells(f, names)
  PROVE  Consistent(Body(b, f), r) /\ SameFlags(b, Body(b, f)) /\ Among(Body(b, f), names)
<1>1. b \in Builders
  BY DEF Consistent
<1>2. f.act \in Acts /\ f.tag \in Tags /\ (f.act = "ParseUnknownTag" => f.tag.dir \in {"self", "open", "close", "bad"})
  BY DEF Fragments
<1>3. \A c : Same(b, c) => SameFlags(b, c) /\ Among(c, names)
  BY DEF Same, SameFlags, Among
<1>4. CASE f.act = "Speak"
  <2>1. Body(b, f) = MappedText(Spaced(b, f), f)
    BY <1>4 DEF Body
  <2>2. MappedText(Spaced(b, f), f) \in Said(b)
    BY <1>1, SpacedTextSaid
  <2> QED
    BY <1>3, <2>1, <2>2, ConsistentSaid
<1>5. CASE f.act = "Silence"
  <2>1. Body(b, f) = Write(b, Tag("self", "break"))
    BY <1>5 DEF Body
  <2>2. PICK m \in Strings : m = "break"
    BY Literals
  <2>3. m # "say-as"
    BY <2>2
  <2>4. Consistent(Write(b, Tag("self", m)), r) /\ Same(b, Write(b, Tag("self", m)))
    BY <1>5, <2>3, SelfStep
  <2> QED
    BY <1>3, <2>1, <2>2, <2>4
<1>6. CASE f.act = "Bookmark"
  <2>1. Body(b, f) = AddBookmark(Write(b, Tag("self", "bookmark")), f)
    BY <1>6 DEF Body
  <2>2. PICK m \in Strings : m = "bookmark"
    BY Literals
  <2>3. m # "say-as"
    BY <2>2
  <2>4. PICK w : w = Write(b, Tag("self", m))
    OBVIOUS
  <2>5. Consistent(w, r) /\ Same(b, w)
    BY <1>6, <2>3, <2>4, SelfStep
  <2>6. AddBookmark(w, f) \in Said(w)
    BY <2>5, AddBookmarkSaid DEF Consistent
  <2>7. Consistent(AddBookmark(w, f), r) /\ Same(w, AddBookmark(w, f))
    BY <2>5, <2>6, ConsistentSaid
  <2>8. Same(b, AddBookmark(w, f))
    BY <2>5, <2>7, SameSame
  <2> QED
    BY <1>3, <2>1, <2>2, <2>4, <2>7, <2>8
<1>7. CASE f.act \in {"SpellOut", "Pronounce"}
  <2>1. PICK m \in Strings : m = IF f.act = "SpellOut" THEN "say-as" ELSE "phoneme"
    BY Literals
  <2>2. Body(b, f) = Write(MappedText(Write(b, Tag("open", m)), f), Tag("close", m))
    BY <1>7, <2>1 DEF Body
  <2>3. /\ Consistent(Write(MappedText(Write(b, Tag("open", m)), f), Tag("close", m)), r)
        /\ Same(b, Write(MappedText(Write(b, Tag("open", m)), f), Tag("close", m)))
    BY <1>7, AroundStep
  <2> QED
    BY <1>3, <2>2, <2>3
<1>8. CASE f.act = "ParseUnknownTag"
  <2>1. Body(b, f) = UnknownTag(b, f.tag)
    BY <1>8 DEF Body
  <2>2. PICK m \in Strings : m = f.tag.name /\ m # "say-as"
    BY <1>2, <1>8 DEF Tags
  <2>3. ~b.inSayAs
    BY <1>8
  <2>4. CASE f.tag.dir = "self"
    <3>1. UnknownTag(b, f.tag) = Write(b, Tag("self", m))
      BY <2>2, <2>4 DEF UnknownTag
    <3> QED
      BY <1>3, <2>1, <2>2, <2>3, <3>1, SelfStep
  <2>5. CASE f.tag.dir = "close"
    <3>1. UnknownTag(b, f.tag) = CloseCustomTag(b, m)
      BY <2>2, <2>5 DEF UnknownTag
    <3>2. PICK c : c = CloseCustomTag(b, m)
      OBVIOUS
    <3>3. /\ Consistent(c, r) /\ c.edge = b.edge /\ c.inProsody = b.inProsody /\ c.inEmphasis = b.inEmphasis
          /\ c.inCustomTags = b.inCustomTags /\ c.inSayAs = b.inSayAs /\ c.prosodyCount = b.prosodyCount
          /\ Among(c, names)
      <4>1. SameCase(names, m)
        BY <1>8, <2>2, <2>5 DEF Spells
      <4> QED
        BY <2>3, <3>2, <4>1, CustomCloseStep
    <3>4. SameFlags(b, c)
      BY <3>3 DEF SameFlags
    <3> QED
      BY <2>1, <3>1, <3>2, <3>3, <3>4
  <2>6. CASE f.tag.dir = "bad"
    <3>1. UnknownTag(b, f.tag) = b
      BY <2>6 DEF UnknownTag
    <3> QED
      BY <2>1, <3>1 DEF SameFlags
  <2>7. CASE f.tag.dir = "open"
    <3>1. UnknownTag(b, f.tag) = [Write(b, Tag("open", m)) EXCEPT !.customTags = Append(@, m)]
      BY <2>2, <2>7 DEF UnknownTag
    <3> DEFINE c == [Write(b, Tag("open", m)) EXCEPT !.customTags = Append(@, m)]
    <3>2. m # "say-as" /\ ~b.inSayAs
      BY <2>2, <2>3
    <3>3. /\ Consistent(c, r) /\ c.edge = b.edge /\ c.inProsody = b.inProsody /\ c.inEmphasis = b.inEmphasis
          /\ c.inCustomTags = b.inCustomTags /\ c.inSayAs = b.inSayAs /\ c.prosodyCount = b.prosodyCount
          /\ c.customTags = Append(b.customTags, m)
      BY <3>2, CustomOpenStep
    <3> HIDE DEF c
    <3>4. SameFlags(b, c)
      BY <3>3 DEF SameFlags
    <3>5. Among(c, names)
      <4>1. PICK k \in Seq(Strings) : k = b.customTags
        BY <1>1 DEF Builders
      <4>2. m \in names
        BY <1>8, <2>2, <2>7 DEF Spells
      <4>3. \A j \in 1 .. Len(k) : k[j] \in names
        BY <4>1 DEF Among
      <4>4. \A j \in 1 .. Len(Append(k, m)) : Append(k, m)[j] \in names
        BY <4>2, <4>3
      <4> QED
        BY <3>3, <4>1, <4>4 DEF Among
    <3> QED
      BY <2>1, <3>1, <3>3, <3>4, <3>5 DEF c
  <2> QED
    BY <1>2, <1>8, <2>4, <2>5, <2>6, <2>7
<1> QED
  BY <1>2, <1>4, <1>5, <1>6, <1>7, <1>8 DEF Acts

\* A tag that is open is closed, one that is not is left alone.
LEMMA EndTag ==
  ASSUME NEW s \in Seq(Cells), NEW q \in Seq(Strings), NEW e, NEW n \in Nat, NEW open \in BOOLEAN,
         NEW m \in Strings, m # "say-as", e /\ open => m \in EdgeTags,
         Holds(s, q \o One(open, m), e, FALSE, n),
         NEW end \in Seq(Cells), end = IF open THEN Tag("close", m) ELSE <<>>
  PROVE  s \o end \in Seq(Cells) /\ Holds(s \o end, q, e, FALSE, n)
<1>1. <<>> \in Seq(Cells) /\ s \o <<>> = s /\ q \o <<>> = q /\ q \o <<m>> = Append(q, m)
  OBVIOUS
<1>2. CASE open
  <2>1. Holds(s, Append(q, m), e, FALSE, n)
    BY <1>1, <1>2 DEF One
  <2>2. Holds(s \o Tag("close", m), q, e, FALSE, n)
    BY <1>2, <2>1, HoldsClose
  <2>3. Tag("close", m) \in Seq(Cells)
    BY Literals, TagCells
  <2> QED
    BY <1>2, <2>2, <2>3 DEF Holds
<1>3. CASE ~open
  BY <1>1, <1>3 DEF One
<1> QED
  BY <1>2, <1>3

LEMMA EndSayAsTag ==
  ASSUME NEW s \in Seq(Cells), NEW q \in Seq(Strings), NEW e, NEW n \in Nat, NEW open \in BOOLEAN,
         e => ~open, Holds(s, q \o One(open, "say-as"), e, open, n),
         NEW end \in Seq(Cells), end = IF open THEN Tag("close", "say-as") ELSE <<>>,
         NEW t, t = s \o end
  PROVE  t \in Seq(Cells) /\ Holds(t, q, e, FALSE, n)
<1>0. PICK m \in Strings : m = "say-as"
  BY Literals
<1>1. <<>> \in Seq(Cells) /\ s \o <<>> = s /\ q \o <<>> = q /\ q \o <<m>> = Append(q, m)
  OBVIOUS
<1>2. CASE open
  <2>1. ~e /\ Holds(s, Append(q, "say-as"), e, TRUE, n)
    BY <1>0, <1>1, <1>2 DEF One
  <2>2. Holds(s, Append(q, "say-as"), FALSE, TRUE, n)
    BY <2>1 DEF Holds, Sound
  <2>3. Holds(s \o Tag("close", "say-as"), q, FALSE, FALSE, n)
    BY <2>2, HoldsEndSayAs
  <2>4. Holds(s \o Tag("close", "say-as"), q, e, FALSE, n)
    BY <2>1, <2>3 DEF Holds, Sound
  <2>5. Tag("close", "say-as") \in Seq(Cells)
    BY Literals, TagCells
  <2> QED
    BY <1>2, <2>4, <2>5 DEF Holds
<1>3. CASE ~open
  BY <1>1, <1>3 DEF One
<1> QED
  BY <1>2, <1>3

LEMMA EndCustomTags ==
  ASSUME NEW s \in Seq(Cells), NEW q \in Seq(Strings), NEW e, NEW n \in Nat, NEW open \in BOOLEAN,
         NEW names \in Seq(Strings), NoSayAs(names), e => names = <<>>,
         Holds(s, q \o (IF open THEN names ELSE <<>>), e, FALSE, n),
         NEW end \in Seq(Cells), end = IF open THEN Closing(names) ELSE <<>>
  PROVE  s \o end \in Seq(Cells) /\ Holds(s \o end, q, e, FALSE, n)
<1>1. <<>> \in Seq(Cells) /\ s \o <<>> = s /\ q \o <<>> = q
  OBVIOUS
<1>2. CASE open
  <2>1. Holds(s, q \o names, e, FALSE, n)
    BY <1>2
  <2>2. Closing(names) \in Seq(Cells) /\ Holds(s \o Closing(names), q, e, FALSE, n)
    BY <2>1, HoldsClosing
  <2> QED
    BY <1>2, <2>2 DEF Holds
<1>3. CASE ~open
  BY <1>1, <1>3
<1> QED
  BY <1>2, <1>3

LEMMA Empty == <<>> \in Seq(Cells) /\ <<>> \in Seq(Strings)
OBVIOUS

LEMMA ClosingCells == ASSUME NEW names \in Seq(Strings) PROVE Closing(names) \in Seq(Cells)
<1>1. PICK f \in [0 .. Len(names) -> Seq(Cells)] : Closing(names) = f[Len(names)]
  BY ClosingIs
<1>2. Len(names) \in 0 .. Len(names)
  OBVIOUS
<1> QED
  BY <1>1, <1>2

LEMMA OneName == \A open : \A m \in Strings : One(open, m) \in Seq(Strings)
<1>1. \A m \in Strings : <<m>> \in Seq(Strings)
  OBVIOUS
<1> QED
  BY <1>1, Empty DEF One

\* The end tags that CloseTags writes.
SayAsEnd(b, level)    == IF b.inSayAs /\ level < 3 THEN Tag("close", "say-as") ELSE <<>>
CustomEnd(b, level)   == IF b.inCustomTags /\ level < 2 THEN Closing(b.customTags) ELSE <<>>
EmphasisEnd(b, level) == IF b.inEmphasis /\ level < 2 THEN Tag("close", "emphasis") ELSE <<>>
ProsodyEnd(b, level)  == IF b.inProsody /\ level < 1 THEN Tag("close", "prosody") ELSE <<>>
Ends(b, level) == SayAsEnd(b, level) \o CustomEnd(b, level) \o EmphasisEnd(b, level) \o ProsodyEnd(b, level)

LEMMA EndsType ==
  ASSUME NEW b \in Builders, NEW level \in 0 .. 3
  PROVE  /\ SayAsEnd(b, level) \in Seq(Cells) /\ CustomEnd(b, level) \in Seq(Cells)
         /\ EmphasisEnd(b, level) \in Seq(Cells) /\ ProsodyEnd(b, level) \in Seq(Cells)
<1>1. PICK u \in Seq(Cells) : u = <<>>
  BY Empty
<1>2. PICK t1 \in Seq(Cells), t2 \in Seq(Cells), t3 \in Seq(Cells), t4 \in Seq(Cells) :
         /\ t1 = Tag("close", "say-as") /\ t2 = Closing(b.customTags)
         /\ t3 = Tag("close", "emphasis") /\ t4 = Tag("close", "prosody")
  <2>1. Tag("close", "say-as") \in Seq(Cells) /\ Tag("close", "emphasis") \in Seq(Cells) /\ Tag("close", "prosody") \in Seq(Cells)
    BY Literals, TagCells
  <2>2. b.customTags \in Seq(Strings)
    BY DEF Builders
  <2>3. Closing(b.customTags) \in Seq(Cells)
    BY <2>2, ClosingCells
  <2> QED
    BY <2>1, <2>3
<1>3. SayAsEnd(b, level) \in {t1, u}
  BY <1>1, <1>2 DEF SayAsEnd
<1>4. CustomEnd(b, level) \in {t2, u}
  BY <1>1, <1>2 DEF CustomEnd
<1>5. EmphasisEnd(b, level) \in {t3, u}
  BY <1>1, <1>2 DEF EmphasisEnd
<1>6. ProsodyEnd(b, level) \in {t4, u}
  BY <1>1, <1>2 DEF ProsodyEnd
<1> QED
  BY <1>3, <1>4, <1>5, <1>6

LEMMA EndsWritten ==
  ASSUME NEW b \in Builders, NEW level \in 0 .. 3
  PROVE  LET w == Write(b, Ends(b, level))
         IN  /\ w \in Builders /\ Same(b, w)
             /\ w.ssml = (((b.ssml \o SayAsEnd(b, level)) \o CustomEnd(b, level)) \o EmphasisEnd(b, level))
                            \o ProsodyEnd(b, level)
<1>1. PICK A \in Seq(Cells) : A = SayAsEnd(b, level)
  BY EndsType
<1>2. PICK B \in Seq(Cells) : B = CustomEnd(b, level)
  BY EndsType
<1>3. PICK C \in Seq(Cells) : C = EmphasisEnd(b, level)
  BY EndsType
<1>4. PICK D \in Seq(Cells) : D = ProsodyEnd(b, level)
  BY EndsType
<1>0. \A x \in Seq(Cells), y \in Seq(Cells) : x \o y \in Seq(Cells)
  OBVIOUS
<1>8. PICK s \in Seq(Cells) : s = b.ssml
  BY DEF Builders
<1>11. s \o (A \o B) = (s \o A) \o B
  OBVIOUS
<1>5. PICK x \in Seq(Cells) : x = A \o B
  BY <1>0
<1>10. s \o (x \o C) = (s \o x) \o C
  OBVIOUS
<1>6. PICK y \in Seq(Cells) : y = x \o C
  BY <1>0
<1>9. s \o (y \o D) = (s \o y) \o D
  OBVIOUS
<1>7. PICK z \in Seq(Cells) : z = y \o D
  BY <1>0
<1>12. Ends(b, level) = z
  BY <1>1, <1>2, <1>3, <1>4, <1>5, <1>6, <1>7 DEF Ends
<1>13. Write(b, z) \in Builders /\ Same(b, Write(b, z)) /\ Write(b, z).ssml = s \o z
  BY <1>8, WriteType
<1>14. s \o z = ((s \o A) \o B) \o C \o D
  BY <1>5, <1>6, <1>7, <1>9, <1>10, <1>11
<1> QED
  BY <1>1, <1>2, <1>3, <1>4, <1>8, <1>12, <1>13, <1>14

\* The innermost tags are closed, as many as the level says.
LEMMA CloseTagsStep ==
  ASSUME NEW r \in Seq(Strings), NEW b, Consistent(b, r), NEW level \in 0 .. 3
  PROVE  LET c == CloseTags(b, level)
         IN  /\ Consistent(c, r) /\ c.edge = b.edge /\ c.customTags = b.customTags
             /\ c.prosodyCount = b.prosodyCount
             /\ c.inSayAs <=> (b.inSayAs /\ level = 3)
             /\ c.inCustomTags <=> (b.inCustomTags /\ level >= 2)
             /\ c.inEmphasis <=> (b.inEmphasis /\ level >= 2)
             /\ c.inProsody <=> (b.inProsody /\ level >= 1)
<1> DEFINE sayAs    == b.inSayAs /\ level < 3
           custom   == b.inCustomTags /\ level < 2
           emphasis == b.inEmphasis /\ level < 2
           prosody  == b.inProsody /\ level < 1
<1>1. /\ b \in Builders /\ b.ssml \in Seq(Cells) /\ b.customTags \in Seq(Strings) /\ b.prosodyCount \in Nat
      /\ NoSayAs(b.customTags)
  BY ConsistentParts DEF Consistent
<1>2. /\ b.edge \in BOOLEAN /\ b.inProsody \in BOOLEAN /\ b.inEmphasis \in BOOLEAN
      /\ b.inCustomTags \in BOOLEAN /\ b.inSayAs \in BOOLEAN
  BY ConsistentParts
<1>l. level \in 0 .. 3 /\ b \in Builders
  BY <1>1
<1>3. PICK A \in Seq(Cells) : A = SayAsEnd(b, level)
  BY <1>l, EndsType
<1>4. PICK B \in Seq(Cells) : B = CustomEnd(b, level)
  BY <1>l, EndsType
<1>5. PICK C \in Seq(Cells) : C = EmphasisEnd(b, level)
  BY <1>l, EndsType
<1>6. PICK D \in Seq(Cells) : D = ProsodyEnd(b, level)
  BY <1>l, EndsType
<1> DEFINE w == Write(b, Ends(b, level))
<1>7. PICK x1 \in BOOLEAN, x2 \in BOOLEAN, x3 \in BOOLEAN, x4 \in BOOLEAN :
         /\ x1 = IF prosody THEN FALSE ELSE b.inProsody
         /\ x2 = IF emphasis THEN FALSE ELSE b.inEmphasis
         /\ x3 = IF custom THEN FALSE ELSE b.inCustomTags
         /\ x4 = IF sayAs THEN FALSE ELSE b.inSayAs
  BY <1>2
<1> DEFINE c == [w EXCEPT !.inSayAs = x4, !.inCustomTags = x3, !.inEmphasis = x2, !.inProsody = x1]
<1>g. \A x \in Seq(Cells), y \in Seq(Cells) : x \o y \in Seq(Cells)
  OBVIOUS
<1>h. PICK t1 \in Seq(Cells) : t1 = b.ssml \o A
  BY <1>1, <1>g
<1>i. PICK t2 \in Seq(Cells) : t2 = t1 \o B
  BY <1>g
<1>j. PICK t3 \in Seq(Cells) : t3 = t2 \o C
  BY <1>g
<1>k. PICK t4 \in Seq(Cells) : t4 = t3 \o D
  BY <1>g
<1>8. w \in Builders /\ Same(b, w) /\ w.ssml = t4
  <2>1. w \in Builders /\ Same(b, w) /\ w.ssml = ((b.ssml \o A) \o B) \o C \o D
    BY <1>l, <1>3, <1>4, <1>5, <1>6, EndsWritten
  <2> QED
    BY <2>1, <1>h, <1>i, <1>j, <1>k
<1>9. CloseTags(b, level) = c
  <2>1. CloseTags(b, level) =
          [w EXCEPT !.inSayAs = IF sayAs THEN FALSE ELSE @, !.inCustomTags = IF custom THEN FALSE ELSE @,
                    !.inEmphasis = IF emphasis THEN FALSE ELSE @, !.inProsody = IF prosody THEN FALSE ELSE @]
    BY DEF CloseTags, Ends, SayAsEnd, CustomEnd, EmphasisEnd, ProsodyEnd
  <2> HIDE DEF w
  <2>2. w.inSayAs = b.inSayAs /\ w.inCustomTags = b.inCustomTags /\ w.inEmphasis = b.inEmphasis
        /\ w.inProsody = b.inProsody
    BY <1>8 DEF Same
  <2> HIDE DEF sayAs, custom, emphasis, prosody
  <2>3. /\ (IF sayAs THEN FALSE ELSE w.inSayAs) = x4 /\ (IF custom THEN FALSE ELSE w.inCustomTags) = x3
        /\ (IF emphasis THEN FALSE ELSE w.inEmphasis) = x2 /\ (IF prosody THEN FALSE ELSE w.inProsody) = x1
    BY <1>7, <2>2
  <2> QED
    BY <2>1, <2>3
<1> HIDE DEF w
<1>10. c \in Builders /\ c.ssml = w.ssml
  BY <1>8 DEF Builders
<1>11. /\ c.edge = b.edge /\ c.customTags = b.customTags /\ c.prosodyCount = b.prosodyCount
       /\ c.inSayAs = x4 /\ c.inCustomTags = x3 /\ c.inEmphasis = x2 /\ c.inProsody = x1
  BY <1>8 DEF Builders, Same
<1> HIDE DEF c
<1>12. /\ x4 <=> (b.inSayAs /\ level = 3) 
       /\ x3 <=> (b.inCustomTags /\ level >= 2)
       /\ x2 <=> (b.inEmphasis /\ level >= 2) 
       /\ x1 <=> (b.inProsody /\ level >= 1)
  BY <1>2, <1>7
<1>13. PICK q1 \in Seq(Strings) : q1 = r \o One(b.inProsody, "prosody")
  <2>1. \A q \in Seq(Strings), n \in Seq(Strings) : q \o n \in Seq(Strings)
    OBVIOUS
  <2>2. One(b.inProsody, "prosody") \in Seq(Strings)
    BY OneName, Literals
  <2> QED
    BY <2>1, <2>2
<1>14. PICK q2 \in Seq(Strings) : q2 = q1 \o One(b.inEmphasis, "emphasis")
  BY <1>1, <1>13, Outer
<1>15. PICK q3 \in Seq(Strings) : q3 = q2 \o (IF b.inCustomTags THEN b.customTags ELSE <<>>)
  <2>0. PICK k \in Seq(Strings), u \in Seq(Strings) : k = b.customTags /\ u = <<>>
    BY <1>1, Empty
  <2>1. PICK m \in Seq(Strings) : m = IF b.inCustomTags THEN b.customTags ELSE <<>>
    BY <2>0
  <2>2. q2 \o m \in Seq(Strings)
    OBVIOUS
  <2> QED
    BY <2>1, <2>2
<1>16. Holds(b.ssml, q3 \o One(b.inSayAs, "say-as"), b.edge, b.inSayAs, b.prosodyCount)
  BY <1>13, <1>14, <1>15 DEF Consistent, Inner
<1>17. b.edge => b.customTags = <<>> /\ ~b.inEmphasis /\ ~b.inSayAs
  BY DEF Consistent
<1>18. \A s \in Seq(Cells) : s \o <<>> = s
  OBVIOUS
<1>20. \A p \in Seq(Strings) : p \o <<>> = p
  OBVIOUS
<1>21. CASE level = 3
  <2>1. A = <<>> /\ B = <<>> /\ C = <<>> /\ D = <<>>
    BY <1>3, <1>4, <1>5, <1>6, <1>21 DEF SayAsEnd, CustomEnd, EmphasisEnd, ProsodyEnd
  <2>2. c.ssml = b.ssml
    BY <1>1, <1>10, <1>18, <1>8, <1>h, <1>i, <1>j, <1>k, <2>1
  <2>3. Same(b, c)
    BY <1>2, <1>11, <1>12, <1>21 DEF Same
  <2>4. Inner(c, r) = Inner(b, r)
    BY <2>3 DEF Same, Inner
  <2>5. Consistent(c, r)
    BY <1>10, <2>2, <2>3, <2>4 DEF Consistent, Same
  <2> QED
    BY <1>9, <1>11, <1>12, <2>5
<1>22. CASE level < 3
  <2>1. Holds(t1, q3, b.edge, FALSE, b.prosodyCount)
    <3>1. A = IF b.inSayAs THEN Tag("close", "say-as") ELSE <<>>
      BY <1>3, <1>22 DEF SayAsEnd
    <3>2. PICK s \in Seq(Cells), n \in Nat, i \in BOOLEAN, e \in BOOLEAN :
             s = b.ssml /\ n = b.prosodyCount /\ i = b.inSayAs /\ e = b.edge
      BY <1>1, <1>2
    <3>3. Holds(s, q3 \o One(i, "say-as"), e, i, n)
      BY <1>16, <3>2
    <3>4. (e => ~i) /\ A = (IF i THEN Tag("close", "say-as") ELSE <<>>) /\ t1 = s \o A
      BY <1>17, <3>1, <3>2, <1>h
    <3>5. Holds(t1, q3, e, FALSE, n)
      BY <3>3, <3>4, EndSayAsTag
    <3> QED
      BY <3>2, <3>5
  <2>2. CASE level = 2
    <3>1. B = <<>> /\ C = <<>> /\ D = <<>>
      BY <1>4, <1>5, <1>6, <2>2 DEF CustomEnd, EmphasisEnd, ProsodyEnd
    <3>2. c.ssml = t1
      BY <1>10, <1>18, <1>8, <1>i, <1>j, <1>k, <3>1
    <3>3. c.inProsody = b.inProsody /\ c.inEmphasis = b.inEmphasis /\ c.inCustomTags = b.inCustomTags /\ c.inSayAs = FALSE
      BY <1>2, <1>11, <1>12, <2>2
    <3>4. Inner(c, r) = q3
      <4>1. Inner(c, r) = (r \o One(c.inProsody, "prosody") \o One(c.inEmphasis, "emphasis"))
                            \o (IF c.inCustomTags THEN c.customTags ELSE <<>>)
        <5>1. c \in Builders /\ ~c.inSayAs
          BY <1>10, <3>3
        <5> QED
          BY <5>1, InnerParts
      <4> QED
        BY <1>11, <1>13, <1>14, <1>15, <3>3, <4>1
    <3>5. Consistent(c, r)
      BY <1>1, <1>10, <1>11, <1>17, <2>1, <3>2, <3>3, <3>4 DEF Consistent
    <3> QED
      BY <1>9, <1>11, <1>12, <3>5
  <2>3. CASE level < 2
    <3>1. Holds(t2, q2, b.edge, FALSE, b.prosodyCount)
      <4>1. B = IF b.inCustomTags THEN Closing(b.customTags) ELSE <<>>
        BY <1>4, <2>3 DEF CustomEnd
      <4>2. Holds(t1, q2 \o (IF b.inCustomTags THEN b.customTags ELSE <<>>), b.edge, FALSE, b.prosodyCount)
        BY <1>15, <2>1
      <4>3. PICK names \in Seq(Strings), n \in Nat, i \in BOOLEAN :
               names = b.customTags /\ n = b.prosodyCount /\ i = b.inCustomTags
        BY <1>1, <1>2
      <4>4. /\ Holds(t1, q2 \o (IF i THEN names ELSE <<>>), b.edge, FALSE, n)
            /\ (b.edge => names = <<>>) /\ B = (IF i THEN Closing(names) ELSE <<>>) /\ NoSayAs(names)
        BY <1>1, <1>17, <4>1, <4>2, <4>3
      <4>5. t1 \o B \in Seq(Cells) /\ Holds(t1 \o B, q2, b.edge, FALSE, n)
        BY <4>4, EndCustomTags
      <4> QED
        BY <4>3, <4>5, <1>i
    <3>2. Holds(t3, q1, b.edge, FALSE, b.prosodyCount)
      <4>1. PICK m \in Strings : m = "emphasis"
        BY Literals
      <4>2. C = IF b.inEmphasis THEN Tag("close", m) ELSE <<>>
        BY <1>5, <2>3, <4>1 DEF EmphasisEnd
      <4>3. Holds(t2, q1 \o One(b.inEmphasis, m), b.edge, FALSE, b.prosodyCount)
        BY <1>14, <3>1, <4>1
      <4>4. m # "say-as" /\ (b.edge /\ b.inEmphasis => m \in EdgeTags)
        BY <1>17, <4>1
      <4>5. PICK n \in Nat, i \in BOOLEAN, e \in BOOLEAN : n = b.prosodyCount /\ i = b.inEmphasis /\ e = b.edge
        BY <1>1, <1>2
      <4>6. /\ Holds(t2, q1 \o One(i, m), e, FALSE, n) /\ C = (IF i THEN Tag("close", m) ELSE <<>>)
            /\ (e /\ i => m \in EdgeTags)
        BY <4>2, <4>3, <4>4, <4>5
      <4>7. t2 \o C \in Seq(Cells) /\ Holds(t2 \o C, q1, e, FALSE, n)
        BY <4>4, <4>6, EndTag
      <4> QED
        BY <4>5, <4>7, <1>j
    <3>3. c.inEmphasis = FALSE /\ c.inCustomTags = FALSE /\ c.inSayAs = FALSE
      BY <1>11, <1>12, <2>3
    <3>4. CASE level = 1
      <4>1. D = <<>>
        BY <1>6, <3>4 DEF ProsodyEnd
      <4>2. c.ssml = t3
        BY <1>10, <1>18, <1>8, <1>k, <4>1
      <4>3. c.inProsody = b.inProsody
        BY <1>2, <1>11, <1>12, <3>4
      <4>4. Inner(c, r) = q1
        <5>1. c \in Builders /\ ~c.inSayAs /\ (c.inCustomTags => c.customTags = <<>>) /\ ~c.inEmphasis
          BY <1>10, <3>3
        <5>2. Inner(c, r) = r \o One(c.inProsody, "prosody")
          BY <5>1, InnerParts
        <5> QED
          BY <1>13, <4>3, <5>2
      <4>5. Consistent(c, r)
        BY <1>1, <1>10, <1>11, <1>17, <3>2, <3>3, <4>2, <4>4 DEF Consistent
      <4> QED
        BY <1>9, <1>11, <1>12, <4>5
    <3>5. CASE level = 0
      <4>1. Holds(t4, r, b.edge, FALSE, b.prosodyCount)
        <5>1. PICK m \in Strings : m = "prosody"
          BY Literals
        <5>2. D = IF b.inProsody THEN Tag("close", m) ELSE <<>>
          BY <1>6, <3>5, <5>1 DEF ProsodyEnd
        <5>3. Holds(t3, r \o One(b.inProsody, m), b.edge, FALSE, b.prosodyCount)
          BY <1>13, <3>2, <5>1
        <5>4. m # "say-as" /\ m \in EdgeTags
          BY <5>1 DEF EdgeTags
        <5>5. PICK n \in Nat, i \in BOOLEAN : n = b.prosodyCount /\ i = b.inProsody
          BY <1>1, <1>2
        <5>6. Holds(t3, r \o One(i, m), b.edge, FALSE, n) /\ D = (IF i THEN Tag("close", m) ELSE <<>>)
          BY <5>2, <5>3, <5>5
        <5>7. t3 \o D \in Seq(Cells) /\ Holds(t3 \o D, r, b.edge, FALSE, n)
          BY <5>4, <5>6, EndTag
        <5> QED
          BY <5>5, <5>7, <1>k
      <4>2. c.ssml = t4
        BY <1>10, <1>8
      <4>3. c.inProsody = FALSE
        BY <1>11, <1>12, <3>5
      <4>4. Inner(c, r) = r
        BY <1>10, <3>3, <4>3, InnerParts
      <4>5. Consistent(c, r)
        BY <1>1, <1>10, <1>11, <1>17, <3>3, <4>1, <4>2, <4>4 DEF Consistent
      <4> QED
        BY <1>9, <1>11, <1>12, <4>5
    <3> QED
      BY <2>3, <3>4, <3>5
  <2> QED
    BY <1>22, <2>2, <2>3
<1> QED
  BY <1>21, <1>22

-----------------------------------------------------------------------------
\* What the next fragment has to do with the tags that stay open.
LEMMA LevelIs ==
  ASSUME NEW b, NEW doc \in Seq(Fragments), NEW i \in 1 .. Len(doc)
  PROVE  LET n == PreserveTagLevel(b, doc, i)
         IN  /\ n \in {0, 1, 2, 3}
             /\ i = Len(doc) => n = 0
             /\ ~b.edge /\ i < Len(doc) =>
                   /\ n # 0 => doc[i].prosody = doc[i + 1].prosody
                   /\ n \in {2, 3} => doc[i].emphasis = doc[i + 1].emphasis
                   /\ n = 3 => doc[i + 1].act = "Speak"
             /\ b.edge /\ b.prosodyCount >= 2 /\ (\E j \in i + 1 .. Len(doc) : Speakable(doc[j])) => n # 0
<1> DEFINE later == {j \in i + 1 .. Len(doc) : b.edge => Speakable(doc[j])}
           f     == doc[i]
           g     == doc[Min(later)]
           n     == PreserveTagLevel(b, doc, i)
<1>1. n = IF later = {} \/ ~(f.prosody = g.prosody \/ (b.edge /\ b.prosodyCount >= 2)) THEN 0
          ELSE IF f.emphasis # g.emphasis THEN 1
          ELSE IF f.context = g.context /\ g.act = "Speak" THEN 3 ELSE 2
  BY DEF PreserveTagLevel
<1>2. Len(doc) \in Nat /\ i \in Nat /\ i <= Len(doc)
  OBVIOUS
<1>3. i = Len(doc) => later = {}
  BY <1>2
<1>4. ASSUME ~b.edge, i < Len(doc) PROVE later # {} /\ Min(later) = i + 1
  <2>1. later = i + 1 .. Len(doc)
    BY <1>4
  <2> HIDE DEF later
  <2>2. i + 1 \in later /\ later # {} /\ later \subseteq Nat /\ \A j \in later : i + 1 <= j
    BY <1>2, <1>4, <2>1
  <2>3. Min(later) \in later /\ Min(later) <= i + 1
    BY <2>2, Smallest
  <2>4. Min(later) \in Nat /\ i + 1 <= Min(later)
    BY <2>2, <2>3
  <2> QED
    BY <1>2, <2>2, <2>3, <2>4
<1>5. (\E j \in i + 1 .. Len(doc) : Speakable(doc[j])) => later # {}
  OBVIOUS
<1> HIDE DEF later
<1>6. n \in {0, 1, 2, 3}
  BY <1>1
<1>7. i = Len(doc) => n = 0
  BY <1>1, <1>3
<1>8. ASSUME ~b.edge, i < Len(doc)
      PROVE  /\ n # 0 => doc[i].prosody = doc[i + 1].prosody
             /\ n \in {2, 3} => doc[i].emphasis = doc[i + 1].emphasis
             /\ n = 3 => doc[i + 1].act = "Speak"
  <2>1. g = doc[i + 1]
    BY <1>4, <1>8
  <2> HIDE DEF n, f, g
  <2>2. n # 0 => f.prosody = g.prosody
    BY <1>1, <1>8
  <2>3. n \in {2, 3} => f.emphasis = g.emphasis
    BY <1>1
  <2>4. n = 3 => g.act = "Speak"
    BY <1>1
  <2> QED
    BY <2>1, <2>2, <2>3, <2>4 DEF f
<1>9. ASSUME b.edge, b.prosodyCount >= 2, \E j \in i + 1 .. Len(doc) : Speakable(doc[j]) PROVE n # 0
  BY <1>1, <1>5, <1>9
<1> QED
  BY <1>6, <1>7, <1>8, <1>9

\* No tag of the application's own is a say-as.
NoSayAsTag(doc) == \A i \in 1 .. Len(doc) : doc[i].act = "ParseUnknownTag" => doc[i].tag.name # "say-as"

\* The names of the application's opening tags.
Opens(doc) == {f.tag.name : f \in Unknowns(doc, "open")}

\* What is open when fragment i of the document is next goes with it.
Ready(b, doc, i, r) ==
    /\ Consistent(b, r) /\ Among(b, Opens(doc))
    /\ ~b.edge /\ i <= Len(doc) =>
          /\ ~b.inProsody /\ (b.inEmphasis \/ b.inCustomTags \/ b.inSayAs) => doc[i].prosody = 0
          /\ ~b.inEmphasis /\ (b.inCustomTags \/ b.inSayAs) => ~doc[i].emphasis
          /\ b.inSayAs => b.inCustomTags /\ doc[i].act = "Speak"
    /\ b.edge =>
          /\ b.prosodyCount <= 2
          /\ b.prosodyCount = 2 /\ (\E j \in i .. Len(doc) : Speakable(doc[j])) => b.inProsody
    /\ i = Len(doc) + 1 => ~b.inProsody /\ ~b.inEmphasis /\ ~b.inCustomTags /\ ~b.inSayAs

Opened(b, f) == OpenSayAs(ReopenCustomTags(OpenEmphasis(OpenProsody(b, f), f)), f)

LEMMA OpenedStep ==
  ASSUME NEW r \in Seq(Strings), NEW doc \in Seq(Fragments), NEW i \in 1 .. Len(doc), NEW b, Ready(b, doc, i, r)
  PROVE  LET c == Opened(b, doc[i])
         IN  /\ Consistent(c, r) /\ c.edge = b.edge /\ c.inCustomTags /\ c.customTags = b.customTags
             /\ c.inSayAs => doc[i].act = "Speak"
             /\ ~c.inProsody /\ ~c.edge => doc[i].prosody = 0
             /\ ~c.inEmphasis /\ ~c.edge => ~doc[i].emphasis
             /\ c.edge => c.prosodyCount <= 2
             /\ c.edge /\ c.prosodyCount = 2 /\ (\E j \in i .. Len(doc) : Speakable(doc[j])) => c.inProsody
<1>1. PICK f \in Fragments : f = doc[i]
  OBVIOUS
<1>2. /\ Consistent(b, r) /\ i <= Len(doc)
      /\ b.edge => b.customTags = <<>> /\ ~b.inEmphasis /\ ~b.inSayAs
  BY DEF Ready, Consistent
<1> DEFINE opens == ~b.inProsody /\ (b.edge => Speakable(f)) /\ f.prosody # 0
<1>3. opens => ~b.inEmphasis /\ (b.inCustomTags => b.customTags = <<>>) /\ ~b.inSayAs
  BY <1>1, <1>2 DEF Ready
<1> DEFINE p == OpenProsody(b, f)
<1>4. /\ Consistent(p, r) /\ p.edge = b.edge /\ p.inEmphasis = b.inEmphasis
      /\ p.customTags = b.customTags /\ p.inCustomTags = b.inCustomTags /\ p.inSayAs = b.inSayAs
      /\ p.inProsody <=> (b.inProsody \/ opens)
      /\ p.prosodyCount = IF opens THEN b.prosodyCount + 1 ELSE b.prosodyCount
  BY <1>2, <1>3, OpenProsodyStep
<1> HIDE DEF p
<1> DEFINE e == OpenEmphasis(p, f)
<1>5. ~p.inEmphasis /\ f.emphasis /\ ~p.edge => (p.inCustomTags => p.customTags = <<>>) /\ ~p.inSayAs
  BY <1>1, <1>2, <1>4 DEF Ready
<1>6. /\ Consistent(e, r) /\ e.edge = p.edge /\ e.inProsody = p.inProsody
      /\ e.customTags = p.customTags /\ e.inCustomTags = p.inCustomTags /\ e.inSayAs = p.inSayAs
      /\ e.inEmphasis <=> (p.inEmphasis \/ (~p.inEmphasis /\ f.emphasis /\ ~p.edge))
      /\ e.prosodyCount = p.prosodyCount
  BY <1>4, <1>5, OpenEmphasisStep
<1> HIDE DEF e
<1> DEFINE o == ReopenCustomTags(e)
<1>7. ~e.inCustomTags => ~e.inSayAs
  BY <1>2, <1>4, <1>6 DEF Ready
<1>8. /\ Consistent(o, r) /\ o.edge = e.edge /\ o.inProsody = e.inProsody /\ o.inEmphasis = e.inEmphasis
      /\ o.customTags = e.customTags /\ o.inCustomTags /\ o.inSayAs = e.inSayAs
      /\ o.prosodyCount = e.prosodyCount
  BY <1>6, <1>7, ReopenStep
<1> HIDE DEF o
<1> DEFINE c == OpenSayAs(o, f)
<1>9. /\ Consistent(c, r) /\ c.edge = o.edge /\ c.inProsody = o.inProsody /\ c.inEmphasis = o.inEmphasis
      /\ c.customTags = o.customTags /\ c.inCustomTags = o.inCustomTags
      /\ c.inSayAs <=> (o.inSayAs \/ (~o.inSayAs /\ f.context # 0 /\ f.act = "Speak" /\ ~o.edge))
      /\ c.prosodyCount = o.prosodyCount
  BY <1>8, OpenSayAsStep
<1> HIDE DEF c
<1>10. Opened(b, doc[i]) = c
  BY <1>1 DEF Opened, c, o, e, p
<1>11. Consistent(c, r) /\ c.edge = b.edge /\ c.inCustomTags /\ c.customTags = b.customTags
  BY <1>4, <1>6, <1>8, <1>9
<1>12. c.inSayAs => f.act = "Speak"
  BY <1>1, <1>2, <1>4, <1>6, <1>8, <1>9 DEF Ready
<1>13. ~c.inProsody /\ ~c.edge => f.prosody = 0
  BY <1>4, <1>6, <1>8, <1>9
<1>14. ~c.inEmphasis /\ ~c.edge => ~f.emphasis
  BY <1>4, <1>6, <1>8, <1>9
<1>15. c.prosodyCount = p.prosodyCount /\ c.inProsody = p.inProsody
  BY <1>6, <1>8, <1>9
<1>16. ASSUME b.edge
       PROVE  /\ c.prosodyCount <= 2
              /\ c.prosodyCount = 2 /\ (\E j \in i .. Len(doc) : Speakable(doc[j])) => c.inProsody
  <2>1. b.prosodyCount \in Nat /\ b.prosodyCount <= 2
    BY <1>2, <1>16, ConsistentParts DEF Ready
  <2>2. CASE opens
    <3>1. Speakable(f)
      BY <1>16, <2>2
    <3>2. i \in i .. Len(doc) /\ Speakable(doc[i])
      BY <1>1, <3>1
    <3>3. b.prosodyCount # 2
      BY <1>16, <2>2, <3>2 DEF Ready
    <3>4. p.prosodyCount = b.prosodyCount + 1 /\ p.inProsody
      BY <1>4, <2>2
    <3> QED
      BY <1>15, <2>1, <3>3, <3>4
  <2>3. CASE ~opens
    <3>1. p.prosodyCount = b.prosodyCount /\ (p.inProsody <=> b.inProsody)
      BY <1>4, <2>3
    <3>2. b.prosodyCount = 2 /\ (\E j \in i .. Len(doc) : Speakable(doc[j])) => b.inProsody
      BY <1>16 DEF Ready
    <3> QED
      BY <1>15, <2>1, <3>1, <3>2
  <2> QED
    BY <2>2, <2>3
<1> QED
  BY <1>1, <1>10, <1>11, <1>12, <1>13, <1>14, <1>16

LEMMA SaidStep ==
  ASSUME NEW r \in Seq(Strings), NEW c, Consistent(c, r), c.inCustomTags, NEW f \in Fragments,
         c.inSayAs => f.act = "Speak", f.act = "ParseUnknownTag" => f.tag.name # "say-as",
         NEW names, Among(c, names), c.edge \/ Spells(f, names)
  PROVE  LET d == IF c.edge THEN EdgeBody(c, f) ELSE Body(c, f)
         IN  Consistent(d, r) /\ SameFlags(c, d) /\ Among(d, names)
<1>1. CASE c.edge
  <2>1. c \in Builders
    BY DEF Consistent
  <2>2. PICK d : d = EdgeBody(c, f)
    OBVIOUS
  <2>3. d \in Said(c)
    BY <2>1, <2>2, EdgeBodySaid
  <2>4. Consistent(d, r) /\ Same(c, d)
    BY <2>3, ConsistentSaid
  <2>5. SameFlags(c, d) /\ Among(d, names)
    BY <2>4 DEF Same, SameFlags, Among
  <2> QED
    BY <1>1, <2>2, <2>4, <2>5
<1>2. CASE ~c.edge
  BY <1>2, BodyStep
<1> QED
  BY <1>1, <1>2

\* One fragment, from the tags open before it to those open before the next.
LEMMA AddFragmentStep ==
  ASSUME NEW r \in Seq(Strings), NEW doc \in Seq(Fragments), NoSayAsTag(doc), NEW i \in 1 .. Len(doc),
         NEW b, Ready(b, doc, i, r), b.edge \/ SpelledAlike(doc)
  PROVE  LET z == AddFragment(b, doc, i)
         IN  z \in Builders /\ Ready(z, doc, i + 1, r) /\ z.edge = b.edge
<1>1. PICK f \in Fragments : f = doc[i]
  OBVIOUS
<1>2. i \in Nat /\ Len(doc) \in Nat /\ i <= Len(doc)
  OBVIOUS
<1>3. PICK text \in BOOLEAN : text = (b.hasText \/ (f.act # "Bookmark" /\ f.text # <<>>))
  <2>1. b.hasText \in BOOLEAN
    BY DEF Ready, Consistent, Builders
  <2> QED
    BY <2>1
<1> DEFINE h == [b EXCEPT !.hasText = text]
<1>4. h \in Builders /\ Same(b, h) /\ h.ssml = b.ssml
  <2>1. b \in Builders
    BY DEF Ready, Consistent
  <2> QED
    BY <2>1 DEF Builders, Same
<1> HIDE DEF h
<1>5. Ready(h, doc, i, r)
  <2>1. Inner(h, r) = Inner(b, r)
    BY <1>4 DEF Same, Inner
  <2>2. Consistent(h, r)
    BY <1>4, <2>1 DEF Ready, Consistent, Same
  <2>3. Among(h, Opens(doc))
    BY <1>4 DEF Ready, Same, Among
  <2> QED
    BY <1>4, <2>2, <2>3 DEF Ready, Same
<1> DEFINE c == Opened(h, f)
<1>6. /\ Consistent(c, r) /\ c.edge = h.edge /\ c.inCustomTags /\ c.customTags = h.customTags
      /\ c.inSayAs => f.act = "Speak"
      /\ ~c.inProsody /\ ~c.edge => f.prosody = 0
      /\ ~c.inEmphasis /\ ~c.edge => ~f.emphasis
      /\ c.edge => c.prosodyCount <= 2
      /\ c.edge /\ c.prosodyCount = 2 /\ (\E j \in i .. Len(doc) : Speakable(doc[j])) => c.inProsody
  BY <1>1, <1>5, OpenedStep
<1> HIDE DEF c
<1> DEFINE d == IF c.edge THEN EdgeBody(c, f) ELSE Body(c, f)
<1>7. f.act = "ParseUnknownTag" => f.tag.name # "say-as"
  BY <1>1 DEF NoSayAsTag
<1>8. Consistent(d, r) /\ SameFlags(c, d) /\ Among(d, Opens(doc))
  <2>1. Among(c, Opens(doc))
    BY <1>5, <1>6 DEF Ready, Among
  <2>2. SpelledAlike(doc) => Spells(f, Opens(doc))
    <3>1. f \in Range(doc)
      BY <1>1 DEF Range
    <3> QED
      BY <3>1 DEF SpelledAlike, Spells, Opens, Unknowns, SameCase
  <2>3. c.edge \/ Spells(f, Opens(doc))
    BY <1>4, <1>6, <2>2 DEF Same
  <2> QED
    BY <1>6, <1>7, <2>1, <2>3, SaidStep
<1> HIDE DEF d
<1>9. d.prosodyCount \in Nat
  BY <1>8, ConsistentParts
<1>10. PICK n \in {0, 1, 2, 3} : n = PreserveTagLevel(d, doc, i)
  BY LevelIs
<1>11. /\ i = Len(doc) => n = 0
       /\ ~d.edge /\ i < Len(doc) =>
             /\ n # 0 => doc[i].prosody = doc[i + 1].prosody
             /\ n \in {2, 3} => doc[i].emphasis = doc[i + 1].emphasis
             /\ n = 3 => doc[i + 1].act = "Speak"
       /\ d.edge /\ d.prosodyCount >= 2 /\ (\E j \in i + 1 .. Len(doc) : Speakable(doc[j])) => n # 0
  BY <1>10, LevelIs
<1> DEFINE z == CloseTags(d, n)
<1>12. n \in 0 .. 3
  OBVIOUS
<1>13. /\ Consistent(z, r) /\ z.edge = d.edge /\ z.customTags = d.customTags
       /\ z.prosodyCount = d.prosodyCount
       /\ z.inSayAs <=> (d.inSayAs /\ n = 3)
       /\ z.inCustomTags <=> (d.inCustomTags /\ n >= 2)
       /\ z.inEmphasis <=> (d.inEmphasis /\ n >= 2)
       /\ z.inProsody <=> (d.inProsody /\ n >= 1)
  BY <1>8, <1>12, CloseTagsStep
<1> HIDE DEF z
<1>14. AddFragment(b, doc, i) = z
  <2>1. PICK g : g = [b EXCEPT !.hasText = b.hasText \/ (f.act # "Bookmark" /\ f.text # <<>>)]
    OBVIOUS
  <2>2. g = h
    BY <1>3, <2>1 DEF h
  <2>3. PICK o : o = Opened(g, f)
    OBVIOUS
  <2>4. o = c
    BY <2>2, <2>3 DEF c
  <2>5. PICK e : e = IF b.edge THEN EdgeBody(o, f) ELSE Body(o, f)
    OBVIOUS
  <2>6. e = d
    BY <1>4, <1>6, <2>4, <2>5 DEF d, Same
  <2>7. AddFragment(b, doc, i) = CloseTags(e, PreserveTagLevel(e, doc, i))
    BY <1>1, <2>1, <2>3, <2>5 DEF AddFragment, Opened
  <2> QED
    BY <1>10, <2>6, <2>7 DEF z
<1>15. /\ z.inSayAs <=> (c.inSayAs /\ n = 3)
       /\ z.inCustomTags <=> n \in {2, 3}
       /\ z.inEmphasis <=> (c.inEmphasis /\ n \in {2, 3})
       /\ z.inProsody <=> (c.inProsody /\ n # 0)
  <2>1. n >= 2 <=> n \in {2, 3}
    BY <1>12
  <2>2. n >= 1 <=> n # 0
    BY <1>12
  <2>3. z.inSayAs <=> (c.inSayAs /\ n = 3)
    BY <1>8, <1>13 DEF SameFlags
  <2>4. z.inCustomTags <=> n \in {2, 3}
    BY <1>6, <1>8, <1>13, <2>1 DEF SameFlags
  <2>5. z.inEmphasis <=> (c.inEmphasis /\ n \in {2, 3})
    BY <1>8, <1>13, <2>1 DEF SameFlags
  <2>6. z.inProsody <=> (c.inProsody /\ n # 0)
    BY <1>8, <1>13, <2>2 DEF SameFlags
  <2> QED
    BY <2>3, <2>4, <2>5, <2>6
<1>16. z.edge = b.edge /\ z.edge = c.edge /\ d.edge = c.edge
  BY <1>4, <1>6, <1>8, <1>13 DEF Same, SameFlags
<1>17. ASSUME ~z.edge, i + 1 <= Len(doc)
       PROVE  /\ ~z.inProsody /\ (z.inEmphasis \/ z.inCustomTags \/ z.inSayAs) => doc[i + 1].prosody = 0
              /\ ~z.inEmphasis /\ (z.inCustomTags \/ z.inSayAs) => ~doc[i + 1].emphasis
              /\ z.inSayAs => z.inCustomTags /\ doc[i + 1].act = "Speak"
  <2>1. i < Len(doc)
    BY <1>2, <1>17
  <2>2. /\ n # 0 => f.prosody = doc[i + 1].prosody
        /\ n \in {2, 3} => f.emphasis = doc[i + 1].emphasis
        /\ n = 3 => doc[i + 1].act = "Speak"
    BY <1>1, <1>11, <1>16, <1>17, <2>1
  <2>3. ~z.inProsody /\ (z.inEmphasis \/ z.inCustomTags \/ z.inSayAs) => doc[i + 1].prosody = 0
    BY <1>6, <1>15, <1>16, <1>17, <2>2
  <2>4. ~z.inEmphasis /\ (z.inCustomTags \/ z.inSayAs) => ~doc[i + 1].emphasis
    BY <1>6, <1>15, <1>16, <1>17, <2>2
  <2>5. z.inSayAs => z.inCustomTags /\ doc[i + 1].act = "Speak"
    BY <1>15, <2>2
  <2> QED
    BY <2>3, <2>4, <2>5
<1>18. ASSUME z.edge
       PROVE  /\ z.prosodyCount <= 2
              /\ z.prosodyCount = 2 /\ (\E j \in i + 1 .. Len(doc) : Speakable(doc[j])) => z.inProsody
  <2>1. z.prosodyCount = c.prosodyCount /\ d.prosodyCount = c.prosodyCount
    BY <1>8, <1>13 DEF SameFlags
  <2>2. z.prosodyCount <= 2
    BY <1>6, <1>16, <1>18, <2>1
  <2>3. ASSUME z.prosodyCount = 2, \E j \in i + 1 .. Len(doc) : Speakable(doc[j]) PROVE z.inProsody
    <3>1. n # 0
      BY <1>11, <1>16, <1>18, <2>1, <2>3
    <3>2. \E j \in i .. Len(doc) : Speakable(doc[j])
      <4>1. PICK j \in i + 1 .. Len(doc) : Speakable(doc[j])
        BY <2>3
      <4>2. j \in i .. Len(doc)
        BY <1>2
      <4> QED
        BY <4>1, <4>2
    <3>3. c.inProsody
      BY <1>6, <1>16, <1>18, <2>1, <2>3, <3>2
    <3> QED
      BY <1>15, <3>1, <3>3
  <2> QED
    BY <2>2, <2>3
<1>19. ASSUME i + 1 = Len(doc) + 1 PROVE ~z.inProsody /\ ~z.inEmphasis /\ ~z.inCustomTags /\ ~z.inSayAs
  <2>1. n = 0
    BY <1>2, <1>11, <1>19
  <2> QED
    BY <1>15, <2>1
<1>20. Ready(z, doc, i + 1, r)
  <2>1. Among(z, Opens(doc))
    BY <1>8, <1>13 DEF Among
  <2> QED
    BY <1>13, <1>17, <1>18, <1>19, <2>1 DEF Ready
<1> QED
  BY <1>13, <1>14, <1>16, <1>20 DEF Consistent

-----------------------------------------------------------------------------
(***************************************************************************)
(* Whatever tags the application puts in: BuildSSML's locals keep their    *)
(* types.                                                                  *)
(***************************************************************************)
LEMMA TagWritten ==
  ASSUME NEW b \in Builders, NEW d \in Strings, NEW m \in Strings
  PROVE  Write(b, Tag(d, m)) \in Builders
BY TagCells, WriteType

LEMMA OpeningCells == ASSUME NEW names \in Seq(Strings) PROVE Opening(names) \in Seq(Cells)
<1>1. PICK f \in [0 .. Len(names) -> Seq(Cells)] : Opening(names) = f[Len(names)]
  BY OpeningIs
<1>2. Len(names) \in 0 .. Len(names)
  OBVIOUS
<1> QED
  BY <1>1, <1>2

LEMMA FlagsType ==
  ASSUME NEW b \in Builders
  PROVE  /\ [b EXCEPT !.inProsody = TRUE, !.prosodyCount = @ + 1] \in Builders
         /\ [b EXCEPT !.inEmphasis = TRUE] \in Builders /\ [b EXCEPT !.inSayAs = TRUE] \in Builders
         /\ [b EXCEPT !.inCustomTags = TRUE] \in Builders
<1>1. PICK n \in Nat : n = b.prosodyCount + 1
  BY DEF Builders
<1>2. [b EXCEPT !.inProsody = TRUE, !.prosodyCount = n] \in Builders
  BY DEF Builders
<1>3. [b EXCEPT !.inEmphasis = TRUE] \in Builders
  BY DEF Builders
<1>4. [b EXCEPT !.inSayAs = TRUE] \in Builders
  BY DEF Builders
<1>5. [b EXCEPT !.inCustomTags = TRUE] \in Builders
  BY DEF Builders
<1> QED
  BY <1>1, <1>2, <1>3, <1>4, <1>5

LEMMA OpenedType ==
  ASSUME NEW b \in Builders, NEW f
  PROVE  /\ OpenProsody(b, f) \in Builders /\ OpenEmphasis(b, f) \in Builders
         /\ ReopenCustomTags(b) \in Builders /\ OpenSayAs(b, f) \in Builders
<1>1. PICK p \in Builders : p = Write(b, Tag("open", "prosody"))
  BY Literals, TagWritten
<1>2. PICK e \in Builders, s \in Builders :
         e = Write(b, Tag("open", "emphasis")) /\ s = Write(b, Tag("open", "say-as"))
  BY Literals, TagWritten
<1>3. PICK c \in Builders : c = Write(b, Opening(b.customTags))
  <2>1. PICK k \in Seq(Strings) : k = b.customTags
    BY DEF Builders
  <2>2. PICK o \in Seq(Cells) : o = Opening(k)
    BY OpeningCells
  <2>3. PICK w \in Builders : w = Write(b, o)
    BY WriteType
  <2> QED
    BY <2>1, <2>2, <2>3
<1> QED
  BY <1>1, <1>2, <1>3, FlagsType DEF OpenProsody, OpenEmphasis, OpenSayAs, ReopenCustomTags

LEMMA CloseCustomTagType ==
  ASSUME NEW b \in Builders, NEW m \in Strings
  PROVE  CloseCustomTag(b, m) \in Builders
<1>1. PICK k \in Seq(Strings) : k = b.customTags
  BY DEF Builders
<1>2. SUFFICES ASSUME NEW i \in 1 .. Len(k), ClosesAt(Strings, b, k, m, i)
               PROVE  CloseCustomTag(b, m) \in Builders
  BY <1>1, CloseCustomTagIs
<1>3. PICK t \in Seq(Strings), u \in Seq(Strings) : t = SubSeq(k, 1, i - 1) /\ u = SubSeq(k, i + 1, Len(k))
  BY <1>2 DEF ClosesAt
<1>4. PICK x \in Seq(Cells), y \in Seq(Cells) : x = Closing(u) /\ y = Tag("close", m)
  BY Literals, TagCells, ClosingCells
<1>5. PICK w \in Builders : w = Write(b, x \o y) /\ w.customTags = k
  BY <1>1, WriteTwice DEF Same
<1>6. CloseCustomTag(b, m) = [w EXCEPT !.customTags = t]
  BY <1>2, <1>3, <1>4, <1>5 DEF ClosesAt
<1>7. [w EXCEPT !.customTags = t] \in Builders
  BY DEF Builders
<1> QED
  BY <1>6, <1>7

LEMMA UnknownTagType ==
  ASSUME NEW b \in Builders, NEW tag \in Tags, tag.dir \in {"self", "open", "close", "bad"}
  PROVE  UnknownTag(b, tag) \in Builders
<1>1. PICK m \in Strings : m = tag.name
  BY DEF Tags
<1>2. CASE tag.dir = "self"
  <2>1. Write(b, Tag("self", m)) \in Builders
    BY Literals, TagWritten
  <2> QED
    BY <1>1, <1>2, <2>1 DEF UnknownTag
<1>3. CASE tag.dir = "close"
  BY <1>1, <1>3, CloseCustomTagType DEF UnknownTag
<1>4. CASE tag.dir = "bad"
  BY <1>4 DEF UnknownTag
<1>5. CASE tag.dir = "open"
  <2>1. PICK w \in Builders : w = Write(b, Tag("open", m))
    BY Literals, TagWritten
  <2>2. PICK k \in Seq(Strings) : k = Append(w.customTags, m)
    <3>1. w.customTags \in Seq(Strings)
      BY DEF Builders
    <3>2. \A x \in Seq(Strings) : Append(x, m) \in Seq(Strings)
      OBVIOUS
    <3> QED
      BY <3>1, <3>2
  <2>3. UnknownTag(b, tag) = [w EXCEPT !.customTags = k]
    BY <1>1, <1>5, <2>1, <2>2 DEF UnknownTag
  <2>4. [w EXCEPT !.customTags = k] \in Builders
    BY DEF Builders
  <2> QED
    BY <2>3, <2>4
<1> QED
  BY <1>2, <1>3, <1>4, <1>5

LEMMA BodyType ==
  ASSUME NEW b \in Builders, NEW f \in Fragments
  PROVE  Body(b, f) \in Builders
<1>1. f.act \in Acts /\ f.tag \in Tags /\ (f.act = "ParseUnknownTag" => f.tag.dir \in {"self", "open", "close", "bad"})
  BY DEF Fragments
<1>2. CASE f.act = "Speak"
  BY <1>2, SpacedTextSaid DEF Body, Said
<1>3. CASE f.act = "Silence"
  BY <1>3, Literals, TagWritten DEF Body
<1>4. CASE f.act = "Bookmark"
  <2>1. PICK w \in Builders : w = Write(b, Tag("self", "bookmark"))
    BY Literals, TagWritten
  <2> QED
    BY <1>4, <2>1, AddBookmarkSaid DEF Body, Said
<1>5. CASE f.act \in {"SpellOut", "Pronounce"}
  <2>1. PICK m \in Strings : m = IF f.act = "SpellOut" THEN "say-as" ELSE "phoneme"
    BY Literals
  <2>2. Body(b, f) = Write(MappedText(Write(b, Tag("open", m)), f), Tag("close", m))
    BY <1>5, <2>1 DEF Body
  <2>3. PICK w \in Builders : w = Write(b, Tag("open", m))
    BY Literals, TagWritten
  <2>4. PICK v \in Builders : v = MappedText(w, f)
    BY MappedTextSaid DEF Said
  <2>5. Write(v, Tag("close", m)) \in Builders
    BY Literals, TagWritten
  <2> QED
    BY <2>2, <2>3, <2>4, <2>5
<1>6. CASE f.act = "ParseUnknownTag"
  BY <1>1, <1>6, UnknownTagType DEF Body
<1> QED
  BY <1>1, <1>2, <1>3, <1>4, <1>5, <1>6 DEF Acts

LEMMA CloseTagsType ==
  ASSUME NEW b \in Builders, NEW level \in 0 .. 3
  PROVE  CloseTags(b, level) \in Builders
<1> DEFINE sayAs    == b.inSayAs /\ level < 3
           custom   == b.inCustomTags /\ level < 2
           emphasis == b.inEmphasis /\ level < 2
           prosody  == b.inProsody /\ level < 1
           w == Write(b, Ends(b, level))
<1>1. w \in Builders
  BY EndsWritten
<1>2. CloseTags(b, level) =
        [w EXCEPT !.inSayAs = IF sayAs THEN FALSE ELSE @, !.inCustomTags = IF custom THEN FALSE ELSE @,
                  !.inEmphasis = IF emphasis THEN FALSE ELSE @, !.inProsody = IF prosody THEN FALSE ELSE @]
  BY DEF CloseTags, Ends, SayAsEnd, CustomEnd, EmphasisEnd, ProsodyEnd
<1> HIDE DEF w, sayAs, custom, emphasis, prosody
<1>3. PICK x1 \in BOOLEAN, x2 \in BOOLEAN, x3 \in BOOLEAN, x4 \in BOOLEAN :
         /\ x1 = IF prosody THEN FALSE ELSE w.inProsody
         /\ x2 = IF emphasis THEN FALSE ELSE w.inEmphasis
         /\ x3 = IF custom THEN FALSE ELSE w.inCustomTags
         /\ x4 = IF sayAs THEN FALSE ELSE w.inSayAs
  <2>1. /\ w.inProsody \in BOOLEAN /\ w.inEmphasis \in BOOLEAN /\ w.inCustomTags \in BOOLEAN
        /\ w.inSayAs \in BOOLEAN
    BY <1>1 DEF Builders
  <2> QED
    BY <2>1
<1>4. CloseTags(b, level) = [w EXCEPT !.inSayAs = x4, !.inCustomTags = x3, !.inEmphasis = x2, !.inProsody = x1]
  BY <1>2, <1>3
<1>5. [w EXCEPT !.inSayAs = x4, !.inCustomTags = x3, !.inEmphasis = x2, !.inProsody = x1] \in Builders
  BY <1>1 DEF Builders
<1> QED
  BY <1>4, <1>5

LEMMA LevelType == ASSUME NEW b, NEW doc, NEW i PROVE PreserveTagLevel(b, doc, i) \in 0 .. 3
BY DEF PreserveTagLevel

LEMMA AddFragmentType ==
  ASSUME NEW b \in Builders, NEW doc \in Seq(Fragments), NEW i \in 1 .. Len(doc)
  PROVE  AddFragment(b, doc, i) \in Builders
<1>1. PICK f \in Fragments : f = doc[i]
  OBVIOUS
<1> DEFINE text == b.hasText \/ (f.act # "Bookmark" /\ f.text # <<>>)
<1>2. text \in BOOLEAN
  BY DEF Builders
<1>3. PICK a \in Builders : a = [b EXCEPT !.hasText = text]
  <2> HIDE DEF text
  <2>1. [b EXCEPT !.hasText = text] \in Builders
    BY <1>2 DEF Builders
  <2> QED
    BY <2>1
<1>4. PICK o1 \in Builders : o1 = OpenProsody(a, f)
  BY OpenedType
<1>5. PICK o2 \in Builders : o2 = OpenEmphasis(o1, f)
  BY OpenedType
<1>6. PICK o3 \in Builders : o3 = ReopenCustomTags(o2)
  BY OpenedType
<1>7. PICK o4 \in Builders : o4 = OpenSayAs(o3, f)
  BY OpenedType
<1>8. PICK said \in Builders : said = IF b.edge THEN EdgeBody(o4, f) ELSE Body(o4, f)
  <2>1. EdgeBody(o4, f) \in Builders /\ Body(o4, f) \in Builders
    BY EdgeBodySaid, BodyType DEF Said
  <2> QED
    BY <2>1
<1>9. AddFragment(b, doc, i) = CloseTags(said, PreserveTagLevel(said, doc, i))
  BY <1>1, <1>3, <1>4, <1>5, <1>6, <1>7, <1>8 DEF AddFragment
<1> QED
  BY <1>9, LevelType, CloseTagsType

-----------------------------------------------------------------------------
Begin(isOnline, isEdge) == IF isOnline THEN Write(Blank(isEdge), Tag("open", "voice")) ELSE Blank(isEdge)
Roots(isOnline) == IF isOnline THEN <<"speak", "voice">> ELSE <<"speak">>

LEMMA NothingHolds == \A e : Holds(<<>>, <<>>, e, FALSE, 0)
<1>1. <<>> \in Seq(Cells) /\ Len(<<>>) = 0
  OBVIOUS
<1>2. OpenTags(<<>>) = <<>>
  BY OpenTagsNone
<1>3. SayAsAlone(<<>>, FALSE)
  BY <1>1 DEF SayAsAlone
<1>4. ProsodyTags(<<>>) = {}
  BY <1>1 DEF ProsodyTags
<1>5. IsFiniteSet({}) /\ Cardinality({}) = 0
  BY FS_EmptySet
<1>6. EdgeOnly(<<>>, 0)
  BY <1>1, <1>4, <1>5 DEF EdgeOnly
<1> QED
  BY <1>1, <1>2, <1>3, <1>6 DEF Holds, Sound

LEMMA BlankHolds ==
  ASSUME NEW isEdge \in BOOLEAN
  PROVE  Blank(isEdge) \in Builders /\ Holds(Blank(isEdge).ssml, <<"speak">>, isEdge, FALSE, 0)
<1>1. PICK m \in Strings, d \in Strings : m = "speak" /\ d = "open"
  BY Literals
<1>2. PICK t \in Seq(Cells) : t = Tag("open", "speak")
  BY <1>1, TagCells
<1>3. Blank(isEdge) \in Builders /\ Blank(isEdge).ssml = t
  <2>1. /\ <<>> \in Seq([sapi : Int, ssml : Int]) /\ <<>> \in Seq(Int) /\ <<>> \in Seq(Strings)
    OBVIOUS
  <2>2. Blank(isEdge) = [edge |-> isEdge, ssml |-> t, mappings |-> <<>>, bookmarks |-> <<>>, hasText |-> FALSE,
                       lastSAPIOffset |-> 0, inProsody |-> FALSE, inEmphasis |-> FALSE, inSayAs |-> FALSE,
                       customTags |-> <<>>, inCustomTags |-> FALSE, prosodyCount |-> 0]
    BY <1>2 DEF Blank
  <2> QED
    BY <2>1, <2>2 DEF Builders
<1>4. Holds(<<>> \o Tag("open", m), Append(<<>>, m), isEdge, FALSE, IF m = "prosody" THEN 0 + 1 ELSE 0)
  <2>1. Holds(<<>>, <<>>, isEdge, FALSE, 0) /\ <<>> \in Seq(Strings)
    BY NothingHolds, Empty
  <2>2. m # "say-as" /\ (isEdge => m \in EdgeTags)
    BY <1>1 DEF EdgeTags
  <2> QED
    BY <2>1, <2>2, HoldsOpen
<1>5. Append(<<>>, m) = <<m>> /\ <<>> \o t = t
  OBVIOUS
<1> QED
  BY <1>1, <1>2, <1>3, <1>4, <1>5

LEMMA BeginReady ==
  ASSUME NEW isEdge \in BOOLEAN, NEW isOnline \in BOOLEAN, NEW doc \in Seq(Fragments)
  PROVE  /\ Roots(isOnline) \in Seq(Strings)
         /\ Begin(isOnline, isEdge) \in Builders /\ Begin(isOnline, isEdge).edge = isEdge
         /\ Ready(Begin(isOnline, isEdge), doc, 1, Roots(isOnline))
<1>1. PICK b \in Builders : b = Blank(isEdge) /\ Holds(b.ssml, <<"speak">>, isEdge, FALSE, 0)
  BY BlankHolds
<1>2. /\ b.edge = isEdge /\ b.inProsody = FALSE /\ b.inEmphasis = FALSE /\ b.inSayAs = FALSE
      /\ b.inCustomTags = FALSE /\ b.customTags = <<>> /\ b.prosodyCount = 0
  BY <1>1 DEF Blank
<1>3. PICK u \in Strings, v \in Strings : u = "speak" /\ v = "voice"
  BY Literals
<1>a. \A x \in Strings : <<x>> \in Seq(Strings)
  OBVIOUS
<1>4. PICK r1 \in Seq(Strings) : r1 = <<u>>
  BY <1>a
<1>b. \A x \in Strings, y \in Strings : <<x, y>> \in Seq(Strings) /\ <<x, y>> = Append(<<x>>, y)
  OBVIOUS
<1>5. PICK r2 \in Seq(Strings) : r2 = <<u, v>> /\ r2 = Append(r1, v)
  BY <1>4, <1>b
<1>6. PICK r \in Seq(Strings) : r = Roots(isOnline) /\ r = IF isOnline THEN r2 ELSE r1
  BY <1>3, <1>4, <1>5 DEF Roots
<1>7. PICK c \in Builders : c = Begin(isOnline, isEdge) /\ Same(b, c) /\ Holds(c.ssml, r, isEdge, FALSE, 0)
  <2>1. CASE isOnline
    <3>1. Tag("open", v) \in Seq(Cells)
      BY Literals, TagCells
    <3>2. /\ Write(b, Tag("open", v)) \in Builders /\ Same(b, Write(b, Tag("open", v)))
          /\ Write(b, Tag("open", v)).ssml = b.ssml \o Tag("open", v)
      BY <3>1, WriteType
    <3>3. v # "say-as" /\ v # "prosody" /\ (isEdge => v \in EdgeTags)
      BY <1>3 DEF EdgeTags
    <3>4. Holds(b.ssml, r1, isEdge, FALSE, 0)
      BY <1>1, <1>3, <1>4
    <3>5. Holds(b.ssml \o Tag("open", v), Append(r1, v), isEdge, FALSE, IF v = "prosody" THEN 0 + 1 ELSE 0)
      BY <3>3, <3>4, HoldsOpen
    <3> QED
      BY <1>1, <1>3, <1>5, <1>6, <2>1, <3>2, <3>3, <3>5 DEF Begin
  <2>2. CASE ~isOnline
    <3>1. Same(b, b)
      BY DEF Same
    <3> QED
      BY <1>1, <1>3, <1>4, <1>6, <2>2, <3>1 DEF Begin
  <2> QED
    BY <2>1, <2>2
<1>8. /\ c.edge = isEdge /\ c.inProsody = FALSE /\ c.inEmphasis = FALSE /\ c.inSayAs = FALSE
      /\ c.inCustomTags = FALSE /\ c.customTags = <<>> /\ c.prosodyCount = 0
  BY <1>2, <1>7 DEF Same
<1>9. Inner(c, r) = r
  <2>1. ~c.inSayAs /\ (c.inCustomTags => c.customTags = <<>>) /\ ~c.inEmphasis /\ ~c.inProsody
    BY <1>8
  <2> QED
    BY <2>1, InnerParts
<1>10. NoSayAs(c.customTags)
  BY <1>8 DEF NoSayAs
<1>11. Consistent(c, r)
  BY <1>7, <1>8, <1>9, <1>10 DEF Consistent
<1>12. Ready(c, doc, 1, r)
  <2>1. Among(c, Opens(doc))
    BY <1>8 DEF Among
  <2> QED
    BY <1>8, <1>11, <2>1 DEF Ready
<1> QED
  BY <1>6, <1>7, <1>8, <1>12

\* BuildSSML, fragment after fragment.
LEMMA BuildSSMLIs ==
  ASSUME NEW doc \in Seq(Fragments), NEW isOnline \in BOOLEAN, NEW isEdge \in BOOLEAN
  PROVE  \E f \in [0 .. Len(doc) -> Builders] :
           /\ f[0] = Begin(isOnline, isEdge) /\ \A i \in 1 .. Len(doc) : f[i] = AddFragment(f[i - 1], doc, i)
           /\ BuildSSML(doc, isOnline, isEdge) =
                Write(f[Len(doc)], (IF isOnline THEN Tag("close", "voice") ELSE <<>>) \o Tag("close", "speak"))
<1>a. \A v \in Builders, i \in 1 .. Len(doc) : AddFragment(v, doc, i) \in Builders
  BY AddFragmentType
<1>b. PICK n \in Nat : n = Len(doc)
  OBVIOUS
<1>c. PICK begin \in Builders : begin = Begin(isOnline, isEdge)
  BY BeginReady
<1> DEFINE V == Builders
           step == [i \in 1 .. n |-> [v \in V |-> AddFragment(v, doc, i)]]
           is(f) == f = [i \in 0 .. Len(doc) |-> IF i = 0 THEN Begin(isOnline, isEdge) ELSE AddFragment(f[i - 1], doc, i)]
           F == CHOOSE f : is(f)
<1>1. begin \in V /\ step \in [1 .. n -> [V -> V]]
  BY <1>a, <1>b
<1>2. PICK f \in Runs(V, n, begin, step) : TRUE
  <2> HIDE DEF V, step, is, F
  <2>1. Runs(V, n, begin, step) # {}
    BY ONLY <1>1, n \in Nat, Recursion
  <2> QED
    BY <2>1
<1>3. is(f)
  <2>1. f \in [0 .. n -> V] /\ f[0] = begin /\ \A i \in 1 .. n : f[i - 1] \in V /\ f[i] = step[i][f[i - 1]]
    <3> HIDE DEF V, step, is, F
    <3>1. f \in [0 .. n -> V] /\ f[0] = begin /\ \A i \in 1 .. n : f[i] = step[i][f[i - 1]]
      BY DEF Runs
    <3>2. \A i \in 1 .. n : i - 1 \in 0 .. n
      OBVIOUS
    <3> QED
      BY <3>1, <3>2
  <2>2. \A i \in 1 .. n : f[i] = AddFragment(f[i - 1], doc, i)
    <3> HIDE DEF V, is, F
    <3> QED
      BY <2>1
  <2>3. f = [i \in 0 .. n |-> IF i = 0 THEN Begin(isOnline, isEdge) ELSE AddFragment(f[i - 1], doc, i)]
    <3> HIDE DEF V, step, is, F
    <3> QED
      BY <1>c, <2>1, <2>2
  <2> QED
    BY <2>3, <1>b
<1>4. is(F)
  <2> HIDE DEF is
  <2> QED
    BY <1>3
<1>5. BuildSSML(doc, isOnline, isEdge) =
         Write(F[n], (IF isOnline THEN Tag("close", "voice") ELSE <<>>) \o Tag("close", "speak"))
  BY <1>b DEF BuildSSML, Begin
<1>6. DOMAIN F = 0 .. n /\ F = [i \in DOMAIN F |-> F[i]] /\ F[0] = begin
      /\ \A i \in 1 .. n : F[i] = AddFragment(F[i - 1], doc, i)
  <2> HIDE DEF F, V, step
  <2>1. F = [i \in 0 .. n |-> IF i = 0 THEN Begin(isOnline, isEdge) ELSE AddFragment(F[i - 1], doc, i)]
    BY <1>4, <1>b
  <2> HIDE DEF is
  <2> QED
    BY <1>c, <2>1
<1> HIDE DEF F, V, step, is
<1>7. \A i \in 1 .. n : F[i - 1] \in Builders => F[i] \in Builders
  BY <1>a, <1>b, <1>6
<1>8. F \in [0 .. n -> Builders]
  BY <1>6, <1>7, Stays
<1> QED
  BY <1>b, <1>c, <1>5, <1>6, <1>8

LEMMA BuildSSMLType ==
  ASSUME NEW doc \in Seq(Fragments), NEW isOnline \in BOOLEAN, NEW isEdge \in BOOLEAN
  PROVE  BuildSSML(doc, isOnline, isEdge) \in Builders
<1>1. PICK f \in [0 .. Len(doc) -> Builders] :
        BuildSSML(doc, isOnline, isEdge) =
          Write(f[Len(doc)], (IF isOnline THEN Tag("close", "voice") ELSE <<>>) \o Tag("close", "speak"))
  BY BuildSSMLIs
<1>2. PICK z \in Builders : z = f[Len(doc)]
  <2>1. Len(doc) \in 0 .. Len(doc)
    OBVIOUS
  <2> QED
    BY <2>1
<1>3. PICK t \in Seq(Cells), u \in Seq(Cells) : t = (IF isOnline THEN Tag("close", "voice") ELSE <<>>) /\ u = Tag("close", "speak")
  <2>1. Tag("close", "voice") \in Seq(Cells) /\ Tag("close", "speak") \in Seq(Cells)
    BY Literals, TagCells
  <2> QED
    BY <2>1, Empty
<1>4. t \o u \in Seq(Cells)
  BY Associative
<1>5. Write(z, t \o u) \in Builders
  BY <1>4, WriteType
<1> QED
  BY <1>1, <1>2, <1>3, <1>5

\* After the last fragment no tag is open but those around the document.
LEMMA AllReady ==
  ASSUME NEW doc \in Seq(Fragments), NoSayAsTag(doc), NEW isOnline \in BOOLEAN, NEW isEdge \in BOOLEAN,
         isEdge \/ SpelledAlike(doc)
  PROVE  \E z \in Builders :
           /\ Ready(z, doc, Len(doc) + 1, Roots(isOnline)) /\ z.edge = isEdge
           /\ BuildSSML(doc, isOnline, isEdge) =
                Write(z, (IF isOnline THEN Tag("close", "voice") ELSE <<>>) \o Tag("close", "speak"))
<1>1. PICK r \in Seq(Strings) : r = Roots(isOnline)
  BY BeginReady
<1>2. PICK n \in Nat : n = Len(doc)
  OBVIOUS
<1>3. PICK f \in [0 .. n -> Builders] :
           /\ f[0] = Begin(isOnline, isEdge) /\ \A i \in 1 .. n : f[i] = AddFragment(f[i - 1], doc, i)
           /\ BuildSSML(doc, isOnline, isEdge) =
                Write(f[n], (IF isOnline THEN Tag("close", "voice") ELSE <<>>) \o Tag("close", "speak"))
  BY <1>2, BuildSSMLIs
<1>4. \A v \in Builders, i \in 1 .. n : Ready(v, doc, i, r) /\ v.edge = isEdge =>
         Ready(AddFragment(v, doc, i), doc, i + 1, r) /\ AddFragment(v, doc, i).edge = v.edge
  BY <1>2, AddFragmentStep
<1>5. Ready(f[0], doc, 1, r) /\ f[0].edge = isEdge
  BY <1>1, <1>3, BeginReady
<1> DEFINE S == {i \in 0 .. n : Ready(f[i], doc, i + 1, r) /\ f[i].edge = isEdge}
<1>6. 0 \in S
  BY <1>5
<1>7. \A i \in S : i < n => i + 1 \in S
  <2> TAKE i \in S
  <2> HAVE i < n
  <2>1. i + 1 \in 1 .. n /\ i + 1 \in 0 .. n /\ i \in 0 .. n
    OBVIOUS
  <2>2. PICK k \in 1 .. n : k = i + 1 /\ k - 1 = i
    BY <2>1
  <2>3. Ready(f[k - 1], doc, k, r) /\ f[k - 1] \in Builders /\ f[k - 1].edge = isEdge
    BY <2>2
  <2>4. Ready(f[k], doc, k + 1, r) /\ f[k].edge = isEdge
    BY <1>3, <1>4, <2>3
  <2> QED
    BY <2>1, <2>2, <2>4
<1>8. \A i \in 0 .. n - 1 : i \in S => i + 1 \in S
  BY <1>7
<1>9. \A i \in 0 .. n : i \in S
  <2> HIDE DEF S
  <2> QED
    BY <1>6, <1>8, Induct
<1>10. n \in 0 .. n
  OBVIOUS
<1>11. Ready(f[n], doc, n + 1, r) /\ f[n] \in Builders /\ f[n].edge = isEdge
  BY <1>9, <1>10
<1> QED
  BY <1>1, <1>2, <1>3, <1>11

\* BuildSSML (TTSEngine.cpp 805-1135) makes sound SSML of every document,
\* unless the application writes a say-as of its own into it or, for a voice
\* that is not an Edge voice, closes a tag in another case than it opened it:
\* with no tag left open and none closed out of turn, no tag in a say-as, and
\* for an Edge voice only speak, voice and as many prosody tags as were
\* counted, at most two.
THEOREM BuildSSMLHolds ==
  ASSUME NEW doc \in Seq(Fragments), NoSayAsTag(doc), NEW isOnline \in BOOLEAN, NEW isEdge \in BOOLEAN,
         isEdge \/ SpelledAlike(doc)
  PROVE  LET c == BuildSSML(doc, isOnline, isEdge)
         IN  /\ c \in Builders /\ c.edge = isEdge
             /\ Holds(c.ssml, <<>>, isEdge, FALSE, c.prosodyCount)
             /\ isEdge => c.prosodyCount <= 2
<1>1. PICK z \in Builders :
           /\ Ready(z, doc, Len(doc) + 1, Roots(isOnline)) /\ z.edge = isEdge
           /\ BuildSSML(doc, isOnline, isEdge) =
                Write(z, (IF isOnline THEN Tag("close", "voice") ELSE <<>>) \o Tag("close", "speak"))
  BY AllReady
<1>2. PICK r \in Seq(Strings) : r = Roots(isOnline)
  BY BeginReady
<1>3. /\ ~z.inProsody /\ ~z.inEmphasis /\ ~z.inCustomTags /\ ~z.inSayAs /\ Consistent(z, r)
      /\ isEdge => z.prosodyCount <= 2
  <2>1. PICK i \in Nat : i = Len(doc) + 1
    OBVIOUS
  <2>2. Ready(z, doc, i, r)
    BY <1>1, <1>2, <2>1
  <2> QED
    BY <1>1, <2>1, <2>2 DEF Ready
<1>4. Inner(z, r) = r
  BY <1>3, InnerParts
<1>5. Holds(z.ssml, r, isEdge, FALSE, z.prosodyCount)
  <2>1. z.inSayAs = FALSE
    BY <1>3 DEF Builders
  <2> QED
    BY <1>1, <1>3, <1>4, <2>1 DEF Consistent
<1>6. PICK n \in Nat : n = z.prosodyCount
  BY DEF Builders
<1>7. PICK u \in Strings, v \in Strings, d \in Strings : u = "speak" /\ v = "voice" /\ d = "close"
  BY Literals
<1>8. PICK s1 \in Seq(Cells), s2 \in Seq(Cells) : s1 = Tag(d, u) /\ s2 = Tag(d, v)
  BY TagCells
<1>9. u # "say-as" /\ v # "say-as" /\ (isEdge => u \in EdgeTags) /\ (isEdge => v \in EdgeTags)
  BY <1>7 DEF EdgeTags
<1>10. \A x \in Strings, y \in Strings : <<x, y>> = Append(<<x>>, y) /\ <<x>> = Append(<<>>, x)
  OBVIOUS
<1>11. CASE isOnline
  <2>1. PICK r1 \in Seq(Strings) : r1 = <<u>>
    <3>1. \A x \in Strings : <<x>> \in Seq(Strings)
      OBVIOUS
    <3> QED
      BY <3>1
  <2>2. r = Append(r1, v) /\ r1 = Append(<<>>, u)
    BY <1>2, <1>7, <1>10, <1>11, <2>1 DEF Roots
  <2>3. Holds(z.ssml \o s2, r1, isEdge, FALSE, n)
    BY <1>5, <1>6, <1>7, <1>8, <1>9, <2>2, HoldsClose
  <2>4. Holds((z.ssml \o s2) \o s1, <<>>, isEdge, FALSE, n)
    BY <1>7, <1>8, <1>9, <2>2, <2>3, Empty, HoldsClose
  <2>5. BuildSSML(doc, isOnline, isEdge) = Write(z, s2 \o s1)
    BY <1>1, <1>7, <1>8, <1>11
  <2>6. PICK c \in Builders : c = Write(z, s2 \o s1) /\ Same(z, c) /\ c.ssml = (z.ssml \o s2) \o s1
    BY WriteTwice
  <2> QED
    BY <1>1, <1>3, <1>6, <2>4, <2>5, <2>6 DEF Same
<1>12. CASE ~isOnline
  <2>1. r = Append(<<>>, u)
    BY <1>2, <1>7, <1>10, <1>12 DEF Roots
  <2>2. Holds(z.ssml \o s1, <<>>, isEdge, FALSE, n)
    BY <1>5, <1>6, <1>7, <1>8, <1>9, <2>1, Empty, HoldsClose
  <2>a. <<>> \o s1 = s1
    OBVIOUS
  <2>3. BuildSSML(doc, isOnline, isEdge) = Write(z, s1)
    BY <1>1, <1>7, <1>8, <1>12, <2>a
  <2>4. PICK c \in Builders : c = Write(z, s1) /\ Same(z, c) /\ c.ssml = z.ssml \o s1
    BY WriteType
  <2> QED
    BY <1>1, <1>3, <1>6, <2>2, <2>3, <2>4 DEF Same
<1> QED
  BY <1>11, <1>12

\* The events that are bookmarks.
MarkEvents(s) == {i \in 1 .. Len(s) : s[i].what = "bookmark"}

\* One more event, a bookmark or another, at every mark.
Goes(T, v, w, name) ==
    \/ name # "bookmark" /\ w = v
    \/ \E e \in T : w = Append(v, e) /\ (e.what = "bookmark" <=> name = "bookmark")
Listing(ssml, T, g) ==
    /\ g \in [0 .. Len(ssml) -> Seq(T)] /\ MarkEvents(g[0]) = {}
    /\ \A i \in 1 .. Len(ssml) : Goes(T, g[i - 1], g[i], ssml[i].tag.name)

\* The first and the last cell of a character of the text.
Begins(S, p) == S[p].from # NoOffset /\ (p > 1 => S[p - 1].from # S[p].from)
Finishes(S, p) == S[p].from # NoOffset /\ (p < Len(S) => S[p + 1].from # S[p].from)

\* The cells of one character are neither spaces nor ideographs.
Whole(S) ==
    \A p, q \in 1 .. Len(S) : q = p + 1 /\ S[p].from # NoOffset /\ S[q].from = S[p].from =>
       S[p].ch # " " /\ S[q].ch # " " /\ S[p].ch # "c"

\* Whole characters, one or more.
Spans(S, e) ==
    /\ e.first \in 1 .. Len(S) /\ e.last \in 1 .. Len(S) /\ e.first <= e.last
    /\ Begins(S, e.first) /\ Finishes(S, e.last)
Spanning(S, T) == \A e \in T : e.what # "bookmark" => Spans(S, e)

\* Where nothing that joins is left out, a character is in one word or in none.
LEMMA WordCells ==
  ASSUME NEW S \in Seq(Cells), Whole(S), NEW quotes, NEW p \in 1 .. Len(S), NEW q \in 1 .. Len(S), q = p + 1,
         S[p].from = S[q].from, S[p].from # NoOffset, S[p].from \notin quotes
  PROVE  InWord(S[p]) /\ InWord(S[q]) /\ S[q].from \notin quotes /\ S[p].ch # "c"
<1>1. S[p].ch # " " /\ S[q].ch # " " /\ S[p].ch # "c"
  BY DEF Whole
<1> QED
  BY <1>1 DEF InWord

\* Script's, for a service that reads quotes and splits ideographs or not.
WordAt(S, quotes, i)          == i \in DOMAIN S /\ InWord(S[i]) /\ S[i].from \notin quotes
JoinedAt(S, quotes, split, i) == /\ WordAt(S, quotes, i) /\ WordAt(S, quotes, i + 1)
                                 /\ ~(split /\ S[i].ch = "c" /\ S[i + 1].ch = "c")
StartsAt(S, quotes, split, i) == WordAt(S, quotes, i) /\ ~JoinedAt(S, quotes, split, i - 1)
EndAt(S, quotes, split, i)    == Min({j \in i .. Len(S) : ~JoinedAt(S, quotes, split, j)})
Words(S, quotes)              == {i \in DOMAIN S : WordAt(S, quotes, i)}

LEMMA WordSpans ==
  ASSUME NEW ssml \in Seq(Cells), Whole(ssml), NEW quotes, NEW split
  PROVE  /\ \A i \in 1 .. Len(ssml) : StartsAt(ssml, quotes, split, i) =>
              Spans(ssml, [what |-> "word", first |-> i, last |-> EndAt(ssml, quotes, split, i)])
         /\ Words(ssml, quotes) # {} =>
              Spans(ssml, [what |-> "sentence", first |-> Min(Words(ssml, quotes)),
                           last |-> Max(Words(ssml, quotes))])
<1>1. PICK n \in Nat : n = Len(ssml) /\ DOMAIN ssml = 1 .. n
  OBVIOUS
<1>2. ASSUME NEW p \in 1 .. n, WordAt(ssml, quotes, p), p > 1, ssml[p - 1].from = ssml[p].from
      PROVE  WordAt(ssml, quotes, p - 1) /\ JoinedAt(ssml, quotes, split, p - 1)
  <2>1. p - 1 \in 1 .. Len(ssml) /\ p \in 1 .. Len(ssml) /\ p = (p - 1) + 1
    BY <1>1, <1>2
  <2>2. ssml[p - 1].from # NoOffset /\ ssml[p - 1].from \notin quotes
    BY <1>2 DEF InWord, WordAt
  <2>3. InWord(ssml[p - 1]) /\ ssml[p - 1].ch # "c"
    BY <1>2, <2>1, <2>2, WordCells
  <2> QED
    BY <1>1, <1>2, <2>1, <2>2, <2>3 DEF JoinedAt, WordAt
<1>3. ASSUME NEW p \in 1 .. n, WordAt(ssml, quotes, p), p < n, ssml[p + 1].from = ssml[p].from
      PROVE  WordAt(ssml, quotes, p + 1) /\ JoinedAt(ssml, quotes, split, p)
  <2>1. p + 1 \in 1 .. Len(ssml) /\ p \in 1 .. Len(ssml)
    BY <1>1, <1>3
  <2>2. ssml[p].from # NoOffset /\ ssml[p].from \notin quotes
    BY <1>3 DEF InWord, WordAt
  <2>3. InWord(ssml[p + 1]) /\ ssml[p + 1].from \notin quotes /\ ssml[p].ch # "c"
    BY <1>3, <2>1, <2>2, WordCells
  <2> QED
    BY <1>1, <1>3, <2>1, <2>3 DEF JoinedAt, WordAt
<1>4. \A i : WordAt(ssml, quotes, i) => i \in 1 .. n /\ ssml[i].from # NoOffset
  BY <1>1 DEF InWord, WordAt
<1>5. \A i : JoinedAt(ssml, quotes, split, i) => WordAt(ssml, quotes, i) /\ WordAt(ssml, quotes, i + 1)
  BY DEF JoinedAt
<1>6. \A i : StartsAt(ssml, quotes, split, i) => WordAt(ssml, quotes, i) /\ ~JoinedAt(ssml, quotes, split, i - 1)
  BY DEF StartsAt
<1> DEFINE words == Words(ssml, quotes)
<1>7. ASSUME NEW i \in 1 .. n, StartsAt(ssml, quotes, split, i)
      PROVE  Spans(ssml, [what |-> "word", first |-> i, last |-> EndAt(ssml, quotes, split, i)])
  <2> DEFINE J == {j \in i .. n : ~JoinedAt(ssml, quotes, split, j)}
  <2>1. n \in J
    <3>1. ~(n + 1 \in 1 .. n)
      OBVIOUS
    <3> QED
      BY <1>4, <1>5, <3>1
  <2>2. J \subseteq Nat
    OBVIOUS
  <2>3. PICK m : m = Min(J) /\ m \in J /\ \A y \in J : m <= y
    <3> HIDE DEF J
    <3> QED
      BY <2>1, <2>2, Smallest
  <2>4. m = EndAt(ssml, quotes, split, i)
    BY <1>1, <2>3 DEF EndAt
  <2>5. m \in i .. n /\ ~JoinedAt(ssml, quotes, split, m)
    BY <2>3
  <2>6. WordAt(ssml, quotes, m)
    <3>1. CASE m = i
      BY <1>6, <1>7, <3>1
    <3>2. CASE m # i
      <4>1. m - 1 \in i .. n /\ ~(m <= m - 1) /\ (m - 1) + 1 = m
        BY <2>5, <3>2
      <4>2. JoinedAt(ssml, quotes, split, m - 1)
        BY <2>3, <4>1
      <4> QED
        BY <1>5, <4>1, <4>2
    <3> QED
      BY <3>1, <3>2
  <2>7. Begins(ssml, i)
    BY <1>2, <1>4, <1>6, <1>7 DEF Begins
  <2>8. Finishes(ssml, m)
    BY <1>1, <1>3, <1>4, <2>5, <2>6 DEF Finishes
  <2> HIDE DEF J
  <2>9. i \in 1 .. Len(ssml) /\ m \in 1 .. Len(ssml) /\ i <= m
    BY <1>1, <2>5
  <2> QED
    BY ONLY <2>4, <2>7, <2>8, <2>9 DEF Spans
<1>8. ASSUME words # {}
      PROVE  Spans(ssml, [what |-> "sentence", first |-> Min(words), last |-> Max(words)])
  <2>1. words \subseteq 0 .. n /\ words \subseteq Nat /\ \A i : i \in words <=> i \in 1 .. n /\ WordAt(ssml, quotes, i)
    BY <1>1, <1>4 DEF Words
  <2> HIDE DEF words
  <2>2. PICK a : a = Min(words) /\ a \in words /\ \A y \in words : a <= y
    BY <1>8, <2>1, Smallest
  <2>3. PICK z : z = Max(words) /\ z \in words /\ \A y \in words : y <= z
    BY <1>8, <2>1, Largest
  <2>4. a \in 1 .. n /\ z \in 1 .. n /\ WordAt(ssml, quotes, a) /\ WordAt(ssml, quotes, z) /\ a <= z
    BY <2>1, <2>2, <2>3
  <2>5. Begins(ssml, a)
    <3>1. ASSUME a > 1, ssml[a - 1].from = ssml[a].from PROVE FALSE
      <4>1. WordAt(ssml, quotes, a - 1) /\ ~(a <= a - 1) /\ a - 1 \in 1 .. n
        BY <1>2, <2>4, <3>1
      <4> QED
        BY <2>1, <2>2, <4>1
    <3> QED
      BY <1>4, <2>4, <3>1 DEF Begins
  <2>6. Finishes(ssml, z)
    <3>1. ASSUME z < n, ssml[z + 1].from = ssml[z].from PROVE FALSE
      <4>1. WordAt(ssml, quotes, z + 1) /\ ~(z + 1 <= z) /\ z + 1 \in 1 .. n
        BY <1>3, <2>4, <3>1
      <4> QED
        BY <2>1, <2>3, <4>1
    <3> QED
      BY <1>1, <1>4, <2>4, <3>1 DEF Finishes
  <2>7. a \in 1 .. Len(ssml) /\ z \in 1 .. Len(ssml) /\ a <= z
    BY <1>1, <2>4
  <2> QED
    BY ONLY <2>2, <2>3, <2>5, <2>6, <2>7 DEF Spans
<1> QED
  BY <1>1, <1>7, <1>8

\* A service's events, character after character: a bookmark at each mark,
\* none elsewhere, and the others of whole characters.
LEMMA ScriptIs ==
  ASSUME NEW ssml \in Seq(Cells), NEW quotes, NEW split
  PROVE  \E T, g : /\ Listing(ssml, T, g) /\ Script(ssml, quotes, split) = g[Len(ssml)]
                   /\ Whole(ssml) => Spanning(ssml, T)
<1> DEFINE Word(i)    == i \in DOMAIN ssml /\ InWord(ssml[i]) /\ ssml[i].from \notin quotes
           Joined(i)  == Word(i) /\ Word(i + 1) /\ ~(split /\ ssml[i].ch = "c" /\ ssml[i + 1].ch = "c")
           Starts(i)  == Word(i) /\ ~Joined(i - 1)
           EndOf(i)   == Min({j \in i .. Len(ssml) : ~Joined(j)})
           Mark(i)    == ssml[i].tag.name = "bookmark"
           Event(what, i, j) == [what |-> what, first |-> i, last |-> j]
           At(i)      == IF Mark(i) THEN Event("bookmark", i, i) ELSE Event("word", i, EndOf(i))
           words      == {i \in DOMAIN ssml : Word(i)}
           sentence   == IF words = {} THEN <<>> ELSE <<Event("sentence", Min(words), Max(words))>>
           Here(i)    == Mark(i) \/ Starts(i)
           With(i, v) == IF Here(i) THEN Append(v, At(i)) ELSE v
           n          == Len(ssml)
           is(f) == f = [i \in 0 .. n |-> IF i = 0 THEN <<>> ELSE With(i, f[i - 1])]
           F == CHOOSE f : is(f)
<1>1. Script(ssml, quotes, split) = sentence \o F[n]
  BY DEF Script
<1>w. /\ \A i : Starts(i) => StartsAt(ssml, quotes, split, i)
      /\ words = Words(ssml, quotes)
      /\ \A i : EndOf(i) = EndAt(ssml, quotes, split, i)
  <2>1. \A i : Joined(i) <=> JoinedAt(ssml, quotes, split, i)
    BY DEF JoinedAt, WordAt
  <2>2. \A i : Word(i) <=> WordAt(ssml, quotes, i)
    BY DEF WordAt
  <2>3. \A i : Starts(i) <=> Word(i) /\ ~Joined(i - 1)
    OBVIOUS
  <2> HIDE DEF Joined, Word, Starts
  <2>4. words = Words(ssml, quotes)
    BY <2>2 DEF Words
  <2>5. \A i : EndOf(i) = EndAt(ssml, quotes, split, i)
    BY <2>1 DEF EndAt
  <2> QED
    BY <2>1, <2>2, <2>3, <2>4, <2>5 DEF StartsAt
<1>2. \E T : /\ sentence \in Seq(T) /\ MarkEvents(sentence) = {}
             /\ Whole(ssml) => Spanning(ssml, T)
  <2>1. PICK e : e = Event("sentence", Min(words), Max(words))
    OBVIOUS
  <2>9. ASSUME Whole(ssml), words # {} PROVE Spans(ssml, e)
    <3> HIDE DEF words
    <3>1. e = [what |-> "sentence", first |-> Min(Words(ssml, quotes)), last |-> Max(Words(ssml, quotes))]
      BY ONLY <1>w, <2>1
    <3> QED
      BY ONLY <1>w, <2>9, <3>1, WordSpans, ssml \in Seq(Cells)
  <2>10. <<>> \in Seq({})
    OBVIOUS
  <2>2. <<>> \in Seq({e}) /\ Len(<<>>) = 0 /\ <<e>> \in Seq({e}) /\ Len(<<e>>) = 1 /\ <<e>>[1] = e
    OBVIOUS
  <2>3. sentence = IF words = {} THEN <<>> ELSE <<e>>
    BY <2>1
  <2>4. e.what # "bookmark"
    BY <2>1
  <2>5. PICK q \in Seq({e}) : q = <<e>> /\ Len(q) = 1
    BY <2>2
  <2>6. \A i \in 1 .. Len(q) : q[i] = e
    BY <2>5
  <2>7. MarkEvents(<<>>) = {}
    BY <2>2 DEF MarkEvents
  <2>8. MarkEvents(q) = {}
    BY <2>4, <2>6 DEF MarkEvents
  <2> HIDE DEF sentence, words
  <2>11. CASE words = {}
    <3>a. sentence = <<>>
      BY ONLY <2>3, <2>11
    <3>1. sentence \in Seq({}) /\ MarkEvents(sentence) = {}
      BY ONLY <2>7, <2>10, <3>a
    <3>2. Spanning(ssml, {})
      BY DEF Spanning
    <3> QED
      BY <3>1, <3>2
  <2>12. CASE words # {}
    <3>1. sentence \in Seq({e}) /\ MarkEvents(sentence) = {}
      BY <2>3, <2>5, <2>8, <2>12
    <3>2. Whole(ssml) => Spanning(ssml, {e})
      BY <2>9, <2>12 DEF Spanning
    <3> QED
      BY <3>1, <3>2
  <2> QED
    BY <2>11, <2>12
<1>h. \A i : At(i).what = "bookmark" <=> ssml[i].tag.name = "bookmark"
  <2> TAKE i
  <2>1. Event("bookmark", i, i).what = "bookmark" /\ Event("word", i, EndOf(i)).what = "word"
    OBVIOUS
  <2>2. CASE Mark(i)
    BY <2>1, <2>2
  <2>3. CASE ~Mark(i)
    BY <2>1, <2>3
  <2> QED
    BY <2>2, <2>3
<1>i. \A i : ~Here(i) => ssml[i].tag.name # "bookmark"
  OBVIOUS
<1>s. ASSUME Whole(ssml), NEW i \in 1 .. Len(ssml), Here(i), At(i).what # "bookmark"
      PROVE  Spans(ssml, At(i))
  <2>1. ~Mark(i)
    BY <1>h, <1>s
  <2>2. Starts(i)
    BY <1>s, <2>1
  <2>3. At(i) = Event("word", i, EndOf(i))
    BY <2>1
  <2>4. Spans(ssml, Event("word", i, EndOf(i)))
    <3>1. EndOf(i) = EndAt(ssml, quotes, split, i) /\ StartsAt(ssml, quotes, split, i)
      BY <1>w, <2>2
    <3> HIDE DEF EndOf
    <3>2. Event("word", i, EndOf(i)) = [what |-> "word", first |-> i, last |-> EndAt(ssml, quotes, split, i)]
      BY <3>1
    <3> QED
      BY ONLY <1>s, <3>1, <3>2, WordSpans, ssml \in Seq(Cells), i \in 1 .. Len(ssml)
  <2> QED
    BY ONLY <2>3, <2>4
<1>b. n \in Nat
  OBVIOUS
<1> HIDE DEF sentence, At, Here, With, n
<1> DEFINE S == {At(i) : i \in {k \in 1 .. n : Here(k)}}
           V == Seq(S)
           step == [i \in 1 .. n |-> [v \in V |-> With(i, v)]]
<1>a. \A i \in 1 .. n : Here(i) => At(i) \in S
  OBVIOUS
<1>t. Whole(ssml) => Spanning(ssml, S)
  BY <1>s DEF Spanning, n
<1>c. <<>> \in V
  <2> HIDE DEF S
  <2> QED
    OBVIOUS
<1>d. \A v \in V, i \in 1 .. n : With(i, v) \in V
  <2> HIDE DEF S
  <2>1. \A v \in Seq(S), x \in S : Append(v, x) \in Seq(S)
    OBVIOUS
  <2> QED
    BY <1>a, <2>1 DEF With
<1>e. step \in [1 .. n -> [V -> V]]
  <2> HIDE DEF V
  <2> QED
    BY <1>d
<1>3. PICK f \in Runs(V, n, <<>>, step) : TRUE
  <2> HIDE DEF V, step, is, F
  <2>1. Runs(V, n, <<>>, step) # {}
    BY ONLY <1>c, <1>e, <1>b, Recursion
  <2> QED
    BY <2>1
<1>4. is(f)
  <2>1. f \in [0 .. n -> V] /\ f[0] = <<>> /\ \A i \in 1 .. n : f[i - 1] \in V /\ f[i] = step[i][f[i - 1]]
    <3> HIDE DEF V, step, is, F
    <3>1. f \in [0 .. n -> V] /\ f[0] = <<>> /\ \A i \in 1 .. n : f[i] = step[i][f[i - 1]]
      BY DEF Runs
    <3>2. \A i \in 1 .. n : i - 1 \in 0 .. n
      BY <1>b
    <3> QED
      BY <3>1, <3>2
  <2>2. \A i \in 1 .. n : f[i] = With(i, f[i - 1])
    <3> HIDE DEF V, is, F
    <3> QED
      BY <2>1
  <2>3. f = [i \in 0 .. n |-> IF i = 0 THEN <<>> ELSE With(i, f[i - 1])]
    <3> HIDE DEF V, step, is, F
    <3> QED
      BY <2>1, <2>2
  <2> QED
    BY <2>3
<1>5. is(F)
  <2> HIDE DEF is
  <2> QED
    BY <1>4
<1>6. DOMAIN F = 0 .. n /\ F = [i \in DOMAIN F |-> F[i]] /\ F[0] = <<>>
      /\ \A i \in 1 .. n : F[i] = With(i, F[i - 1])
  <2> HIDE DEF F, V, step
  <2>1. F = [i \in 0 .. n |-> IF i = 0 THEN <<>> ELSE With(i, F[i - 1])]
    BY <1>5
  <2> HIDE DEF is
  <2> QED
    BY <1>b, <2>1
<1>7. F \in [0 .. n -> V]
  <2> HIDE DEF F, is, V
  <2>1. \A i \in 1 .. n : F[i - 1] \in V => F[i] \in V
    BY <1>d, <1>6
  <2>2. F[0] \in V
    BY <1>c, <1>6
  <2> QED
    BY ONLY <1>6, <2>1, <2>2, <1>b, Stays
<1>8. F[n] \in V
  <2> HIDE DEF F, V
  <2> QED
    BY <1>7, <1>b
<1>9. \A i \in 1 .. n : \/ F[i] = F[i - 1] /\ ssml[i].tag.name # "bookmark"
                        \/ F[i] = Append(F[i - 1], At(i)) /\ Here(i)
  <2> HIDE DEF F
  <2> QED
    BY <1>6, <1>i DEF With
<1>10. PICK T : /\ sentence \in Seq(T) /\ MarkEvents(sentence) = {}
                /\ Whole(ssml) => Spanning(ssml, T)
  BY <1>2
<1> HIDE DEF F, is, V, step
<1>11. PICK U : U = S \cup T
  OBVIOUS
<1>u. Whole(ssml) => Spanning(ssml, U)
  BY <1>t, <1>10, <1>11 DEF Spanning
<1>j. sentence \in Seq(U) /\ \A i \in 1 .. n : Here(i) => At(i) \in U
  BY <1>a, <1>10, <1>11, SeqSubset
<1>k. F \in [0 .. n -> Seq(U)]
  <2>1. Seq(S) \subseteq Seq(U)
    BY <1>11, SeqSubset
  <2> HIDE DEF S
  <2> QED
    BY <1>7, <2>1 DEF V
<1> HIDE DEF S
<1> DEFINE g == [i \in 0 .. n |-> sentence \o F[i]]
<1>l. \A q \in Seq(U), r \in Seq(U), e \in U : q \o r \in Seq(U) /\ q \o Append(r, e) = Append(q \o r, e) /\ q \o <<>> = q
  OBVIOUS
<1>12. g \in [0 .. n -> Seq(U)]
  BY <1>j, <1>k, <1>l
<1>13. g[0] = sentence /\ g[n] = Script(ssml, quotes, split)
  <2>1. 0 \in 0 .. n /\ n \in 0 .. n
    BY <1>b
  <2>2. g[0] = sentence \o <<>> /\ g[n] = sentence \o F[n]
    BY <1>6, <2>1
  <2>3. sentence \o <<>> = sentence
    BY <1>j, <1>l
  <2> QED
    BY <1>1, <2>2, <2>3
<1>14. ASSUME NEW i \in 1 .. n
       PROVE  Goes(U, g[i - 1], g[i], ssml[i].tag.name)
  <2>1. i \in 0 .. n /\ i - 1 \in 0 .. n
    BY <1>b
  <2>2. g[i] = sentence \o F[i] /\ g[i - 1] = sentence \o F[i - 1]
    BY <2>1
  <2> HIDE DEF g
  <2>3. CASE F[i] = F[i - 1] /\ ssml[i].tag.name # "bookmark"
    BY <2>2, <2>3 DEF Goes
  <2>4. CASE F[i] = Append(F[i - 1], At(i)) /\ Here(i)
    <3>1. F[i - 1] \in Seq(U) /\ At(i) \in U
      BY <1>j, <1>k, <2>1, <2>4
    <3>2. g[i] = Append(g[i - 1], At(i))
      <4>1. sentence \o Append(F[i - 1], At(i)) = Append(sentence \o F[i - 1], At(i))
        BY ONLY <1>j, <1>l, <3>1
      <4> QED
        BY ONLY <2>2, <2>4, <4>1
    <3> QED
      BY <1>h, <3>1, <3>2 DEF Goes
  <2> QED
    BY <1>9, <2>3, <2>4
<1> HIDE DEF g
<1> QED
  BY <1>10, <1>12, <1>13, <1>14, <1>u DEF n, Listing

\* They are a sequence.
LEMMA ScriptType ==
  ASSUME NEW ssml \in Seq(Cells), NEW quotes, NEW split
  PROVE  \E T : Script(ssml, quotes, split) \in Seq(T)
<1>1. Len(ssml) \in 0 .. Len(ssml)
  OBVIOUS
<1> QED
  BY <1>1, ScriptIs DEF Listing

\* Tags and events as the properties of the SSML read them.
LEMMA SayAsRead ==
  ASSUME NEW s \in Seq(Cells), SayAsAlone(s, FALSE), NEW i \in DOMAIN s, s[i].tag = SayAs
  PROVE  s[Min({k \in i + 1 .. Len(s) : s[k].tag # NoTag})].tag = EndSayAs
<1>1. PICK j \in i + 1 .. Len(s) : s[j].tag = EndSayAs /\ \A k \in i + 1 .. j - 1 : s[k].tag = NoTag
  BY DEF SayAsAlone
<1> DEFINE K == {k \in i + 1 .. Len(s) : s[k].tag # NoTag}
<1>2. EndSayAs # NoTag
  BY DEF EndSayAs, NoTag
<1>3. j \in K /\ K \subseteq Nat /\ \A k \in K : j <= k
  BY <1>1, <1>2
<1> HIDE DEF K
<1>4. Min(K) \in K /\ Min(K) <= j
  BY <1>3, Smallest
<1>5. Min(K) = j
  <2>1. Min(K) \in Nat /\ j \in Nat /\ j <= Min(K)
    BY <1>3, <1>4
  <2> QED
    BY <1>4, <2>1
<1> QED
  BY <1>1, <1>5 DEF K

LEMMA AdvanceType ==
  ASSUME NEW mappings, Len(mappings) \in Nat, NEW i \in 1 .. Len(mappings), NEW offset
  PROVE  Advance(mappings, i, offset) \in i .. Len(mappings)
<1> DEFINE J == {j \in i .. Len(mappings) : \A k \in i + 1 .. j : offset >= mappings[k].ssml}
<1>1. i \in J /\ J \subseteq 0 .. Len(mappings)
  OBVIOUS
<1>2. PICK n \in Nat : n = Len(mappings)
  OBVIOUS
<1> HIDE DEF J
<1>3. Max(J) \in J
  BY <1>1, <1>2, Largest
<1> QED
  BY <1>3 DEF J, Advance

\* The index that MapTextOffset leaves behind.
LEMMA MapTextOffsetIndex ==
  ASSUME NEW mappings, Len(mappings) \in Nat, mappings = <<>> <=> Len(mappings) = 0,
         NEW i \in 1 .. Max({1, Len(mappings)}), NEW offset, NEW length
  PROVE  MapTextOffset(mappings, i, offset, length).index \in 1 .. Max({1, Len(mappings)})
<1>1. PICK n \in Nat : n = Len(mappings)
  OBVIOUS
<1>2. Max({1, n}) = IF n = 0 THEN 1 ELSE n
  <2>1. {1, n} \subseteq 0 .. n + 1 /\ {1, n} # {}
    OBVIOUS
  <2>2. PICK m : m = Max({1, n}) /\ m \in {1, n} /\ m >= 1 /\ m >= n
    <3>1. n + 1 \in Nat
      OBVIOUS
    <3> QED
      BY <2>1, <3>1, Largest
  <2> QED
    BY <2>2
<1>3. CASE mappings = <<>>
  BY <1>3 DEF MapTextOffset
<1>4. CASE mappings # <<>>
  <2> DEFINE start == IF mappings[i].ssml > offset THEN 1 ELSE i
  <2>1. start \in 1 .. n
    BY <1>1, <1>2, <1>4
  <2> HIDE DEF start
  <2>2. Advance(mappings, start, offset) \in start .. n
    BY <1>1, <2>1, AdvanceType
  <2>3. MapTextOffset(mappings, i, offset, length).index = Advance(mappings, start, offset)
    BY <1>4 DEF MapTextOffset, start
  <2> QED
    BY <1>1, <1>2, <1>4, <2>1, <2>2, <2>3
<1> QED
  BY <1>3, <1>4

-----------------------------------------------------------------------------
(***************************************************************************)
(* The bookmarks: BuildSSML writes a tag for each one it puts into its     *)
(* list, unless the voice is an Edge voice, which gets none; the           *)
(* application has other names for the tags of its own.                    *)
(***************************************************************************)
Marked(s) == {i \in 1 .. Len(s) : s[i].tag.name = "bookmark"}
OtherNames == Strings \ {"bookmark"}
Unmarked   == {t \in Seq(Cells) : \A i \in 1 .. Len(t) : t[i].tag.name # "bookmark"}
Named      == {b \in Builders : b.customTags \in Seq(OtherNames)}

\* What follows b with no bookmark in between.
Beside(b) == {c \in Named : /\ c.edge = b.edge /\ c.bookmarks = b.bookmarks
                            /\ Marked(c.ssml) = Marked(b.ssml)}

LEMMA NamesAre ==
  /\ {"none", "speak", "voice", "prosody", "emphasis", "say-as", "phoneme", "break"} \subseteq OtherNames
  /\ OtherNames \subseteq Strings
BY Literals DEF OtherNames

LEMMA UnmarkedNone == <<>> \in Unmarked
<1>1. <<>> \in Seq(Cells) /\ Len(<<>>) = 0
  OBVIOUS
<1> QED
  BY <1>1 DEF Unmarked

\* Two runs of characters, one behind the other.
LEMMA Behind ==
  ASSUME NEW s \in Seq(Cells), NEW t \in Seq(Cells)
  PROVE  /\ s \o t \in Seq(Cells) /\ Len(s) \in Nat /\ Len(t) \in Nat /\ Len(s \o t) = Len(s) + Len(t)
         /\ \A i \in 1 .. Len(s) : (s \o t)[i] = s[i]
         /\ \A i \in 1 .. Len(t) : (s \o t)[Len(s) + i] = t[i]
OBVIOUS

LEMMA UnmarkedBoth ==
  ASSUME NEW t \in Unmarked, NEW u \in Unmarked
  PROVE  t \o u \in Unmarked
<1>1. t \in Seq(Cells) /\ u \in Seq(Cells)
  BY DEF Unmarked
<1>2. PICK w \in Seq(Cells) : w = t \o u /\ Len(w) = Len(t) + Len(u) /\ Len(t) \in Nat /\ Len(u) \in Nat
  BY <1>1, Behind
<1>3. ASSUME NEW i \in 1 .. Len(w) PROVE w[i].tag.name # "bookmark"
  <2>1. CASE i \in 1 .. Len(t)
    <3>1. w[i] = t[i]
      BY <1>1, <1>2, <2>1, Behind
    <3> QED
      BY <2>1, <3>1 DEF Unmarked
  <2>2. CASE i \in Len(t) + 1 .. Len(w)
    <3>1. PICK j \in 1 .. Len(u) : i = Len(t) + j
      <4>1. i - Len(t) \in 1 .. Len(u) /\ i = Len(t) + (i - Len(t))
        BY <1>2, <2>2
      <4> QED
        BY <4>1
    <3>2. w[i] = u[j]
      BY <1>1, <1>2, <3>1, Behind
    <3> QED
      BY <3>2 DEF Unmarked
  <2> QED
    BY <1>2, <2>1, <2>2
<1> QED
  BY <1>2, <1>3 DEF Unmarked

LEMMA UnmarkedTag ==
  ASSUME NEW d \in Strings, NEW m \in OtherNames
  PROVE  Tag(d, m) \in Unmarked
<1>1. m \in Strings /\ m # "bookmark"
  BY DEF OtherNames
<1>a. <<>> \in Seq(Cells) /\ Len(<<>>) = 0
  OBVIOUS
<1>2. PICK e \in Seq(Cells) : e = <<>> /\ Len(e) = 0
  BY <1>a
<1>3. Tag(d, m) \in Seq(Cells)
  BY <1>1, TagCells
<1>4. PICK t \in Seq(Cells) : t = Tag(d, m)
  BY <1>3
<1>5. e \o t = t
  BY <1>2
<1>6. /\ Len(t) = 3 /\ t[1].tag = NoTag /\ t[3].tag = NoTag
      /\ t[2].tag = [dir |-> d, name |-> m]
  <2>1. LET w == e \o Tag(d, m)
        IN  /\ Len(w) = Len(e) + 3 /\ w[Len(e) + 1].tag = NoTag /\ w[Len(e) + 3].tag = NoTag
            /\ w[Len(e) + 2].tag = [dir |-> d, name |-> m]
    BY <1>1, TagPlaces
  <2>2. 0 + 1 = 1 /\ 0 + 2 = 2 /\ 0 + 3 = 3
    OBVIOUS
  <2> QED
    BY <1>2, <1>4, <1>5, <2>1, <2>2
<1>7. \A i \in 1 .. Len(t) : i = 1 \/ i = 2 \/ i = 3
  BY <1>6
<1>8. NoTag.name # "bookmark"
  BY DEF NoTag
<1>9. \A i \in 1 .. Len(t) : t[i].tag.name # "bookmark"
  <2>1. t[2].tag.name = m
    BY <1>6
  <2> QED
    BY <1>1, <1>6, <1>7, <1>8, <2>1
<1>10. t \in Unmarked
  BY <1>9 DEF Unmarked
<1> QED
  BY <1>4, <1>10

LEMMA UnmarkedOpening ==
  ASSUME NEW names \in Seq(OtherNames)
  PROVE  Opening(names) \in Unmarked
<1>1. names \in Seq(Strings)
  BY NamesAre, SeqSubset
<1>2. PICK n \in Nat : n = Len(names)
  OBVIOUS
<1>3. PICK f \in [0 .. n -> Seq(Cells)] :
         /\ f[0] = <<>> /\ Opening(names) = f[n]
         /\ \A i \in 1 .. n : f[i] = f[i - 1] \o Tag("open", names[i])
  BY <1>1, <1>2, OpeningIs
<1> DEFINE S == {i \in 0 .. n : f[i] \in Unmarked}
<1>4. 0 \in S
  BY <1>3, UnmarkedNone
<1>5. ASSUME NEW i \in 0 .. n - 1, i \in S PROVE i + 1 \in S
  <2>1. i + 1 \in 1 .. n /\ (i + 1) - 1 = i /\ names[i + 1] \in OtherNames
    BY <1>2
  <2>2. f[i + 1] = f[i] \o Tag("open", names[i + 1])
    BY <1>3, <2>1
  <2>3. Tag("open", names[i + 1]) \in Unmarked
    BY <2>1, Literals, UnmarkedTag
  <2>4. f[i + 1] \in Unmarked
    BY <1>5, <2>2, <2>3, UnmarkedBoth
  <2> QED
    BY <2>1, <2>4
<1>6. \A i \in 0 .. n : i \in S
  <2> HIDE DEF S
  <2> QED
    BY <1>4, <1>5, Induct
<1> QED
  BY <1>3, <1>6

LEMMA UnmarkedClosing ==
  ASSUME NEW names \in Seq(OtherNames)
  PROVE  Closing(names) \in Unmarked
<1>1. names \in Seq(Strings)
  BY NamesAre, SeqSubset
<1>2. PICK n \in Nat : n = Len(names)
  OBVIOUS
<1>3. PICK f \in [0 .. n -> Seq(Cells)] :
         /\ f[0] = <<>> /\ Closing(names) = f[n]
         /\ \A i \in 1 .. n : f[i] = Tag("close", names[i]) \o f[i - 1]
  BY <1>1, <1>2, ClosingIs
<1> DEFINE S == {i \in 0 .. n : f[i] \in Unmarked}
<1>4. 0 \in S
  BY <1>3, UnmarkedNone
<1>5. ASSUME NEW i \in 0 .. n - 1, i \in S PROVE i + 1 \in S
  <2>1. i + 1 \in 1 .. n /\ (i + 1) - 1 = i /\ names[i + 1] \in OtherNames
    BY <1>2
  <2>2. f[i + 1] = Tag("close", names[i + 1]) \o f[i]
    BY <1>3, <2>1
  <2>3. Tag("close", names[i + 1]) \in Unmarked
    BY <2>1, Literals, UnmarkedTag
  <2>4. f[i + 1] \in Unmarked
    BY <1>5, <2>2, <2>3, UnmarkedBoth
  <2> QED
    BY <2>1, <2>4
<1>6. \A i \in 0 .. n : i \in S
  <2> HIDE DEF S
  <2> QED
    BY <1>4, <1>5, Induct
<1> QED
  BY <1>3, <1>6

LEMMA MarkedBehind ==
  ASSUME NEW s \in Seq(Cells), NEW t \in Unmarked
  PROVE  Marked(s \o t) = Marked(s)
<1>1. t \in Seq(Cells) /\ \A i \in 1 .. Len(t) : t[i].tag.name # "bookmark"
  BY DEF Unmarked
<1>2. PICK w \in Seq(Cells) : w = s \o t /\ Len(w) = Len(s) + Len(t) /\ Len(s) \in Nat /\ Len(t) \in Nat
  BY <1>1, Behind
<1>3. \A i \in 1 .. Len(s) : i \in 1 .. Len(w) /\ w[i] = s[i]
  BY <1>1, <1>2, Behind
<1>4. ASSUME NEW i \in Len(s) + 1 .. Len(w) PROVE w[i].tag.name # "bookmark"
  <2>1. i - Len(s) \in 1 .. Len(t) /\ i = Len(s) + (i - Len(s))
    BY <1>2
  <2>2. w[Len(s) + (i - Len(s))] = t[i - Len(s)]
    BY <1>1, <1>2, <2>1, Behind
  <2> QED
    BY <1>1, <2>1, <2>2
<1>5. \A i \in 1 .. Len(w) : i \in 1 .. Len(s) \/ i \in Len(s) + 1 .. Len(w)
  BY <1>2
<1>6. Marked(w) = Marked(s)
  BY <1>3, <1>4, <1>5 DEF Marked
<1> QED
  BY <1>2, <1>6

LEMMA MarkedText ==
  ASSUME NEW s \in Seq(Cells), NEW t \in TextAfter(s)
  PROVE  Marked(t) = Marked(s)
<1>1. /\ Len(s) \in Nat /\ Len(t) \in Nat /\ Len(s) <= Len(t) /\ \A i \in 1 .. Len(s) : t[i] = s[i]
      /\ \A i \in Len(s) + 1 .. Len(t) : t[i].tag = NoTag
  BY DEF TextAfter
<1>2. NoTag.name # "bookmark"
  BY DEF NoTag
<1>3. \A i \in 1 .. Len(t) : i \in 1 .. Len(s) \/ i \in Len(s) + 1 .. Len(t)
  BY <1>1
<1>4. \A i \in 1 .. Len(s) : i \in 1 .. Len(t)
  BY <1>1
<1> QED
  BY <1>1, <1>2, <1>3, <1>4 DEF Marked

LEMMA BesideSelf == ASSUME NEW b \in Named PROVE b \in Beside(b)
BY DEF Beside

LEMMA BesideMore ==
  ASSUME NEW b, NEW c \in Beside(b), NEW d \in Beside(c)
  PROVE  d \in Beside(b)
BY DEF Beside

LEMMA BesideWrite ==
  ASSUME NEW b \in Named, NEW t \in Unmarked
  PROVE  Write(b, t) \in Beside(b)
<1>1. b \in Builders /\ t \in Seq(Cells)
  BY DEF Named, Unmarked
<1>2. PICK w \in Builders : w = Write(b, t) /\ Same(b, w) /\ w.ssml = b.ssml \o t
  BY <1>1, WriteType
<1>3. w.bookmarks = b.bookmarks
  BY <1>1, <1>2 DEF Write, Builders
<1>4. Marked(w.ssml) = Marked(b.ssml)
  <2>1. b.ssml \in Seq(Cells)
    BY <1>1 DEF Builders
  <2> QED
    BY <1>2, <2>1, MarkedBehind
<1> QED
  BY <1>2, <1>3, <1>4 DEF Beside, Named, Same

LEMMA BesideTag ==
  ASSUME NEW b \in Named, NEW d \in Strings, NEW m \in OtherNames
  PROVE  Write(b, Tag(d, m)) \in Beside(b)
BY UnmarkedTag, BesideWrite

LEMMA CharacterBookmarks ==
  ASSUME NEW b \in Builders, NEW f \in Fragments, NEW i \in 1 .. Len(f.text)
  PROVE  AppendCharacter(b, f, i).bookmarks = b.bookmarks
<1> DEFINE chars == Escaped(f.text[i])
           cells == [k \in DOMAIN chars |-> [Made(chars[k]) EXCEPT !.from = f.at + i - 1]]
           next  == Write(b, cells)
<1>1. \A x : /\ Write(b, x).bookmarks = b.bookmarks
             /\ \A n : Map(Write(b, x), n).bookmarks = b.bookmarks
  BY DEF Write, Map, Builders
<1>2. AppendCharacter(b, f, i) = IF Len(chars) > 1 THEN Map(next, f.at + i) ELSE next
  BY DEF AppendCharacter
<1> HIDE DEF chars, cells
<1> QED
  BY <1>1, <1>2

LEMMA MappedTextBookmarks ==
  ASSUME NEW b \in Builders, NEW f \in Fragments
  PROVE  MappedText(b, f).bookmarks = b.bookmarks
<1>1. PICK m \in Builders : m = Map(b, f.at) /\ m.bookmarks = b.bookmarks
  <2>1. f.at \in Int
    BY DEF Fragments
  <2>2. Map(b, f.at) \in Builders
    BY <2>1, MapSaid DEF Said
  <2>3. Map(b, f.at).bookmarks = b.bookmarks
    BY DEF Map, Builders
  <2> QED
    BY <2>2, <2>3
<1>2. PICK n \in Nat : n = Len(f.text)
  BY DEF Fragments
<1>3. PICK u \in [0 .. n -> Said(m)] :
         /\ u[0] = m /\ AppendTextFragToSsml(m, f) = u[n]
         /\ \A i \in 1 .. n : u[i] = AppendCharacter(u[i - 1], f, i)
  BY <1>2, AppendTextIs
<1> DEFINE S == {i \in 0 .. n : u[i].bookmarks = b.bookmarks}
<1>4. 0 \in S
  BY <1>1, <1>3
<1>5. ASSUME NEW i \in 0 .. n - 1, i \in S PROVE i + 1 \in S
  <2>1. i + 1 \in 1 .. n /\ (i + 1) - 1 = i
    OBVIOUS
  <2>2. u[i + 1] = AppendCharacter(u[i], f, i + 1)
    BY <1>3, <2>1
  <2>3. u[i] \in Builders
    BY DEF Said
  <2>4. u[i + 1].bookmarks = u[i].bookmarks
    BY <1>2, <2>1, <2>2, <2>3, CharacterBookmarks
  <2> QED
    BY <1>5, <2>1, <2>4
<1>6. \A i \in 0 .. n : i \in S
  <2> HIDE DEF S
  <2> QED
    BY <1>4, <1>5, Induct
<1>7. PICK a : a = AppendTextFragToSsml(m, f) /\ a \in Builders /\ a.bookmarks = b.bookmarks
  <2>1. u[n] \in Said(m) /\ u[n].bookmarks = b.bookmarks
    BY <1>6
  <2> QED
    BY <1>3, <2>1 DEF Said
<1>8. MappedText(b, f) = Map(a, f.at + Len(f.text))
  BY <1>1, <1>7 DEF MappedText
<1>9. \A x : Map(a, x).bookmarks = a.bookmarks
  BY <1>7 DEF Map, Builders
<1> QED
  BY <1>7, <1>8, <1>9

LEMMA BesideText ==
  ASSUME NEW b \in Named, NEW f \in Fragments
  PROVE  MappedText(b, f) \in Beside(b) /\ MappedText(Spaced(b, f), f) \in Beside(b)
<1>1. ASSUME NEW c \in Named PROVE MappedText(c, f) \in Beside(c)
  <2>1. c \in Builders /\ c.ssml \in Seq(Cells)
    BY DEF Named, Builders
  <2>2. PICK d \in Said(c) : d = MappedText(c, f) /\ d.bookmarks = c.bookmarks
    BY <2>1, MappedTextSaid, MappedTextBookmarks
  <2>3. Marked(d.ssml) = Marked(c.ssml)
    BY <2>1, MarkedText DEF Said
  <2> QED
    BY <2>2, <2>3 DEF Beside, Named, Said, Same
<1>2. Spaced(b, f) \in Beside(b)
  <2>1. b \in Builders /\ b.ssml \in Seq(Cells)
    BY DEF Named, Builders
  <2>2. Spaced(b, f).bookmarks = b.bookmarks
    BY <2>1 DEF Spaced, Write, Builders
  <2>3. PICK d \in Said(b) : d = Spaced(b, f) /\ d.bookmarks = b.bookmarks
    BY <2>1, <2>2, SpacedSaid
  <2>4. Marked(d.ssml) = Marked(b.ssml)
    BY <2>1, MarkedText DEF Said
  <2> QED
    BY <2>3, <2>4 DEF Beside, Named, Said, Same
<1>3. PICK c \in Beside(b) : c = Spaced(b, f)
  BY <1>2
<1>4. c \in Named
  BY DEF Beside
<1> QED
  BY <1>1, <1>3, <1>4, BesideMore

LEMMA BesideFlags ==
  ASSUME NEW b \in Named
  PROVE  /\ [b EXCEPT !.inProsody = TRUE, !.prosodyCount = @ + 1] \in Beside(b)
         /\ [b EXCEPT !.inEmphasis = TRUE] \in Beside(b) /\ [b EXCEPT !.inSayAs = TRUE] \in Beside(b)
         /\ [b EXCEPT !.inCustomTags = TRUE] \in Beside(b)
<1>1. b \in Builders
  BY DEF Named
<1>2. \A c \in Builders :
         c.edge = b.edge /\ c.bookmarks = b.bookmarks /\ c.ssml = b.ssml /\ c.customTags = b.customTags
         => c \in Beside(b)
  BY DEF Beside, Named
<1>3. PICK c1 \in Builders : c1 = [b EXCEPT !.inProsody = TRUE, !.prosodyCount = @ + 1]
  BY <1>1, FlagsType
<1>4. PICK c2 \in Builders : c2 = [b EXCEPT !.inEmphasis = TRUE]
  BY <1>1, FlagsType
<1>5. PICK c3 \in Builders : c3 = [b EXCEPT !.inSayAs = TRUE]
  BY <1>1, FlagsType
<1>6. PICK c4 \in Builders : c4 = [b EXCEPT !.inCustomTags = TRUE]
  BY <1>1, FlagsType
<1>7. c1 \in Beside(b)
  <2>1. /\ c1.edge = b.edge /\ c1.bookmarks = b.bookmarks /\ c1.ssml = b.ssml
        /\ c1.customTags = b.customTags
    BY <1>1, <1>3 DEF Builders
  <2> QED
    BY <1>2, <2>1
<1>8. c2 \in Beside(b)
  <2>1. /\ c2.edge = b.edge /\ c2.bookmarks = b.bookmarks /\ c2.ssml = b.ssml
        /\ c2.customTags = b.customTags
    BY <1>1, <1>4 DEF Builders
  <2> QED
    BY <1>2, <2>1
<1>9. c3 \in Beside(b)
  <2>1. /\ c3.edge = b.edge /\ c3.bookmarks = b.bookmarks /\ c3.ssml = b.ssml
        /\ c3.customTags = b.customTags
    BY <1>1, <1>5 DEF Builders
  <2> QED
    BY <1>2, <2>1
<1>10. c4 \in Beside(b)
  <2>1. /\ c4.edge = b.edge /\ c4.bookmarks = b.bookmarks /\ c4.ssml = b.ssml
        /\ c4.customTags = b.customTags
    BY <1>1, <1>6 DEF Builders
  <2> QED
    BY <1>2, <2>1
<1> QED
  BY <1>3, <1>4, <1>5, <1>6, <1>7, <1>8, <1>9, <1>10

LEMMA BesideOpened ==
  ASSUME NEW b \in Named, NEW f
  PROVE  /\ OpenProsody(b, f) \in Beside(b) /\ OpenEmphasis(b, f) \in Beside(b)
         /\ ReopenCustomTags(b) \in Beside(b) /\ OpenSayAs(b, f) \in Beside(b)
<1>1. b \in Beside(b)
  BY BesideSelf
<1>2. \A c \in Beside(b) : c \in Named
  BY DEF Beside
<1>3. OpenProsody(b, f) \in Beside(b)
  <2>1. PICK w \in Beside(b) : w = Write(b, Tag("open", "prosody"))
    BY Literals, NamesAre, BesideTag
  <2>2. [w EXCEPT !.inProsody = TRUE, !.prosodyCount = @ + 1] \in Beside(b)
    BY <1>2, BesideFlags, BesideMore
  <2> QED
    BY <1>1, <2>1, <2>2 DEF OpenProsody
<1>4. OpenEmphasis(b, f) \in Beside(b)
  <2>1. PICK w \in Beside(b) : w = Write(b, Tag("open", "emphasis"))
    BY Literals, NamesAre, BesideTag
  <2>2. [w EXCEPT !.inEmphasis = TRUE] \in Beside(b)
    BY <1>2, BesideFlags, BesideMore
  <2> QED
    BY <1>1, <2>1, <2>2 DEF OpenEmphasis
<1>5. ReopenCustomTags(b) \in Beside(b)
  <2>1. Opening(b.customTags) \in Unmarked
    BY UnmarkedOpening DEF Named
  <2>2. PICK w \in Beside(b) : w = Write(b, Opening(b.customTags))
    BY <2>1, BesideWrite
  <2>3. [w EXCEPT !.inCustomTags = TRUE] \in Beside(b)
    BY <1>2, BesideFlags, BesideMore
  <2> QED
    BY <1>1, <2>2, <2>3 DEF ReopenCustomTags
<1>6. OpenSayAs(b, f) \in Beside(b)
  <2>1. PICK w \in Beside(b) : w = Write(b, Tag("open", "say-as"))
    BY Literals, NamesAre, BesideTag
  <2>2. [w EXCEPT !.inSayAs = TRUE] \in Beside(b)
    BY <1>2, BesideFlags, BesideMore
  <2> QED
    BY <1>1, <2>1, <2>2 DEF OpenSayAs
<1> QED
  BY <1>3, <1>4, <1>5, <1>6

LEMMA BesideCustomTag ==
  ASSUME NEW b \in Named, NEW m \in OtherNames
  PROVE  CloseCustomTag(b, m) \in Beside(b)
<1>1. PICK k \in Seq(OtherNames) : k = b.customTags
  BY DEF Named
<1>2. SUFFICES ASSUME NEW i \in 1 .. Len(k), ClosesAt(OtherNames, b, k, m, i)
               PROVE  CloseCustomTag(b, m) \in Beside(b)
  BY <1>1, CloseCustomTagIs, BesideSelf
<1>3. PICK t \in Seq(OtherNames), u \in Seq(OtherNames) : t = SubSeq(k, 1, i - 1) /\ u = SubSeq(k, i + 1, Len(k))
  BY <1>2 DEF ClosesAt
<1>4. PICK x \in Unmarked, y \in Unmarked : x = Closing(u) /\ y = Tag("close", m)
  BY Literals, UnmarkedTag, UnmarkedClosing
<1>5. PICK w \in Beside(b) : w = Write(b, x \o y)
  BY UnmarkedBoth, BesideWrite
<1>6. w \in Builders /\ w.customTags = k
  <2>1. x \in Seq(Cells) /\ y \in Seq(Cells) /\ b \in Builders
    BY DEF Unmarked, Named
  <2> QED
    BY <1>1, <1>5, <2>1, WriteTwice DEF Same
<1>7. CloseCustomTag(b, m) = [w EXCEPT !.customTags = t]
  BY <1>2, <1>3, <1>4, <1>5, <1>6 DEF ClosesAt
<1>8. t \in Seq(Strings)
  BY NamesAre, SeqSubset
<1>9. PICK c \in Builders : c = [w EXCEPT !.customTags = t]
  <2>1. [w EXCEPT !.customTags = t] \in Builders
    BY <1>6, <1>8 DEF Builders
  <2> QED
    BY <2>1
<1>10. c.customTags = t /\ c.edge = w.edge /\ c.bookmarks = w.bookmarks /\ c.ssml = w.ssml
  BY <1>6, <1>9 DEF Builders
<1> QED
  BY <1>7, <1>9, <1>10 DEF Beside, Named

LEMMA BesideEnds ==
  ASSUME NEW b \in Named, NEW level \in 0 .. 3
  PROVE  CloseTags(b, level) \in Beside(b)
<1> DEFINE sayAs    == b.inSayAs /\ level < 3
           custom   == b.inCustomTags /\ level < 2
           emphasis == b.inEmphasis /\ level < 2
           prosody  == b.inProsody /\ level < 1
           z1 == IF sayAs THEN Tag("close", "say-as") ELSE <<>>
           z2 == IF custom THEN Closing(b.customTags) ELSE <<>>
           z3 == IF emphasis THEN Tag("close", "emphasis") ELSE <<>>
           z4 == IF prosody THEN Tag("close", "prosody") ELSE <<>>
           z == z1 \o z2 \o z3 \o z4
           w == Write(b, z)
<1>1. z \in Unmarked
  <2>1. z1 \in Unmarked /\ z3 \in Unmarked /\ z4 \in Unmarked
    BY Literals, NamesAre, UnmarkedTag, UnmarkedNone
  <2>2. z2 \in Unmarked
    BY UnmarkedNone, UnmarkedClosing DEF Named
  <2> HIDE DEF z1, z2, z3, z4
  <2> QED
    BY <2>1, <2>2, UnmarkedBoth
<1>2. CloseTags(b, level) =
        [w EXCEPT !.inSayAs = IF sayAs THEN FALSE ELSE @, !.inCustomTags = IF custom THEN FALSE ELSE @,
                  !.inEmphasis = IF emphasis THEN FALSE ELSE @, !.inProsody = IF prosody THEN FALSE ELSE @]
  BY DEF CloseTags
<1> HIDE DEF z
<1>3. w \in Beside(b)
  BY <1>1, BesideWrite
<1>4. PICK c \in Builders : c = CloseTags(b, level)
  BY CloseTagsType DEF Named
<1> HIDE DEF w, sayAs, custom, emphasis, prosody
<1>5. w \in Builders
  BY <1>3 DEF Beside, Named
<1>6. c.customTags = w.customTags /\ c.edge = w.edge /\ c.bookmarks = w.bookmarks /\ c.ssml = w.ssml
  BY <1>2, <1>4, <1>5 DEF Builders
<1> QED
  BY <1>3, <1>4, <1>6 DEF Beside, Named

LEMMA BesideUnknown ==
  ASSUME NEW b \in Named, NEW tag \in Tags, tag.dir \in {"self", "open", "close", "bad"},
         tag.name # "bookmark"
  PROVE  UnknownTag(b, tag) \in Beside(b)
<1>1. PICK m \in OtherNames : m = tag.name
  BY DEF Tags, OtherNames
<1>2. CASE tag.dir = "self"
  BY <1>1, <1>2, Literals, BesideTag DEF UnknownTag
<1>3. CASE tag.dir = "close"
  BY <1>1, <1>3, BesideCustomTag DEF UnknownTag
<1>4. CASE tag.dir = "bad"
  BY <1>4, BesideSelf DEF UnknownTag
<1>5. CASE tag.dir = "open"
  <2>1. PICK w \in Beside(b) : w = Write(b, Tag("open", m))
    BY Literals, BesideTag
  <2>2. w \in Builders /\ w.customTags \in Seq(OtherNames)
    BY DEF Beside, Named
  <2>3. PICK k \in Seq(OtherNames) : k = Append(w.customTags, m)
    <3>1. \A x \in Seq(OtherNames) : Append(x, m) \in Seq(OtherNames)
      OBVIOUS
    <3> QED
      BY <2>2, <3>1
  <2>4. UnknownTag(b, tag) = [w EXCEPT !.customTags = k]
    BY <1>1, <1>5, <2>1, <2>3 DEF UnknownTag
  <2>5. k \in Seq(Strings)
    BY NamesAre, SeqSubset
  <2>6. PICK c \in Builders : c = [w EXCEPT !.customTags = k]
    <3>1. [w EXCEPT !.customTags = k] \in Builders
      BY <2>2, <2>5 DEF Builders
    <3> QED
      BY <3>1
  <2>7. c.customTags = k /\ c.edge = w.edge /\ c.bookmarks = w.bookmarks /\ c.ssml = w.ssml
    BY <2>2, <2>6 DEF Builders
  <2> QED
    BY <2>4, <2>6, <2>7 DEF Beside, Named
<1> QED
  BY <1>2, <1>3, <1>4, <1>5

\* As many marks in the SSML as bookmarks in the list; none for Edge.
Tallied(b, isEdge) ==
    /\ b \in Named /\ b.edge = isEdge
    /\ isEdge => Marked(b.ssml) = {}
    /\ ~isEdge => IsFiniteSet(Marked(b.ssml)) /\ Cardinality(Marked(b.ssml)) = Len(b.bookmarks)

LEMMA BesideTallied ==
  ASSUME NEW b, NEW isEdge \in BOOLEAN, Tallied(b, isEdge), NEW c \in Beside(b)
  PROVE  Tallied(c, isEdge)
BY DEF Tallied, Beside

\* A bookmark's tag is one mark more.
LEMMA BookmarkTallied ==
  ASSUME NEW b, Tallied(b, FALSE), NEW f \in Fragments
  PROVE  Tallied(AddBookmark(Write(b, Tag("self", "bookmark")), f), FALSE)
<1>1. b \in Builders /\ b.customTags \in Seq(OtherNames)
  BY DEF Tallied, Named
<1>2. PICK s \in Seq(Cells) : s = b.ssml
  BY <1>1 DEF Builders
<1>3. PICK t \in Seq(Cells) : t = Tag("self", "bookmark")
  BY Literals, TagCells
<1>4. PICK w \in Builders : w = Write(b, t) /\ Same(b, w) /\ w.ssml = s \o t
  BY <1>1, <1>2, WriteType
<1>5. PICK n \in Nat : n = Len(s)
  OBVIOUS
<1>6. Marked(w.ssml) = Marked(s) \cup {n + 2} /\ n + 2 \notin Marked(s)
  <2>1. PICK u \in Seq(Cells) :
           /\ u = s \o t /\ Len(u) = n + 3 /\ \A i \in 1 .. n : u[i] = s[i]
           /\ u[n + 1].tag = NoTag /\ u[n + 3].tag = NoTag
           /\ u[n + 2].tag = [dir |-> "self", name |-> "bookmark"]
    <3>1. PICK d \in Strings, m \in Strings : d = "self" /\ m = "bookmark"
      BY Literals
    <3>2. LET u == s \o Tag(d, m)
          IN  /\ u \in Seq(Cells) /\ Len(u) = Len(s) + 3 /\ \A i \in 1 .. Len(s) : u[i] = s[i]
              /\ u[Len(s) + 1].tag = NoTag /\ u[Len(s) + 3].tag = NoTag
              /\ u[Len(s) + 2].tag = [dir |-> d, name |-> m]
      BY TagPlaces
    <3> QED
      BY <1>3, <1>5, <3>1, <3>2
  <2>2. u[n + 1].tag.name # "bookmark" /\ u[n + 3].tag.name # "bookmark" /\ u[n + 2].tag.name = "bookmark"
    BY <2>1 DEF NoTag
  <2>3. \A i : i \in 1 .. n + 3 <=> (i \in 1 .. n \/ i = n + 1 \/ i = n + 2 \/ i = n + 3)
    OBVIOUS
  <2>4. \A i \in 1 .. n + 3 : u[i].tag.name = "bookmark" <=> (i \in 1 .. n /\ s[i].tag.name = "bookmark") \/ i = n + 2
    <3> SUFFICES ASSUME NEW i \in 1 .. n + 3
                 PROVE  u[i].tag.name = "bookmark" <=> (i \in 1 .. n /\ s[i].tag.name = "bookmark") \/ i = n + 2
      OBVIOUS
    <3>1. CASE i \in 1 .. n
      BY <2>1, <3>1
    <3>2. CASE i \notin 1 .. n
      BY <2>2, <2>3, <3>2
    <3> QED
      BY <3>1, <3>2
  <2>5. Marked(u) = Marked(s) \cup {n + 2}
    BY <1>5, <2>1, <2>3, <2>4 DEF Marked
  <2>6. n + 2 \notin Marked(s)
    BY <1>5 DEF Marked
  <2> QED
    BY <1>4, <2>1, <2>5, <2>6
<1>7. IsFiniteSet(Marked(s)) /\ Cardinality(Marked(s)) = Len(b.bookmarks) /\ w.edge = FALSE
  BY <1>1, <1>2, <1>4 DEF Tallied, Same, Builders
<1>8. /\ IsFiniteSet(Marked(w.ssml)) /\ Cardinality(Marked(w.ssml)) = Len(b.bookmarks) + 1
  BY <1>6, <1>7, FS_AddElement
<1>9. PICK k \in Seq(Int) : k = Append(w.bookmarks, f.at) /\ Len(k) = Len(b.bookmarks) + 1
  <2>1. w.bookmarks = b.bookmarks
    BY <1>1, <1>4 DEF Write, Builders
  <2>2. b.bookmarks \in Seq(Int) /\ f.at \in Int
    BY <1>1 DEF Builders, Fragments
  <2>3. \A q \in Seq(Int), x \in Int : Append(q, x) \in Seq(Int) /\ Len(Append(q, x)) = Len(q) + 1
    OBVIOUS
  <2> QED
    BY <2>1, <2>2, <2>3
<1>10. PICK c \in Builders : c = AddBookmark(w, f)
  BY AddBookmarkSaid DEF Said
<1>11. c = [w EXCEPT !.bookmarks = k]
  BY <1>9, <1>10 DEF AddBookmark
<1>12. c.bookmarks = k /\ c.ssml = w.ssml /\ c.edge = w.edge /\ c.customTags = w.customTags
  BY <1>4, <1>11 DEF Builders
<1>13. c.customTags \in Seq(OtherNames)
  BY <1>1, <1>4, <1>12 DEF Same
<1> QED
  BY <1>3, <1>4, <1>7, <1>8, <1>9, <1>10, <1>12, <1>13 DEF Tallied, Named

LEMMA BodyTallied ==
  ASSUME NEW b, Tallied(b, FALSE), NEW f \in Fragments,
         f.act = "ParseUnknownTag" => f.tag.name # "bookmark"
  PROVE  Tallied(Body(b, f), FALSE)
<1>1. f.act \in Acts /\ f.tag \in Tags /\ (f.act = "ParseUnknownTag" => f.tag.dir \in {"self", "open", "close", "bad"})
  BY DEF Fragments
<1>a. b \in Named
  BY DEF Tallied
<1>2. CASE f.act = "Speak"
  <2>1. Body(b, f) \in Beside(b)
    BY <1>a, <1>2, BesideText DEF Body
  <2> QED
    BY <2>1, BesideTallied
<1>3. CASE f.act = "Silence"
  <2>1. Body(b, f) \in Beside(b)
    BY <1>a, <1>3, Literals, NamesAre, BesideTag DEF Body
  <2> QED
    BY <2>1, BesideTallied
<1>4. CASE f.act = "Bookmark"
  BY <1>4, BookmarkTallied DEF Body
<1>5. CASE f.act \in {"SpellOut", "Pronounce"}
  <2>1. PICK m \in OtherNames : m = IF f.act = "SpellOut" THEN "say-as" ELSE "phoneme"
    BY NamesAre
  <2>2. Body(b, f) = Write(MappedText(Write(b, Tag("open", m)), f), Tag("close", m))
    BY <1>5, <2>1 DEF Body
  <2>3. PICK w \in Beside(b) : w = Write(b, Tag("open", m))
    BY <1>a, Literals, BesideTag
  <2>4. PICK v \in Beside(w) : v = MappedText(w, f)
    BY BesideText DEF Beside
  <2>5. PICK x \in Beside(v) : x = Write(v, Tag("close", m))
    BY Literals, BesideTag DEF Beside
  <2>6. x \in Beside(b)
    BY BesideMore
  <2> QED
    BY <2>2, <2>3, <2>4, <2>5, <2>6, BesideTallied
<1>6. CASE f.act = "ParseUnknownTag"
  <2>1. Body(b, f) \in Beside(b)
    BY <1>1, <1>a, <1>6, BesideUnknown DEF Body
  <2> QED
    BY <2>1, BesideTallied
<1> QED
  BY <1>1, <1>2, <1>3, <1>4, <1>5, <1>6 DEF Acts

LEMMA EdgeBodyTallied ==
  ASSUME NEW b, Tallied(b, TRUE), NEW f \in Fragments
  PROVE  Tallied(EdgeBody(b, f), TRUE)
<1>1. b \in Builders /\ b.customTags \in Seq(OtherNames) /\ Marked(b.ssml) = {} /\ b.ssml \in Seq(Cells)
  BY DEF Tallied, Named, Builders
<1>2. PICK c \in Said(b) : c = EdgeBody(b, f)
  BY <1>1, EdgeBodySaid
<1>3. Marked(c.ssml) = {}
  BY <1>1, MarkedText DEF Said
<1> QED
  BY <1>1, <1>2, <1>3 DEF Tallied, Named, Said, Same

\* No tag of the application's own is a bookmark.
NoBookmarkTag(doc) == \A i \in 1 .. Len(doc) : doc[i].act = "ParseUnknownTag" => doc[i].tag.name # "bookmark"

LEMMA AddFragmentTallied ==
  ASSUME NEW b, NEW isEdge \in BOOLEAN, Tallied(b, isEdge),
         NEW doc \in Seq(Fragments), NoBookmarkTag(doc), NEW i \in 1 .. Len(doc)
  PROVE  Tallied(AddFragment(b, doc, i), isEdge)
<1>1. PICK f \in Fragments : f = doc[i] /\ (f.act = "ParseUnknownTag" => f.tag.name # "bookmark")
  BY DEF NoBookmarkTag
<1> DEFINE text == b.hasText \/ (f.act # "Bookmark" /\ f.text # <<>>)
<1>a. b \in Builders /\ b \in Named
  BY DEF Tallied, Named
<1>2. text \in BOOLEAN
  BY <1>a DEF Builders
<1>3. PICK a \in Beside(b) : a = [b EXCEPT !.hasText = text]
  <2> HIDE DEF text
  <2>1. PICK a \in Builders : a = [b EXCEPT !.hasText = text]
    <3>1. [b EXCEPT !.hasText = text] \in Builders
      BY <1>2, <1>a DEF Builders
    <3> QED
      BY <3>1
  <2>2. a.customTags = b.customTags /\ a.edge = b.edge /\ a.bookmarks = b.bookmarks /\ a.ssml = b.ssml
    BY <1>a, <2>1 DEF Builders
  <2>3. a \in Beside(b)
    BY <1>a, <2>2 DEF Beside, Named
  <2> QED
    BY <2>1, <2>3
<1>b. \A c, d : d \in Beside(c) => d \in Named
  BY DEF Beside
<1>4. PICK o1 \in Beside(b) : o1 = OpenProsody(a, f)
  BY <1>b, BesideOpened, BesideMore
<1>5. PICK o2 \in Beside(b) : o2 = OpenEmphasis(o1, f)
  BY <1>b, BesideOpened, BesideMore
<1>6. PICK o3 \in Beside(b) : o3 = ReopenCustomTags(o2)
  BY <1>b, BesideOpened, BesideMore
<1>7. PICK o4 \in Beside(b) : o4 = OpenSayAs(o3, f)
  BY <1>b, BesideOpened, BesideMore
<1>8. Tallied(o4, isEdge) /\ o4.edge = b.edge /\ b.edge = isEdge
  BY BesideTallied DEF Beside, Tallied
<1>9. PICK said : said = (IF b.edge THEN EdgeBody(o4, f) ELSE Body(o4, f)) /\ Tallied(said, isEdge)
  <2>1. CASE isEdge
    <3>1. Tallied(o4, TRUE)
      BY <1>8, <2>1
    <3> QED
      BY <1>8, <2>1, <3>1, EdgeBodyTallied
  <2>2. CASE ~isEdge
    <3>1. Tallied(o4, FALSE)
      BY <1>8, <2>2
    <3> QED
      BY <1>1, <1>8, <2>2, <3>1, BodyTallied
  <2> QED
    BY <2>1, <2>2
<1>10. AddFragment(b, doc, i) = CloseTags(said, PreserveTagLevel(said, doc, i))
  BY <1>1, <1>3, <1>4, <1>5, <1>6, <1>7, <1>9 DEF AddFragment
<1>11. PICK c \in Beside(said) : c = AddFragment(b, doc, i)
  BY <1>9, <1>10, LevelType, BesideEnds DEF Tallied
<1> QED
  BY <1>9, <1>11, BesideTallied

LEMMA MarkEventsAppend ==
  ASSUME NEW T, NEW v \in Seq(T), NEW e \in T
  PROVE  /\ e.what # "bookmark" => MarkEvents(Append(v, e)) = MarkEvents(v)
         /\ e.what = "bookmark" => /\ MarkEvents(Append(v, e)) = MarkEvents(v) \cup {Len(v) + 1}
                                   /\ Len(v) + 1 \notin MarkEvents(v)
<1>1. PICK k \in Nat : k = Len(v)
  OBVIOUS
<1>a. Append(v, e) \in Seq(T)
  OBVIOUS
<1>2. PICK w \in Seq(T) : w = Append(v, e)
  BY <1>a
<1>3. Len(w) = k + 1 /\ w[k + 1] = e /\ \A j \in 1 .. k : w[j] = v[j]
  BY <1>1, <1>2
<1>4. \A j : j \in 1 .. k + 1 <=> (j \in 1 .. k \/ j = k + 1)
  OBVIOUS
<1>5. k + 1 \notin 1 .. k
  OBVIOUS
<1>6. MarkEvents(w) = {j \in 1 .. k + 1 : w[j].what = "bookmark"} /\ MarkEvents(v) = {j \in 1 .. k : v[j].what = "bookmark"}
  BY <1>1, <1>3 DEF MarkEvents
<1>7. CASE e.what = "bookmark"
  <2>1. MarkEvents(w) = MarkEvents(v) \cup {k + 1} /\ k + 1 \notin MarkEvents(v)
    BY <1>3, <1>4, <1>5, <1>6, <1>7
  <2> QED
    BY <1>1, <1>2, <1>7, <2>1
<1>8. CASE e.what # "bookmark"
  <2>1. MarkEvents(w) = MarkEvents(v)
    BY <1>3, <1>4, <1>5, <1>6, <1>8
  <2> QED
    BY <1>2, <1>8, <2>1
<1> QED
  BY <1>7, <1>8

LEMMA MarkedNext ==
  ASSUME NEW s, NEW i \in Nat
  PROVE  LET To(k) == {j \in 1 .. k : s[j].tag.name = "bookmark"}
         IN  /\ s[i + 1].tag.name # "bookmark" => To(i + 1) = To(i)
             /\ s[i + 1].tag.name = "bookmark" => To(i + 1) = To(i) \cup {i + 1} /\ i + 1 \notin To(i)
OBVIOUS

LEMMA MarkEventsGo ==
  ASSUME NEW T, NEW v \in Seq(T), NEW w, NEW name, Goes(T, v, w, name),
         NEW A, NEW B, NEW x, name # "bookmark" => B = A, name = "bookmark" => B = A \cup {x} /\ x \notin A,
         IsFiniteSet(MarkEvents(v)), IsFiniteSet(A), Cardinality(MarkEvents(v)) = Cardinality(A)
  PROVE  /\ IsFiniteSet(MarkEvents(w)) /\ IsFiniteSet(B)
         /\ Cardinality(MarkEvents(w)) = Cardinality(B)
<1>1. CASE name # "bookmark"
  <2>1. MarkEvents(w) = MarkEvents(v)
    BY <1>1, MarkEventsAppend DEF Goes
  <2> QED
    BY <1>1, <2>1
<1>2. CASE name = "bookmark"
  <2>1. MarkEvents(w) = MarkEvents(v) \cup {Len(v) + 1} /\ Len(v) + 1 \notin MarkEvents(v)
    <3>1. PICK e \in T : w = Append(v, e) /\ e.what = "bookmark"
      BY <1>2 DEF Goes
    <3> QED
      BY <3>1, MarkEventsAppend
  <2>2. IsFiniteSet(MarkEvents(w)) /\ Cardinality(MarkEvents(w)) = Cardinality(MarkEvents(v)) + 1
    BY <2>1, FS_AddElement
  <2>3. IsFiniteSet(B) /\ Cardinality(B) = Cardinality(A) + 1
    BY <1>2, FS_AddElement
  <2> QED
    BY <2>2, <2>3
<1> QED
  BY <1>1, <1>2

\* As many bookmarks among the events as marks in the SSML.
LEMMA ScriptMarks ==
  ASSUME NEW ssml \in Seq(Cells), NEW quotes, NEW split
  PROVE  LET events == Script(ssml, quotes, split)
         IN  /\ IsFiniteSet(MarkEvents(events)) /\ IsFiniteSet(Marked(ssml))
             /\ Cardinality(MarkEvents(events)) = Cardinality(Marked(ssml))
<1>1. PICK n \in Nat : n = Len(ssml)
  OBVIOUS
<1>2. PICK T, g : Listing(ssml, T, g) /\ Script(ssml, quotes, split) = g[Len(ssml)]
  BY ScriptIs
<1>3. /\ g \in [0 .. n -> Seq(T)] /\ MarkEvents(g[0]) = {} /\ Script(ssml, quotes, split) = g[n]
      /\ \A i \in 1 .. n : Goes(T, g[i - 1], g[i], ssml[i].tag.name)
  BY <1>1, <1>2 DEF Listing
<1> DEFINE To(i) == {j \in 1 .. i : ssml[j].tag.name = "bookmark"}
           Equal(i) == /\ IsFiniteSet(MarkEvents(g[i])) /\ IsFiniteSet(To(i))
                       /\ Cardinality(MarkEvents(g[i])) = Cardinality(To(i))
           S == {i \in 0 .. n : Equal(i)}
<1>4. 0 \in S
  <2>1. To(0) = {}
    OBVIOUS
  <2>2. IsFiniteSet({}) /\ Cardinality({}) = 0
    BY FS_EmptySet
  <2> HIDE DEF To
  <2>3. Equal(0)
    BY <1>3, <2>1, <2>2
  <2> HIDE DEF Equal
  <2> QED
    BY <2>3
<1>5. ASSUME NEW i \in 0 .. n - 1, i \in S PROVE i + 1 \in S
  <2>1. i + 1 \in 1 .. n /\ (i + 1) - 1 = i /\ i \in 0 .. n
    OBVIOUS
  <2>2. PICK v \in Seq(T) : v = g[i]
    BY <1>3, <2>1
  <2>3. Equal(i)
    BY <1>5
  <2>4. Goes(T, v, g[i + 1], ssml[i + 1].tag.name)
    BY <1>3, <2>1, <2>2
  <2>5. ssml[i + 1].tag.name # "bookmark" => To(i + 1) = To(i)
    BY <2>1, MarkedNext
  <2>6. ssml[i + 1].tag.name = "bookmark" => To(i + 1) = To(i) \cup {i + 1} /\ i + 1 \notin To(i)
    BY <2>1, MarkedNext
  <2>7. IsFiniteSet(MarkEvents(v)) /\ IsFiniteSet(To(i)) /\ Cardinality(MarkEvents(v)) = Cardinality(To(i))
    BY <2>2, <2>3
  <2> HIDE DEF To
  <2>8. Equal(i + 1)
    BY <2>4, <2>5, <2>6, <2>7, MarkEventsGo
  <2> HIDE DEF Equal
  <2> QED
    BY <2>1, <2>8
<1>6. \A i \in 0 .. n : i \in S
  <2> HIDE DEF S
  <2> QED
    BY <1>4, <1>5, Induct
<1>7. Equal(n)
  <2>1. n \in S
    BY <1>6
  <2> HIDE DEF Equal
  <2> QED
    BY <2>1
<1>8. To(n) = Marked(ssml)
  BY <1>1 DEF Marked
<1> HIDE DEF To
<1> QED
  BY <1>3, <1>7, <1>8

LEMMA BeginTallied ==
  ASSUME NEW isEdge \in BOOLEAN, NEW isOnline \in BOOLEAN
  PROVE  Tallied(Begin(isOnline, isEdge), isEdge)
<1>1. PICK b \in Builders : b = Blank(isEdge)
  BY BlankHolds
<1>2. b.edge = isEdge /\ b.customTags = <<>> /\ b.bookmarks = <<>> /\ b.ssml = Tag("open", "speak")
  BY <1>1 DEF Blank
<1>3. PICK t \in Unmarked : t = Tag("open", "speak")
  BY Literals, NamesAre, UnmarkedTag
<1>4. <<>> \in Seq(OtherNames) /\ Len(<<>>) = 0
  OBVIOUS
<1>5. Marked(t) = {}
  BY DEF Marked, Unmarked
<1>6. IsFiniteSet({}) /\ Cardinality({}) = 0
  BY FS_EmptySet
<1>7. Tallied(b, isEdge)
  BY <1>2, <1>3, <1>4, <1>5, <1>6 DEF Tallied, Named
<1>8. b \in Named
  BY <1>7 DEF Tallied
<1>9. Write(b, Tag("open", "voice")) \in Beside(b)
  BY <1>8, Literals, NamesAre, BesideTag
<1>10. Tallied(Write(b, Tag("open", "voice")), isEdge)
  BY <1>7, <1>9, BesideTallied
<1> QED
  BY <1>1, <1>7, <1>10 DEF Begin

LEMMA BuildSSMLTallied ==
  ASSUME NEW doc \in Seq(Fragments), NoBookmarkTag(doc), NEW isOnline \in BOOLEAN, NEW isEdge \in BOOLEAN
  PROVE  Tallied(BuildSSML(doc, isOnline, isEdge), isEdge)
<1>1. PICK n \in Nat : n = Len(doc)
  OBVIOUS
<1>2. PICK f \in [0 .. n -> Builders] :
        /\ f[0] = Begin(isOnline, isEdge) /\ \A i \in 1 .. n : f[i] = AddFragment(f[i - 1], doc, i)
        /\ BuildSSML(doc, isOnline, isEdge) =
             Write(f[n], (IF isOnline THEN Tag("close", "voice") ELSE <<>>) \o Tag("close", "speak"))
  BY <1>1, BuildSSMLIs
<1> DEFINE S == {i \in 0 .. n : Tallied(f[i], isEdge)}
<1>3. 0 \in S
  BY <1>2, BeginTallied
<1>4. ASSUME NEW i \in 0 .. n - 1, i \in S PROVE i + 1 \in S
  <2>1. i + 1 \in 1 .. Len(doc) /\ i + 1 \in 0 .. n /\ (i + 1) - 1 = i
    BY <1>1
  <2>2. f[i + 1] = AddFragment(f[i], doc, i + 1)
    BY <1>1, <1>2, <2>1
  <2>3. Tallied(f[i], isEdge)
    BY <1>4
  <2>4. Tallied(f[i + 1], isEdge)
    BY <2>1, <2>2, <2>3, AddFragmentTallied
  <2> QED
    BY <2>1, <2>4
<1>5. \A i \in 0 .. n : i \in S
  <2> HIDE DEF S
  <2> QED
    BY <1>3, <1>4, Induct
<1>6. Tallied(f[n], isEdge)
  BY <1>5
<1>7. (IF isOnline THEN Tag("close", "voice") ELSE <<>>) \o Tag("close", "speak") \in Unmarked
  <2>1. Tag("close", "voice") \in Unmarked /\ Tag("close", "speak") \in Unmarked
    BY Literals, NamesAre, UnmarkedTag
  <2> QED
    BY <2>1, UnmarkedNone, UnmarkedBoth
<1>8. BuildSSML(doc, isOnline, isEdge) \in Beside(f[n])
  BY <1>2, <1>6, <1>7, BesideWrite DEF Tallied
<1> QED
  BY <1>6, <1>8, BesideTallied

\* The events of what BuildSSML makes, for a document without bookmark tags of
\* the application's own: a bookmark for each in the list of BuildSSML, for an
\* Edge voice none (TTSEngine.cpp 805-1135).
EventsMarked(b, quotes, split) == Cardinality(MarkEvents(Script(b.ssml, quotes, split))) = Len(b.bookmarks)

THEOREM BookmarksInScript ==
  ASSUME NEW doc \in Seq(Fragments), NoBookmarkTag(doc), NEW isOnline \in BOOLEAN, NEW isEdge \in BOOLEAN,
         NEW quotes, NEW split
  PROVE  /\ isEdge => MarkEvents(Script(BuildSSML(doc, isOnline, isEdge).ssml, quotes, split)) = {}
         /\ ~isEdge => EventsMarked(BuildSSML(doc, isOnline, isEdge), quotes, split)
<1>1. PICK b : b = BuildSSML(doc, isOnline, isEdge) /\ Tallied(b, isEdge)
  BY BuildSSMLTallied
<1>2. PICK s \in Seq(Cells) : s = b.ssml
  BY <1>1 DEF Tallied, Named, Builders
<1>3. PICK M : /\ M = MarkEvents(Script(s, quotes, split)) /\ IsFiniteSet(M)
               /\ Cardinality(M) = Cardinality(Marked(s))
  BY ScriptMarks
<1>4. isEdge => M = {}
  BY <1>1, <1>2, <1>3, FS_EmptySet DEF Tallied
<1>5. ~isEdge => Cardinality(M) = Len(b.bookmarks)
  BY <1>1, <1>2, <1>3 DEF Tallied
<1>6. ~isEdge => EventsMarked(b, quotes, split)
  BY <1>2, <1>3, <1>5 DEF EventsMarked
<1> QED
  BY <1>1, <1>2, <1>3, <1>4, <1>6

-----------------------------------------------------------------------------
(***************************************************************************)
(* The offset mappings, for fragments that follow each other in the text:  *)
(* the last entry at or before a character that a fragment wrote leads to  *)
(* the offset it was written for, and at the end of one the first entry    *)
(* there, if there is any, leads to the offset behind it.                  *)
(***************************************************************************)
Entries == [sapi : Int, ssml : Int]

\* The last entry before cell p and the first behind it lead to the text.
StartFound(S, M, p) ==
    \E k \in 1 .. Len(M) : /\ M[k].ssml < p /\ \A l \in 1 .. Len(M) : l > k => M[l].ssml >= p
                           /\ M[k].sapi + (p - 1 - M[k].ssml) = S[p].from
EndFound(S, M, p) ==
    \E k \in 1 .. Len(M) : /\ M[k].sapi + (p - M[k].ssml) = S[p].from + 1
                           /\ \/ M[k].ssml = p /\ \A l \in 1 .. Len(M) : l < k => M[l].ssml < p
                              \/ M[k].ssml < p /\ \A l \in 1 .. Len(M) : l > k => M[l].ssml > p

Rising(S, M) ==
    /\ \A k \in 1 .. Len(M) : M[k].ssml \in 0 .. Len(S)
    /\ \A k, l \in 1 .. Len(M) : k < l => M[k].ssml <= M[l].ssml /\ M[k].sapi <= M[l].sapi
InOrder(S) ==
    \A p, q \in 1 .. Len(S) : p < q /\ S[p].from # NoOffset /\ S[q].from # NoOffset =>
       S[p].from <= S[q].from
Located(S, M) ==
    /\ Rising(S, M) /\ InOrder(S) /\ Whole(S)
    /\ \A p \in 1 .. Len(S) : Begins(S, p) => StartFound(S, M, p)
    /\ \A p \in 1 .. Len(S) : Finishes(S, p) => EndFound(S, M, p)

\* All of it is from before offset n; text that comes next is at n; no text
\* without an entry behind it.
Before(S, M, n) ==
    /\ \A k \in 1 .. Len(M) : M[k].sapi \in 0 .. n
    /\ \A p \in 1 .. Len(S) : S[p].from < n
Here(S, M, n) == Len(M) > 0 /\ M[Len(M)].sapi + (Len(S) - M[Len(M)].ssml) = n
Closed(S, M)  ==
    Len(S) > 0 /\ S[Len(S)].from # NoOffset => \E k \in 1 .. Len(M) : M[k].ssml = Len(S)

LEMMA LocatedNothing ==
  ASSUME NEW n \in Nat
  PROVE  Located(<<>>, <<>>) /\ Before(<<>>, <<>>, n) /\ Closed(<<>>, <<>>)
<1>1. Len(<<>>) = 0
  OBVIOUS
<1>2. \A p : p \notin 1 .. 0
  OBVIOUS
<1> QED
  BY <1>1, <1>2 DEF Located, Rising, InOrder, Whole, Before, Closed

LEMMA BeforeMore ==
  ASSUME NEW S \in Seq(Cells), NEW M \in Seq(Entries), NEW n \in Nat, NEW m \in Nat, n <= m, Before(S, M, n)
  PROVE  Before(S, M, m)
<1>1. \A k \in 1 .. Len(M) : M[k].sapi \in 0 .. m
  <2>1. \A x \in 0 .. n : x \in 0 .. m
    OBVIOUS
  <2> QED
    BY <2>1 DEF Before
<1>2. \A p \in 1 .. Len(S) : S[p].from \in Int
  <2>1. \A p \in 1 .. Len(S) : S[p] \in Cells
    OBVIOUS
  <2> QED
    BY <2>1 DEF Cells
<1>3. \A p \in 1 .. Len(S) : S[p].from < m
  BY <1>2 DEF Before
<1> QED
  BY <1>1, <1>3 DEF Before

\* What BuildSSML makes up is not text.
LEMMA LocatedMade ==
  ASSUME NEW S \in Seq(Cells), NEW M \in Seq(Entries), NEW n \in Nat,
         Located(S, M), Before(S, M, n), Closed(S, M),
         NEW t \in Seq(Cells), \A i \in 1 .. Len(t) : t[i].from = NoOffset
  PROVE  Located(S \o t, M) /\ Before(S \o t, M, n) /\ Closed(S \o t, M)
<1>1. PICK W \in Seq(Cells) : /\ W = S \o t /\ Len(W) = Len(S) + Len(t)
                              /\ \A i \in 1 .. Len(S) : W[i] = S[i]
                              /\ \A i \in 1 .. Len(t) : W[Len(S) + i] = t[i]
  BY Behind
<1>2. PICK a \in Nat, b \in Nat, m \in Nat : a = Len(S) /\ b = Len(t) /\ m = Len(M)
  OBVIOUS
<1>3. /\ Len(W) = a + b /\ \A i \in 1 .. a : W[i] = S[i]
      /\ \A i \in 1 .. a + b : i \notin 1 .. a => W[i].from = NoOffset
  <2>1. ASSUME NEW i \in 1 .. a + b, i \notin 1 .. a PROVE W[i].from = NoOffset
    <3>1. i - a \in 1 .. b /\ i = a + (i - a)
      BY <2>1
    <3> QED
      BY <1>1, <1>2, <3>1
  <2> QED
    BY <1>1, <1>2, <2>1
<1>4. \A k \in 1 .. m : M[k].ssml \in Int /\ M[k].sapi \in Int
  <2>1. \A k \in 1 .. m : M[k] \in Entries
    BY <1>2
  <2> QED
    BY <2>1 DEF Entries
<1>5. \A i \in 1 .. a : i \in 1 .. a + b
  OBVIOUS
<1>6. Rising(W, M)
  <2>1. \A x \in 0 .. a : x \in 0 .. a + b
    OBVIOUS
  <2> QED
    BY <1>2, <1>3, <2>1 DEF Located, Rising
<1>7. InOrder(W)
  BY <1>2, <1>3 DEF Located, InOrder
<1>8. Whole(W)
  BY <1>2, <1>3 DEF Located, Whole
<1>9. ASSUME NEW p \in 1 .. a + b, Begins(W, p) PROVE StartFound(W, M, p)
  <2>1. p \in 1 .. a /\ W[p] = S[p] /\ (p > 1 => p - 1 \in 1 .. a)
    BY <1>3, <1>9 DEF Begins
  <2>2. Begins(S, p)
    BY <1>3, <1>9, <2>1 DEF Begins
  <2>3. StartFound(S, M, p)
    BY <1>2, <2>1, <2>2 DEF Located
  <2> QED
    BY <2>1, <2>3 DEF StartFound
<1>10. ASSUME NEW p \in 1 .. a + b, Finishes(W, p) PROVE EndFound(W, M, p)
  <2>1. p \in 1 .. a /\ W[p] = S[p] /\ (p < a => p + 1 \in 1 .. a /\ p < a + b)
    BY <1>3, <1>10 DEF Finishes
  <2>2. Finishes(S, p)
    BY <1>2, <1>3, <1>10, <2>1 DEF Finishes
  <2>3. EndFound(S, M, p)
    BY <1>2, <2>1, <2>2 DEF Located
  <2> QED
    BY <2>1, <2>3 DEF EndFound
<1>11. Before(W, M, n)
  <2>1. NoOffset < n
    BY DEF NoOffset
  <2> QED
    BY <1>2, <1>3, <2>1 DEF Before
<1>12. Closed(W, M)
  <2>1. CASE b = 0
    <3>1. a + b = a
      BY <2>1
    <3>2. a > 0 => a \in 1 .. a
      OBVIOUS
    <3> QED
      BY <1>2, <1>3, <3>1, <3>2 DEF Closed
  <2>2. CASE b # 0
    <3>1. a + b \in 1 .. a + b /\ a + b \notin 1 .. a
      BY <2>2
    <3> QED
      BY <1>2, <1>3, <3>1 DEF Closed
  <2> QED
    BY <2>1, <2>2
<1>13. Located(W, M)
  BY <1>3, <1>6, <1>7, <1>8, <1>9, <1>10 DEF Located
<1> QED
  BY <1>1, <1>11, <1>12, <1>13

LEMMA OneEntryMore ==
  ASSUME NEW M \in Seq(Entries), NEW e \in Entries
  PROVE  /\ Append(M, e) \in Seq(Entries) /\ Len(Append(M, e)) = Len(M) + 1
         /\ Append(M, e)[Len(M) + 1] = e /\ \A k \in 1 .. Len(M) : Append(M, e)[k] = M[k]
OBVIOUS

\* An entry at the end of the text, for an offset that nothing has passed.
LEMMA LocatedMap ==
  ASSUME NEW S \in Seq(Cells), NEW M \in Seq(Entries), NEW n \in Nat,
         Located(S, M), Before(S, M, n), Closed(S, M) \/ Here(S, M, n)
  PROVE  LET N == Append(M, [sapi |-> n, ssml |-> Len(S)])
         IN  /\ N \in Seq(Entries)
             /\ Located(S, N) /\ Before(S, N, n) /\ Closed(S, N) /\ Here(S, N, n)
<1>1. PICK a \in Nat, m \in Nat : a = Len(S) /\ m = Len(M)
  OBVIOUS
<1> DEFINE e == [sapi |-> n, ssml |-> a]
<1>2. e \in Entries /\ e.sapi = n /\ e.ssml = a
  <2>1. n \in Int /\ a \in Int
    OBVIOUS
  <2> QED
    BY <2>1 DEF Entries
<1> HIDE DEF e
<1>3. PICK N \in Seq(Entries) : /\ N = Append(M, e) /\ Len(N) = m + 1 /\ N[m + 1] = e
                                /\ \A k \in 1 .. m : N[k] = M[k]
  BY <1>1, <1>2, OneEntryMore
<1>4. \A k : k \in 1 .. m + 1 <=> (k \in 1 .. m \/ k = m + 1)
  OBVIOUS
<1>5. /\ \A k \in 1 .. m : M[k].ssml \in Int /\ M[k].sapi \in Int /\ M[k].ssml >= 0 /\ M[k].ssml <= a
      /\ \A k, l \in 1 .. m : k < l => M[k].ssml <= M[l].ssml /\ M[k].sapi <= M[l].sapi
      /\ \A k \in 1 .. m : M[k].sapi <= n
  <2>1. \A k \in 1 .. m : M[k] \in Entries
    BY <1>1
  <2>2. \A x \in 0 .. a : x >= 0 /\ x <= a
    OBVIOUS
  <2>3. \A x \in 0 .. n : x <= n
    OBVIOUS
  <2> QED
    BY <1>1, <2>1, <2>2, <2>3 DEF Entries, Located, Rising, Before
<1>6. Rising(S, N)
  <2>1. \A k \in 1 .. m + 1 : N[k].ssml \in 0 .. a
    <3>1. \A k \in 1 .. m : M[k].ssml \in 0 .. a
      BY <1>1 DEF Located, Rising
    <3>2. a \in 0 .. a
      OBVIOUS
    <3> QED
      BY <1>2, <1>3, <1>4, <3>1, <3>2
  <2>2. ASSUME NEW k \in 1 .. m + 1, NEW l \in 1 .. m + 1, k < l
        PROVE  N[k].ssml <= N[l].ssml /\ N[k].sapi <= N[l].sapi
    <3>1. k \in 1 .. m
      BY <2>2
    <3>2. CASE l \in 1 .. m
      BY <1>3, <1>5, <2>2, <3>1, <3>2
    <3>3. CASE l = m + 1
      BY <1>2, <1>3, <1>5, <3>1, <3>3
    <3> QED
      BY <1>4, <3>2, <3>3
  <2> QED
    BY <1>1, <1>3, <2>1, <2>2 DEF Rising
<1>7. ASSUME NEW p \in 1 .. a, Begins(S, p) PROVE StartFound(S, N, p)
  <2>1. PICK k \in 1 .. m : /\ M[k].ssml < p /\ \A l \in 1 .. m : l > k => M[l].ssml >= p
                            /\ M[k].sapi + (p - 1 - M[k].ssml) = S[p].from
    BY <1>1, <1>7 DEF Located, StartFound
  <2>2. \A l \in 1 .. m + 1 : l > k => N[l].ssml >= p
    BY <1>2, <1>3, <1>4, <2>1
  <2>3. k \in 1 .. m + 1
    BY <1>4
  <2> QED
    BY <1>3, <2>1, <2>2, <2>3 DEF StartFound
<1>8. ASSUME NEW p \in 1 .. a, Finishes(S, p) PROVE EndFound(S, N, p)
  <2>1. PICK k \in 1 .. m : /\ M[k].sapi + (p - M[k].ssml) = S[p].from + 1
                            /\ \/ M[k].ssml = p /\ \A l \in 1 .. m : l < k => M[l].ssml < p
                               \/ M[k].ssml < p /\ \A l \in 1 .. m : l > k => M[l].ssml > p
    BY <1>1, <1>8 DEF Located, EndFound
  <2>2. k \in 1 .. m + 1 /\ N[k] = M[k]
    BY <1>3, <1>4
  <2>3. CASE M[k].ssml = p /\ \A l \in 1 .. m : l < k => M[l].ssml < p
    <3>1. \A l \in 1 .. m + 1 : l < k => l \in 1 .. m
      BY <2>2
    <3>2. \A l \in 1 .. m + 1 : l < k => N[l].ssml < p
      BY <1>3, <2>3, <3>1
    <3> QED
      BY <1>3, <2>1, <2>2, <2>3, <3>2 DEF EndFound
  <2>4. CASE M[k].ssml < p /\ \A l \in 1 .. m : l > k => M[l].ssml > p
    <3>1. CASE p < a
      <4>1. \A l \in 1 .. m + 1 : l > k => N[l].ssml > p
        BY <1>2, <1>3, <1>4, <2>4, <3>1
      <4> QED
        BY <1>3, <2>1, <2>2, <2>4, <4>1 DEF EndFound
    <3>2. CASE p = a
      <4>1. k = m
        <5>1. ~(m > k)
          <6>1. m \in 1 .. m /\ M[m].ssml <= a
            BY <1>5, <2>1
          <6> QED
            BY <2>4, <3>2, <6>1, <1>5
        <5> QED
          BY <5>1
      <4>2. Here(S, M, n)
        <5>1. SUFFICES ASSUME Closed(S, M) PROVE FALSE
          OBVIOUS
        <5>2. S[a].from # NoOffset /\ a > 0
          BY <1>8, <3>2 DEF Finishes
        <5>3. PICK j \in 1 .. m : M[j].ssml = a
          BY <1>1, <5>1, <5>2 DEF Closed
        <5>4. M[j].ssml <= M[m].ssml
          BY <1>5, <4>1, <5>3
        <5> QED
          BY <1>5, <2>4, <3>2, <4>1, <5>3, <5>4
      <4>3. M[k].sapi + (a - M[k].ssml) = n
        BY <1>1, <4>1, <4>2 DEF Here
      <4>4. n = S[p].from + 1
        BY <2>1, <3>2, <4>3
      <4>5. N[m + 1].sapi + (p - N[m + 1].ssml) = S[p].from + 1
        BY <1>2, <1>3, <3>2, <4>4
      <4>6. \A l \in 1 .. m + 1 : l < m + 1 => N[l].ssml < p
        <5>1. \A l \in 1 .. m : M[l].ssml <= M[m].ssml
          BY <1>5, <4>1
        <5> QED
          BY <1>3, <1>4, <1>5, <2>4, <4>1, <5>1
      <4>7. m + 1 \in 1 .. m + 1 /\ N[m + 1].ssml = p
        BY <1>2, <1>3, <3>2
      <4> QED
        BY <1>3, <4>5, <4>6, <4>7 DEF EndFound
    <3> QED
      BY <3>1, <3>2
  <2> QED
    BY <2>1, <2>3, <2>4
<1>9. Located(S, N)
  BY <1>1, <1>6, <1>7, <1>8 DEF Located
<1>10. Before(S, N, n)
  <2>1. n \in 0 .. n
    OBVIOUS
  <2> QED
    BY <1>1, <1>2, <1>3, <1>4, <2>1 DEF Before
<1>11. Closed(S, N) /\ Here(S, N, n)
  <2>1. m + 1 \in 1 .. m + 1 /\ m + 1 > 0
    OBVIOUS
  <2>2. n + (a - a) = n
    OBVIOUS
  <2> QED
    BY <1>1, <1>2, <1>3, <2>1, <2>2 DEF Closed, Here
<1> QED
  BY <1>1, <1>3, <1>9, <1>10, <1>11 DEF e

\* The cells of the character at offset n.
Character(t, n) ==
    /\ Len(t) > 0 /\ \A i \in 1 .. Len(t) : t[i].from = n
    /\ Len(t) > 1 => \A i \in 1 .. Len(t) : t[i].ch # " " /\ t[i].ch # "c"

\* One more character of the text, of one cell or, with an entry behind it, of
\* several.
LEMMA LocatedCharacter ==
  ASSUME NEW S \in Seq(Cells), NEW M \in Seq(Entries), NEW n \in Nat,
         Located(S, M), Before(S, M, n), Here(S, M, n),
         NEW t \in Seq(Cells), Character(t, n)
  PROVE  LET W == S \o t
             N == IF Len(t) > 1 THEN Append(M, [sapi |-> n + 1, ssml |-> Len(W)]) ELSE M
         IN  Located(W, N) /\ Before(W, N, n + 1) /\ Here(W, N, n + 1) /\ N \in Seq(Entries)
<1>1. PICK W \in Seq(Cells) : /\ W = S \o t /\ Len(W) = Len(S) + Len(t)
                              /\ \A i \in 1 .. Len(S) : W[i] = S[i]
                              /\ \A i \in 1 .. Len(t) : W[Len(S) + i] = t[i]
  BY Behind
<1>2. PICK a \in Nat, b \in Nat, m \in Nat : a = Len(S) /\ b = Len(t) /\ m = Len(M)
  OBVIOUS
<1>b. b > 0 /\ m > 0
  BY <1>2 DEF Here, Character
<1>3. /\ Len(W) = a + b /\ \A i \in 1 .. a : W[i] = S[i]
      /\ \A i \in 1 .. a + b : i \notin 1 .. a => W[i].from = n
  <2>1. ASSUME NEW i \in 1 .. a + b, i \notin 1 .. a PROVE W[i].from = n
    <3>1. i - a \in 1 .. b /\ i = a + (i - a)
      BY <2>1
    <3> QED
      BY <1>1, <1>2, <3>1 DEF Character
  <2> QED
    BY <1>1, <1>2, <2>1
<1> DEFINE e == [sapi |-> n + 1, ssml |-> a + b]
           N == IF b > 1 THEN Append(M, e) ELSE M
<1>4. /\ \A k \in 1 .. m : M[k].ssml \in Int /\ M[k].sapi \in Int /\ M[k].ssml >= 0 /\ M[k].ssml <= a
      /\ \A k, l \in 1 .. m : k < l => M[k].ssml <= M[l].ssml /\ M[k].sapi <= M[l].sapi
      /\ \A k \in 1 .. m : M[k].sapi <= n /\ M[k].sapi >= 0
  <2>1. \A k \in 1 .. m : M[k] \in Entries
    BY <1>2
  <2>2. \A x \in 0 .. a : x >= 0 /\ x <= a
    OBVIOUS
  <2>3. \A x \in 0 .. n : x <= n /\ x >= 0
    OBVIOUS
  <2> QED
    BY <1>2, <2>1, <2>2, <2>3 DEF Entries, Located, Rising, Before
<1>5. PICK h \in Nat : /\ h = Len(N) /\ m <= h /\ h <= m + 1 /\ N \in Seq(Entries)
                       /\ \A k \in 1 .. m : N[k] = M[k]
                       /\ h = m + 1 => N[h].sapi = n + 1 /\ N[h].ssml = a + b
                       /\ h = m => b = 1
  <2>1. e \in Entries /\ e.sapi = n + 1 /\ e.ssml = a + b
    <3>1. n + 1 \in Int /\ a + b \in Int
      OBVIOUS
    <3> QED
      BY <3>1 DEF Entries
  <2> HIDE DEF e
  <2>2. CASE b > 1
    <3>1. N \in Seq(Entries) /\ Len(N) = m + 1 /\ N[m + 1] = e /\ \A k \in 1 .. m : N[k] = M[k]
      BY <1>2, <2>1, <2>2, OneEntryMore
    <3>2. m + 1 \in Nat /\ m <= m + 1 /\ m + 1 <= m + 1 /\ m + 1 # m
      OBVIOUS
    <3> QED
      BY <2>1, <3>1, <3>2
  <2>3. CASE ~(b > 1)
    <3>1. b = 1
      BY <1>b, <2>3
    <3>2. m <= m /\ m <= m + 1 /\ m # m + 1
      OBVIOUS
    <3> QED
      BY <1>2, <2>3, <3>1, <3>2
  <2> QED
    BY <2>2, <2>3
<1> HIDE DEF e, N
<1>c. m <= h /\ h <= m + 1
  BY <1>5
<1>6. \A k \in 1 .. h : k \in 1 .. m \/ (k = m + 1 /\ h = m + 1)
  <2>1. CASE h = m
    BY <2>1
  <2>2. CASE h = m + 1
    <3>1. \A k \in 1 .. m + 1 : k \in 1 .. m \/ k = m + 1
      OBVIOUS
    <3> QED
      BY <2>2, <3>1
  <2> QED
    BY <1>c, <2>1, <2>2
<1>7. \A k \in 1 .. m : k \in 1 .. h
  BY <1>c
<1>d. /\ \A x \in Int : x < n => x < n + 1 /\ x # n /\ x <= n
      /\ n <= n /\ n < n + 1
      /\ \A x, y \in Int : x + (a - y) = n => x + ((a + 1) - y) = n + 1 /\ x + ((a + 1) - 1 - y) = n
  OBVIOUS
<1>8. Rising(W, N)
  <2>1. \A k \in 1 .. h : N[k].ssml \in 0 .. a + b
    <3>1. \A k \in 1 .. m : M[k].ssml \in 0 .. a + b
      BY <1>4
    <3>2. a + b \in 0 .. a + b
      OBVIOUS
    <3> QED
      BY <1>5, <1>6, <3>1, <3>2
  <2>2. ASSUME NEW k \in 1 .. h, NEW l \in 1 .. h, k < l
        PROVE  N[k].ssml <= N[l].ssml /\ N[k].sapi <= N[l].sapi
    <3>1. k \in 1 .. m
      BY <1>5, <2>2
    <3>2. CASE l \in 1 .. m
      BY <1>4, <1>5, <2>2, <3>1, <3>2
    <3>3. CASE l = m + 1 /\ h = m + 1
      <4>1. M[k].ssml <= a + b /\ M[k].sapi <= n + 1
        BY <1>4, <3>1
      <4> QED
        BY <1>5, <3>1, <3>3, <4>1
    <3> QED
      BY <1>6, <3>2, <3>3
  <2> QED
    BY <1>3, <1>5, <2>1, <2>2 DEF Rising
<1>9. Before(W, N, n + 1)
  <2>1. \A k \in 1 .. h : N[k].sapi \in 0 .. n + 1
    <3>1. \A k \in 1 .. m : M[k].sapi \in 0 .. n + 1
      BY <1>4
    <3>2. n + 1 \in 0 .. n + 1
      OBVIOUS
    <3> QED
      BY <1>5, <1>6, <3>1, <3>2
  <2>2. \A p \in 1 .. a + b : W[p].from < n + 1
    <3>1. \A p \in 1 .. a : S[p].from < n + 1
      <4>1. \A p \in 1 .. a : S[p] \in Cells
        BY <1>2
      <4>2. \A p \in 1 .. a : S[p].from \in Int /\ S[p].from < n
        BY <1>2, <4>1 DEF Cells, Before
      <4> QED
        BY <1>d, <4>2
    <3>2. n < n + 1
      OBVIOUS
    <3> QED
      BY <1>3, <3>1, <3>2
  <2> QED
    BY <1>3, <1>5, <2>1, <2>2 DEF Before
<1>10. M[m].sapi + (a - M[m].ssml) = n /\ m \in 1 .. m
  BY <1>2 DEF Here
<1>11. Here(W, N, n + 1)
  <2>1. CASE h = m + 1
    <3>1. (n + 1) + ((a + b) - (a + b)) = n + 1 /\ m + 1 > 0
      OBVIOUS
    <3> QED
      BY <1>3, <1>5, <2>1, <3>1 DEF Here
  <2>2. CASE h = m
    <3>1. M[m].sapi + ((a + 1) - M[m].ssml) = n + 1
      BY <1>4, <1>10, <1>d
    <3>2. b = 1
      BY <1>5, <2>2
    <3> QED
      BY <1>2, <1>3, <1>5, <1>10, <2>2, <3>1, <3>2 DEF Here
  <2> QED
    BY <1>5, <2>1, <2>2
<1>12. InOrder(W)
  <2> SUFFICES ASSUME NEW p \in 1 .. a + b, NEW q \in 1 .. a + b, p < q,
                      W[p].from # NoOffset, W[q].from # NoOffset
               PROVE  W[p].from <= W[q].from
    BY <1>3 DEF InOrder
  <2>1. \A i \in 1 .. a : S[i].from < n /\ S[i].from \in Int
    <3>1. \A i \in 1 .. a : S[i] \in Cells
      BY <1>2
    <3> QED
      BY <1>2, <3>1 DEF Before, Cells
  <2>2. CASE q \in 1 .. a
    <3>1. p \in 1 .. a
      BY <2>2
    <3> QED
      BY <1>2, <1>3, <2>2, <3>1 DEF Located, InOrder
  <2>3. CASE q \notin 1 .. a
    <3>1. W[q].from = n
      BY <1>3, <2>3
    <3> QED
      <4>1. CASE p \in 1 .. a
        <5>1. W[p].from \in Int /\ W[p].from < n
          BY <1>3, <2>1, <4>1
        <5> QED
          BY <1>d, <3>1, <5>1
      <4>2. CASE p \notin 1 .. a
        BY <1>3, <1>d, <3>1, <4>2
      <4> QED
        BY <4>1, <4>2
  <2> QED
    BY <2>2, <2>3
<1>13. Whole(W)
  <2> SUFFICES ASSUME NEW p \in 1 .. a + b, NEW q \in 1 .. a + b, q = p + 1,
                      W[p].from # NoOffset, W[q].from = W[p].from
               PROVE  W[p].ch # " " /\ W[q].ch # " " /\ W[p].ch # "c"
    BY <1>3 DEF Whole
  <2>1. CASE q \in 1 .. a
    <3>1. p \in 1 .. a
      BY <2>1
    <3> QED
      BY <1>2, <1>3, <2>1, <3>1 DEF Located, Whole
  <2>2. CASE q \notin 1 .. a /\ p \in 1 .. a
    <3>1. W[q].from = n /\ W[p].from < n
      BY <1>2, <1>3, <2>2 DEF Before
    <3>2. W[p].from \in Int
      <4>1. S[p] \in Cells /\ W[p] = S[p]
        BY <1>2, <1>3, <2>2
      <4> QED
        BY <4>1 DEF Cells
    <3> QED
      BY <1>d, <3>1, <3>2
  <2>3. CASE p \notin 1 .. a
    <3>1. PICK i \in 1 .. b, j \in 1 .. b : p = a + i /\ q = a + j /\ b > 1
      <4>1. p - a \in 1 .. b /\ q - a \in 1 .. b /\ p = a + (p - a) /\ q = a + (q - a) /\ b > 1
        BY <2>3
      <4> QED
        BY <4>1
    <3> QED
      BY <1>1, <1>2, <3>1 DEF Character
  <2> QED
    BY <2>1, <2>2, <2>3
<1>14. ASSUME NEW p \in 1 .. a + b, Begins(W, p) PROVE StartFound(W, N, p)
  <2>1. CASE p \in 1 .. a
    <3>1. p > 1 => p - 1 \in 1 .. a
      BY <2>1
    <3>2. Begins(S, p)
      BY <1>3, <1>14, <2>1, <3>1 DEF Begins
    <3>3. PICK k \in 1 .. m : /\ M[k].ssml < p /\ \A l \in 1 .. m : l > k => M[l].ssml >= p
                              /\ M[k].sapi + (p - 1 - M[k].ssml) = S[p].from
      BY <1>2, <2>1, <3>2 DEF Located, StartFound
    <3>4. \A l \in 1 .. h : l > k => N[l].ssml >= p
      <4>1. a + b >= p
        OBVIOUS
      <4> QED
        BY <1>5, <1>6, <3>3, <4>1
    <3> QED
      BY <1>3, <1>5, <1>7, <2>1, <3>3, <3>4 DEF StartFound
  <2>2. CASE p \notin 1 .. a
    <3>1. p = a + 1
      <4>1. SUFFICES ASSUME p > a + 1 PROVE FALSE
        BY <2>2
      <4>2. p - 1 \in 1 .. a + b /\ p - 1 \notin 1 .. a /\ p > 1
        BY <4>1
      <4>3. W[p - 1].from = n /\ W[p].from = n
        BY <1>3, <2>2, <4>2
      <4> QED
        BY <1>14, <4>2, <4>3 DEF Begins
    <3>2. /\ N[m].ssml < p /\ \A l \in 1 .. h : l > m => N[l].ssml >= p
          /\ N[m].sapi + (p - 1 - N[m].ssml) = n
      <4>1. M[m].ssml < a + 1 /\ M[m].sapi + ((a + 1) - 1 - M[m].ssml) = n
        <5>1. \A x \in Int : x <= a => x < a + 1
          OBVIOUS
        <5> QED
          BY <1>4, <1>10, <1>d, <5>1
      <4>2. \A l \in 1 .. h : l > m => h = m + 1 /\ l = h
        BY <1>c
      <4>3. a + b >= a + 1
        BY <1>b
      <4> QED
        BY <1>5, <1>10, <3>1, <4>1, <4>2, <4>3
    <3>3. W[p].from = n
      BY <1>3, <2>2
    <3> QED
      BY <1>5, <1>7, <1>10, <3>2, <3>3 DEF StartFound
  <2> QED
    BY <2>1, <2>2
<1>15. ASSUME NEW p \in 1 .. a + b, Finishes(W, p) PROVE EndFound(W, N, p)
  <2>1. CASE p \in 1 .. a
    <3>1. p < a => p + 1 \in 1 .. a /\ p < a + b
      BY <2>1
    <3>2. Finishes(S, p)
      BY <1>2, <1>3, <1>15, <2>1, <3>1 DEF Finishes
    <3>3. PICK k \in 1 .. m : /\ M[k].sapi + (p - M[k].ssml) = S[p].from + 1
                              /\ \/ M[k].ssml = p /\ \A l \in 1 .. m : l < k => M[l].ssml < p
                                 \/ M[k].ssml < p /\ \A l \in 1 .. m : l > k => M[l].ssml > p
      BY <1>2, <2>1, <3>2 DEF Located, EndFound
    <3>4. k \in 1 .. h /\ N[k] = M[k] /\ \A l \in 1 .. h : l < k => l \in 1 .. m
      BY <1>5, <1>7
    <3>5. CASE M[k].ssml = p /\ \A l \in 1 .. m : l < k => M[l].ssml < p
      <4>1. \A l \in 1 .. h : l < k => N[l].ssml < p
        BY <1>5, <3>4, <3>5
      <4> QED
        BY <1>3, <1>5, <2>1, <3>3, <3>4, <3>5, <4>1 DEF EndFound
    <3>6. CASE M[k].ssml < p /\ \A l \in 1 .. m : l > k => M[l].ssml > p
      <4>1. a + b > p
        BY <1>b, <2>1
      <4>2. \A l \in 1 .. h : l > k => N[l].ssml > p
        BY <1>5, <1>6, <3>6, <4>1
      <4> QED
        BY <1>3, <1>5, <2>1, <3>3, <3>4, <3>6, <4>2 DEF EndFound
    <3> QED
      BY <3>3, <3>5, <3>6
  <2>2. CASE p \notin 1 .. a
    <3>1. p = a + b
      <4>1. SUFFICES ASSUME p < a + b PROVE FALSE
        OBVIOUS
      <4>2. p + 1 \in 1 .. a + b /\ p + 1 \notin 1 .. a
        BY <2>2, <4>1
      <4>3. W[p + 1].from = n /\ W[p].from = n
        BY <1>3, <2>2, <4>2
      <4> QED
        BY <1>3, <1>15, <4>1, <4>3 DEF Finishes
    <3>2. W[p].from = n
      BY <1>3, <2>2
    <3>3. CASE h = m + 1
      <4>1. \A l \in 1 .. h : l < m + 1 => N[l].ssml < a + b
        <5>1. \A l \in 1 .. h : l < m + 1 => l \in 1 .. m
          OBVIOUS
        <5>2. \A x \in Int : x <= a => x < a + b
          BY <1>b
        <5> QED
          BY <1>4, <1>5, <5>1, <5>2
      <4>2. m + 1 \in 1 .. h /\ (n + 1) + ((a + b) - (a + b)) = n + 1
        BY <3>3
      <4> QED
        BY <1>5, <3>1, <3>2, <3>3, <4>1, <4>2 DEF EndFound
    <3>4. CASE h = m
      <4>1. b = 1
        BY <1>5, <3>4
      <4>2. M[m].sapi + ((a + 1) - M[m].ssml) = n + 1 /\ M[m].ssml < a + 1
        <5>1. \A x \in Int : x <= a => x < a + 1
          OBVIOUS
        <5> QED
          BY <1>4, <1>10, <1>d, <5>1
      <4>3. \A l \in 1 .. h : ~(l > m)
        BY <3>4
      <4> QED
        BY <1>5, <1>7, <1>10, <3>1, <3>2, <4>1, <4>2, <4>3 DEF EndFound
    <3> QED
      BY <1>5, <3>3, <3>4
  <2> QED
    BY <2>1, <2>2
<1>16. Located(W, N)
  BY <1>3, <1>8, <1>12, <1>13, <1>14, <1>15 DEF Located
<1> QED
  <2>1. N = IF Len(t) > 1 THEN Append(M, [sapi |-> n + 1, ssml |-> Len(W)]) ELSE M
    BY <1>2, <1>3 DEF N, e
  <2> QED
    BY <1>1, <1>5, <1>9, <1>11, <1>16, <2>1

-----------------------------------------------------------------------------
(***************************************************************************)
(* What BuildSSML makes up around the text: it writes no text and maps     *)
(* none.                                                                   *)
(***************************************************************************)
Hollow == {t \in Seq(Cells) : \A i \in 1 .. Len(t) : t[i].from = NoOffset}
Aside(b) == {c \in Builders : /\ c.edge = b.edge /\ c.mappings = b.mappings
                              /\ c.lastSAPIOffset = b.lastSAPIOffset
                              /\ \E t \in Hollow : c.ssml = b.ssml \o t}

LEMMA HollowNone == <<>> \in Hollow
<1>1. <<>> \in Seq(Cells) /\ Len(<<>>) = 0
  OBVIOUS
<1> QED
  BY <1>1 DEF Hollow

LEMMA HollowBoth ==
  ASSUME NEW t \in Hollow, NEW u \in Hollow
  PROVE  t \o u \in Hollow
<1>1. t \in Seq(Cells) /\ u \in Seq(Cells)
  BY DEF Hollow
<1>2. PICK w \in Seq(Cells) : w = t \o u /\ Len(w) = Len(t) + Len(u) /\ Len(t) \in Nat /\ Len(u) \in Nat
  BY <1>1, Behind
<1>3. ASSUME NEW i \in 1 .. Len(w) PROVE w[i].from = NoOffset
  <2>1. CASE i \in 1 .. Len(t)
    <3>1. w[i] = t[i]
      BY <1>1, <1>2, <2>1, Behind
    <3> QED
      BY <2>1, <3>1 DEF Hollow
  <2>2. CASE i \in Len(t) + 1 .. Len(w)
    <3>1. PICK j \in 1 .. Len(u) : i = Len(t) + j
      <4>1. i - Len(t) \in 1 .. Len(u) /\ i = Len(t) + (i - Len(t))
        BY <1>2, <2>2
      <4> QED
        BY <4>1
    <3>2. w[i] = u[j]
      BY <1>1, <1>2, <3>1, Behind
    <3> QED
      BY <3>2 DEF Hollow
  <2> QED
    BY <1>2, <2>1, <2>2
<1> QED
  BY <1>2, <1>3 DEF Hollow

LEMMA ThreeCells ==
  ASSUME NEW x \in Cells, NEW y \in Cells, NEW z \in Cells
  PROVE  /\ <<x, y, z>> \in Seq(Cells) /\ Len(<<x, y, z>>) = 3
         /\ <<x, y, z>>[1] = x /\ <<x, y, z>>[2] = y /\ <<x, y, z>>[3] = z
OBVIOUS

LEMMA HollowTag ==
  ASSUME NEW d \in Strings, NEW m \in Strings
  PROVE  Tag(d, m) \in Hollow
<1>1. Made("<") \in Cells /\ Made(">") \in Cells /\ Made("a") \in Cells
  BY Literals, MadeCell
<1>2. PICK x \in Cells, z \in Cells : x = Made("<") /\ z = Made(">") /\ x.from = NoOffset /\ z.from = NoOffset
  BY <1>1 DEF Made
<1>3. PICK y \in Cells : y = [Made("a") EXCEPT !.tag = [dir |-> d, name |-> m]] /\ y.from = NoOffset
  <2>1. [Made("a") EXCEPT !.tag = [dir |-> d, name |-> m]] \in Cells
    BY <1>1 DEF Cells, Tags
  <2>2. [Made("a") EXCEPT !.tag = [dir |-> d, name |-> m]].from = NoOffset
    BY DEF Made
  <2> QED
    BY <2>1, <2>2
<1>4. /\ <<x, y, z>> \in Seq(Cells) /\ Len(<<x, y, z>>) = 3
      /\ <<x, y, z>>[1] = x /\ <<x, y, z>>[2] = y /\ <<x, y, z>>[3] = z
  BY ThreeCells
<1>5. PICK t \in Seq(Cells) : t = <<x, y, z>> /\ Len(t) = 3 /\ t[1] = x /\ t[2] = y /\ t[3] = z
  BY <1>4
<1>6. \A i \in 1 .. Len(t) : i = 1 \/ i = 2 \/ i = 3
  BY <1>5
<1>7. t \in Hollow
  BY <1>2, <1>3, <1>5, <1>6 DEF Hollow
<1> QED
  BY <1>2, <1>3, <1>5, <1>7 DEF Tag

LEMMA HollowOpening ==
  ASSUME NEW names \in Seq(Strings)
  PROVE  Opening(names) \in Hollow
<1>1. names \in Seq(Strings)
  OBVIOUS
<1>2. PICK n \in Nat : n = Len(names)
  OBVIOUS
<1>3. PICK f \in [0 .. n -> Seq(Cells)] :
         /\ f[0] = <<>> /\ Opening(names) = f[n]
         /\ \A i \in 1 .. n : f[i] = f[i - 1] \o Tag("open", names[i])
  BY <1>1, <1>2, OpeningIs
<1> DEFINE S == {i \in 0 .. n : f[i] \in Hollow}
<1>4. 0 \in S
  BY <1>3, HollowNone
<1>5. ASSUME NEW i \in 0 .. n - 1, i \in S PROVE i + 1 \in S
  <2>1. i + 1 \in 1 .. n /\ (i + 1) - 1 = i /\ names[i + 1] \in Strings
    BY <1>2
  <2>2. f[i + 1] = f[i] \o Tag("open", names[i + 1])
    BY <1>3, <2>1
  <2>3. Tag("open", names[i + 1]) \in Hollow
    BY <2>1, Literals, HollowTag
  <2>4. f[i + 1] \in Hollow
    BY <1>5, <2>2, <2>3, HollowBoth
  <2> QED
    BY <2>1, <2>4
<1>6. \A i \in 0 .. n : i \in S
  <2> HIDE DEF S
  <2> QED
    BY <1>4, <1>5, Induct
<1> QED
  BY <1>3, <1>6

LEMMA HollowClosing ==
  ASSUME NEW names \in Seq(Strings)
  PROVE  Closing(names) \in Hollow
<1>1. names \in Seq(Strings)
  OBVIOUS
<1>2. PICK n \in Nat : n = Len(names)
  OBVIOUS
<1>3. PICK f \in [0 .. n -> Seq(Cells)] :
         /\ f[0] = <<>> /\ Closing(names) = f[n]
         /\ \A i \in 1 .. n : f[i] = Tag("close", names[i]) \o f[i - 1]
  BY <1>1, <1>2, ClosingIs
<1> DEFINE S == {i \in 0 .. n : f[i] \in Hollow}
<1>4. 0 \in S
  BY <1>3, HollowNone
<1>5. ASSUME NEW i \in 0 .. n - 1, i \in S PROVE i + 1 \in S
  <2>1. i + 1 \in 1 .. n /\ (i + 1) - 1 = i /\ names[i + 1] \in Strings
    BY <1>2
  <2>2. f[i + 1] = Tag("close", names[i + 1]) \o f[i]
    BY <1>3, <2>1
  <2>3. Tag("close", names[i + 1]) \in Hollow
    BY <2>1, Literals, HollowTag
  <2>4. f[i + 1] \in Hollow
    BY <1>5, <2>2, <2>3, HollowBoth
  <2> QED
    BY <2>1, <2>4
<1>6. \A i \in 0 .. n : i \in S
  <2> HIDE DEF S
  <2> QED
    BY <1>4, <1>5, Induct
<1> QED
  BY <1>3, <1>6

LEMMA AsideSelf == ASSUME NEW b \in Builders PROVE b \in Aside(b)
<1>1. b.ssml = b.ssml \o <<>>
  BY NothingAdded DEF Builders
<1> QED
  BY <1>1, HollowNone DEF Aside

LEMMA AsideSame ==
  ASSUME NEW b \in Builders, NEW c \in Builders, c.edge = b.edge, c.mappings = b.mappings,
         c.lastSAPIOffset = b.lastSAPIOffset, c.ssml = b.ssml
  PROVE  c \in Aside(b)
BY AsideSelf DEF Aside

LEMMA AsideMore ==
  ASSUME NEW b \in Builders, NEW c \in Aside(b), NEW d \in Aside(c)
  PROVE  d \in Aside(b)
<1>1. PICK t \in Hollow, u \in Hollow : c.ssml = b.ssml \o t /\ d.ssml = c.ssml \o u
  BY DEF Aside
<1>2. t \o u \in Hollow
  BY HollowBoth
<1>3. d.ssml = b.ssml \o (t \o u)
  <2>1. PICK q \in Seq(Cells) : q = b.ssml
    BY DEF Builders
  <2>2. t \in Seq(Cells) /\ u \in Seq(Cells)
    BY DEF Hollow
  <2>3. q \o (t \o u) = (q \o t) \o u
    BY <2>2, Associative
  <2> QED
    BY <1>1, <2>1, <2>3
<1> QED
  BY <1>2, <1>3 DEF Aside

LEMMA AsideWrite ==
  ASSUME NEW b \in Builders, NEW t \in Hollow
  PROVE  Write(b, t) \in Aside(b)
<1>1. t \in Seq(Cells)
  BY DEF Hollow
<1>2. PICK w \in Builders : w = Write(b, t) /\ Same(b, w) /\ w.ssml = b.ssml \o t
  BY <1>1, WriteType
<1>3. w.mappings = b.mappings /\ w.lastSAPIOffset = b.lastSAPIOffset
  BY <1>2 DEF Write, Builders
<1> QED
  BY <1>2, <1>3 DEF Aside, Same

LEMMA AsideTag ==
  ASSUME NEW b \in Builders, NEW d \in Strings, NEW m \in Strings
  PROVE  Write(b, Tag(d, m)) \in Aside(b)
BY HollowTag, AsideWrite

LEMMA AsideFlags ==
  ASSUME NEW b \in Builders
  PROVE  /\ [b EXCEPT !.inProsody = TRUE, !.prosodyCount = @ + 1] \in Aside(b)
         /\ [b EXCEPT !.inEmphasis = TRUE] \in Aside(b) /\ [b EXCEPT !.inSayAs = TRUE] \in Aside(b)
         /\ [b EXCEPT !.inCustomTags = TRUE] \in Aside(b)
<1>1. b \in Builders
  OBVIOUS
<1>2. \A c \in Builders :
         c.edge = b.edge /\ c.mappings = b.mappings /\ c.lastSAPIOffset = b.lastSAPIOffset /\ c.ssml = b.ssml
         => c \in Aside(b)
  BY AsideSame
<1>3. PICK c1 \in Builders : c1 = [b EXCEPT !.inProsody = TRUE, !.prosodyCount = @ + 1]
  BY <1>1, FlagsType
<1>4. PICK c2 \in Builders : c2 = [b EXCEPT !.inEmphasis = TRUE]
  BY <1>1, FlagsType
<1>5. PICK c3 \in Builders : c3 = [b EXCEPT !.inSayAs = TRUE]
  BY <1>1, FlagsType
<1>6. PICK c4 \in Builders : c4 = [b EXCEPT !.inCustomTags = TRUE]
  BY <1>1, FlagsType
<1>7. c1 \in Aside(b)
  <2>1. /\ c1.edge = b.edge /\ c1.mappings = b.mappings /\ c1.lastSAPIOffset = b.lastSAPIOffset /\ c1.ssml = b.ssml
    BY <1>1, <1>3 DEF Builders
  <2> QED
    BY <1>2, <2>1
<1>8. c2 \in Aside(b)
  <2>1. /\ c2.edge = b.edge /\ c2.mappings = b.mappings /\ c2.lastSAPIOffset = b.lastSAPIOffset /\ c2.ssml = b.ssml
    BY <1>1, <1>4 DEF Builders
  <2> QED
    BY <1>2, <2>1
<1>9. c3 \in Aside(b)
  <2>1. /\ c3.edge = b.edge /\ c3.mappings = b.mappings /\ c3.lastSAPIOffset = b.lastSAPIOffset /\ c3.ssml = b.ssml
    BY <1>1, <1>5 DEF Builders
  <2> QED
    BY <1>2, <2>1
<1>10. c4 \in Aside(b)
  <2>1. /\ c4.edge = b.edge /\ c4.mappings = b.mappings /\ c4.lastSAPIOffset = b.lastSAPIOffset /\ c4.ssml = b.ssml
    BY <1>1, <1>6 DEF Builders
  <2> QED
    BY <1>2, <2>1
<1> QED
  BY <1>3, <1>4, <1>5, <1>6, <1>7, <1>8, <1>9, <1>10

LEMMA AsideOpened ==
  ASSUME NEW b \in Builders, NEW f
  PROVE  /\ OpenProsody(b, f) \in Aside(b) /\ OpenEmphasis(b, f) \in Aside(b)
         /\ ReopenCustomTags(b) \in Aside(b) /\ OpenSayAs(b, f) \in Aside(b)
<1>1. b \in Aside(b)
  BY AsideSelf
<1>2. \A c \in Aside(b) : c \in Builders
  BY DEF Aside
<1>3. OpenProsody(b, f) \in Aside(b)
  <2>1. PICK w \in Aside(b) : w = Write(b, Tag("open", "prosody"))
    BY Literals, AsideTag
  <2>2. [w EXCEPT !.inProsody = TRUE, !.prosodyCount = @ + 1] \in Aside(b)
    BY <1>2, AsideFlags, AsideMore
  <2> QED
    BY <1>1, <2>1, <2>2 DEF OpenProsody
<1>4. OpenEmphasis(b, f) \in Aside(b)
  <2>1. PICK w \in Aside(b) : w = Write(b, Tag("open", "emphasis"))
    BY Literals, AsideTag
  <2>2. [w EXCEPT !.inEmphasis = TRUE] \in Aside(b)
    BY <1>2, AsideFlags, AsideMore
  <2> QED
    BY <1>1, <2>1, <2>2 DEF OpenEmphasis
<1>5. ReopenCustomTags(b) \in Aside(b)
  <2>1. Opening(b.customTags) \in Hollow
    BY HollowOpening DEF Builders
  <2>2. PICK w \in Aside(b) : w = Write(b, Opening(b.customTags))
    BY <2>1, AsideWrite
  <2>3. [w EXCEPT !.inCustomTags = TRUE] \in Aside(b)
    BY <1>2, AsideFlags, AsideMore
  <2> QED
    BY <1>1, <2>2, <2>3 DEF ReopenCustomTags
<1>6. OpenSayAs(b, f) \in Aside(b)
  <2>1. PICK w \in Aside(b) : w = Write(b, Tag("open", "say-as"))
    BY Literals, AsideTag
  <2>2. [w EXCEPT !.inSayAs = TRUE] \in Aside(b)
    BY <1>2, AsideFlags, AsideMore
  <2> QED
    BY <1>1, <2>1, <2>2 DEF OpenSayAs
<1> QED
  BY <1>3, <1>4, <1>5, <1>6

LEMMA AsideCustomTag ==
  ASSUME NEW b \in Builders, NEW m \in Strings
  PROVE  CloseCustomTag(b, m) \in Aside(b)
<1>1. PICK k \in Seq(Strings) : k = b.customTags
  BY DEF Builders
<1>2. SUFFICES ASSUME NEW i \in 1 .. Len(k), ClosesAt(Strings, b, k, m, i)
               PROVE  CloseCustomTag(b, m) \in Aside(b)
  BY <1>1, CloseCustomTagIs, AsideSelf
<1>3. PICK t \in Seq(Strings), u \in Seq(Strings) : t = SubSeq(k, 1, i - 1) /\ u = SubSeq(k, i + 1, Len(k))
  BY <1>2 DEF ClosesAt
<1>4. PICK x \in Hollow, y \in Hollow : x = Closing(u) /\ y = Tag("close", m)
  BY Literals, HollowTag, HollowClosing
<1>5. PICK w \in Aside(b) : w = Write(b, x \o y)
  BY HollowBoth, AsideWrite
<1>6. w \in Builders /\ w.customTags = k
  <2>1. x \in Seq(Cells) /\ y \in Seq(Cells) /\ b \in Builders
    BY DEF Hollow
  <2> QED
    BY <1>1, <1>5, <2>1, WriteTwice DEF Same
<1>7. CloseCustomTag(b, m) = [w EXCEPT !.customTags = t]
  BY <1>2, <1>3, <1>4, <1>5, <1>6 DEF ClosesAt
<1>8. t \in Seq(Strings)
  OBVIOUS
<1>9. PICK c \in Builders : c = [w EXCEPT !.customTags = t]
  <2>1. [w EXCEPT !.customTags = t] \in Builders
    BY <1>6, <1>8 DEF Builders
  <2> QED
    BY <2>1
<1>10. c.edge = w.edge /\ c.mappings = w.mappings /\ c.lastSAPIOffset = w.lastSAPIOffset /\ c.ssml = w.ssml
  BY <1>6, <1>9 DEF Builders
<1> QED
  BY <1>6, <1>7, <1>9, <1>10, AsideSame, AsideMore

LEMMA AsideEnds ==
  ASSUME NEW b \in Builders, NEW level \in 0 .. 3
  PROVE  CloseTags(b, level) \in Aside(b)
<1> DEFINE sayAs    == b.inSayAs /\ level < 3
           custom   == b.inCustomTags /\ level < 2
           emphasis == b.inEmphasis /\ level < 2
           prosody  == b.inProsody /\ level < 1
           z1 == IF sayAs THEN Tag("close", "say-as") ELSE <<>>
           z2 == IF custom THEN Closing(b.customTags) ELSE <<>>
           z3 == IF emphasis THEN Tag("close", "emphasis") ELSE <<>>
           z4 == IF prosody THEN Tag("close", "prosody") ELSE <<>>
           z == z1 \o z2 \o z3 \o z4
           w == Write(b, z)
<1>1. z \in Hollow
  <2>1. z1 \in Hollow /\ z3 \in Hollow /\ z4 \in Hollow
    BY Literals, HollowTag, HollowNone
  <2>2. z2 \in Hollow
    BY HollowNone, HollowClosing DEF Builders
  <2> HIDE DEF z1, z2, z3, z4
  <2> QED
    BY <2>1, <2>2, HollowBoth
<1>2. CloseTags(b, level) =
        [w EXCEPT !.inSayAs = IF sayAs THEN FALSE ELSE @, !.inCustomTags = IF custom THEN FALSE ELSE @,
                  !.inEmphasis = IF emphasis THEN FALSE ELSE @, !.inProsody = IF prosody THEN FALSE ELSE @]
  BY DEF CloseTags
<1> HIDE DEF z
<1>3. w \in Aside(b)
  BY <1>1, AsideWrite
<1>4. PICK c \in Builders : c = CloseTags(b, level)
  BY CloseTagsType
<1> HIDE DEF w, sayAs, custom, emphasis, prosody
<1>5. w \in Builders
  BY <1>3 DEF Aside
<1>6. c.edge = w.edge /\ c.mappings = w.mappings /\ c.lastSAPIOffset = w.lastSAPIOffset /\ c.ssml = w.ssml
  BY <1>2, <1>4, <1>5 DEF Builders
<1> QED
  BY <1>3, <1>4, <1>5, <1>6, AsideSame, AsideMore

LEMMA AsideUnknown ==
  ASSUME NEW b \in Builders, NEW tag \in Tags, tag.dir \in {"self", "open", "close", "bad"}
  PROVE  UnknownTag(b, tag) \in Aside(b)
<1>1. PICK m \in Strings : m = tag.name
  BY DEF Tags
<1>2. CASE tag.dir = "self"
  BY <1>1, <1>2, Literals, AsideTag DEF UnknownTag
<1>3. CASE tag.dir = "close"
  BY <1>1, <1>3, AsideCustomTag DEF UnknownTag
<1>4. CASE tag.dir = "bad"
  BY <1>4, AsideSelf DEF UnknownTag
<1>5. CASE tag.dir = "open"
  <2>1. PICK w \in Aside(b) : w = Write(b, Tag("open", m))
    BY Literals, AsideTag
  <2>2. w \in Builders /\ w.customTags \in Seq(Strings)
    BY DEF Aside, Builders
  <2>3. PICK k \in Seq(Strings) : k = Append(w.customTags, m)
    <3>1. \A x \in Seq(Strings) : Append(x, m) \in Seq(Strings)
      OBVIOUS
    <3> QED
      BY <2>2, <3>1
  <2>4. UnknownTag(b, tag) = [w EXCEPT !.customTags = k]
    BY <1>1, <1>5, <2>1, <2>3 DEF UnknownTag
  <2>5. k \in Seq(Strings)
    OBVIOUS
  <2>6. PICK c \in Builders : c = [w EXCEPT !.customTags = k]
    <3>1. [w EXCEPT !.customTags = k] \in Builders
      BY <2>2, <2>5 DEF Builders
    <3> QED
      BY <3>1
  <2>7. c.edge = w.edge /\ c.mappings = w.mappings /\ c.lastSAPIOffset = w.lastSAPIOffset /\ c.ssml = w.ssml
    BY <2>2, <2>6 DEF Builders
  <2> QED
    BY <2>2, <2>4, <2>6, <2>7, AsideSame, AsideMore
<1> QED
  BY <1>2, <1>3, <1>4, <1>5

LEMMA AsideSpaced ==
  ASSUME NEW b \in Builders, NEW f
  PROVE  Spaced(b, f) \in Aside(b)
<1>1. PICK x \in Cells : x = Made(" ") /\ x.from = NoOffset
  <2>1. Made(" ") \in Cells
    BY Literals, MadeCell
  <2> QED
    BY <2>1 DEF Made
<1>2. PICK t \in Seq(Cells) : t = <<x>> /\ Len(t) = 1 /\ t[1] = x
  <2>1. <<x>> \in Seq(Cells) /\ Len(<<x>>) = 1 /\ <<x>>[1] = x
    OBVIOUS
  <2> QED
    BY <2>1
<1>3. \A i \in 1 .. Len(t) : i = 1
  BY <1>2
<1>4. t \in Hollow
  BY <1>1, <1>2, <1>3 DEF Hollow
<1>5. Write(b, t) \in Aside(b)
  BY <1>4, AsideWrite
<1> QED
  BY <1>1, <1>2, <1>5, AsideSelf DEF Spaced

-----------------------------------------------------------------------------
(***************************************************************************)
(* BuildSSML's mappings lead to the text, for fragments that follow each   *)
(* other in it: n is where the text ends that is written so far.           *)
(***************************************************************************)
Laid(b, n) == b \in Builders /\ Located(b.ssml, b.mappings) /\ Before(b.ssml, b.mappings, n)
Fits(b, n)   == Laid(b, n) /\ Closed(b.ssml, b.mappings) /\ (b.edge => b.lastSAPIOffset = n)
\* In the middle of a fragment, at offset n of it.
Writes(b, n) == Laid(b, n) /\ Here(b.ssml, b.mappings, n)
Alike(b, c)  == c.edge = b.edge /\ c.lastSAPIOffset = b.lastSAPIOffset

LEMMA BuilderParts ==
  ASSUME NEW b \in Builders
  PROVE  b.ssml \in Seq(Cells) /\ b.mappings \in Seq(Entries) /\ b.edge \in BOOLEAN /\ b.lastSAPIOffset \in Int
BY DEF Builders, Entries

LEMMA FitsAside ==
  ASSUME NEW b, NEW n \in Nat, Fits(b, n), NEW c \in Aside(b)
  PROVE  Fits(c, n)
<1>1. b \in Builders /\ c \in Builders
  BY DEF Fits, Laid, Aside
<1>2. PICK s \in Seq(Cells), M \in Seq(Entries) : s = b.ssml /\ M = b.mappings
  BY <1>1, BuilderParts
<1>3. PICK t \in Hollow : c.ssml = s \o t /\ c.mappings = M
  BY <1>2 DEF Aside
<1>4. t \in Seq(Cells) /\ \A i \in 1 .. Len(t) : t[i].from = NoOffset
  BY DEF Hollow
<1>5. Located(s, M) /\ Before(s, M, n) /\ Closed(s, M)
  BY <1>2 DEF Fits, Laid
<1>6. Located(s \o t, M) /\ Before(s \o t, M, n) /\ Closed(s \o t, M)
  BY <1>4, <1>5, LocatedMade
<1>7. c.edge => c.lastSAPIOffset = n
  BY DEF Fits, Aside
<1> QED
  BY <1>1, <1>3, <1>6, <1>7 DEF Fits, Laid

LEMMA LaidMore ==
  ASSUME NEW b, NEW n \in Nat, NEW m \in Nat, Laid(b, n), n <= m
  PROVE  Laid(b, m)
<1>1. PICK s \in Seq(Cells), M \in Seq(Entries) : s = b.ssml /\ M = b.mappings
  BY BuilderParts DEF Laid
<1>2. Before(s, M, m)
  BY <1>1, BeforeMore DEF Laid
<1> QED
  BY <1>1, <1>2 DEF Laid

LEMMA MapIs ==
  ASSUME NEW b \in Builders, NEW n \in Nat
  PROVE  LET c == Map(b, n)
         IN  /\ c \in Builders /\ c.ssml = b.ssml /\ Alike(b, c)
             /\ c.mappings = Append(b.mappings, [sapi |-> n, ssml |-> Len(b.ssml)])
<1>1. n \in Int
  OBVIOUS
<1>2. Map(b, n) \in Builders
  BY <1>1, MapSaid DEF Said
<1>3. PICK m : m = Append(b.mappings, [sapi |-> n, ssml |-> Len(b.ssml)])
  OBVIOUS
<1>4. Map(b, n) = [b EXCEPT !.mappings = m]
  BY <1>3 DEF Map
<1>5. [b EXCEPT !.mappings = m].ssml = b.ssml /\ [b EXCEPT !.mappings = m].mappings = m
      /\ [b EXCEPT !.mappings = m].edge = b.edge
      /\ [b EXCEPT !.mappings = m].lastSAPIOffset = b.lastSAPIOffset
  BY DEF Builders
<1> QED
  BY <1>2, <1>3, <1>4, <1>5 DEF Alike

LEMMA LaidMap ==
  ASSUME NEW b, NEW n \in Nat, Laid(b, n), Closed(b.ssml, b.mappings) \/ Here(b.ssml, b.mappings, n)
  PROVE  LET c == Map(b, n)
         IN  Laid(c, n) /\ Closed(c.ssml, c.mappings) /\ Here(c.ssml, c.mappings, n) /\ Alike(b, c)
<1>1. b \in Builders
  BY DEF Laid
<1>2. PICK s \in Seq(Cells), M \in Seq(Entries) : s = b.ssml /\ M = b.mappings
  BY <1>1, BuilderParts
<1>3. PICK c \in Builders : c = Map(b, n) /\ c.ssml = s /\ Alike(b, c)
                            /\ c.mappings = Append(M, [sapi |-> n, ssml |-> Len(s)])
  BY <1>1, <1>2, MapIs
<1>4. Located(s, M) /\ Before(s, M, n) /\ (Closed(s, M) \/ Here(s, M, n))
  BY <1>2 DEF Laid
<1>5. PICK N : N = Append(M, [sapi |-> n, ssml |-> Len(s)])
  OBVIOUS
<1>6. Located(s, N) /\ Before(s, N, n) /\ Closed(s, N) /\ Here(s, N, n)
  BY <1>4, <1>5, LocatedMap
<1> QED
  BY <1>3, <1>5, <1>6 DEF Laid

LEMMA EntityChars == \A k \in 1 .. Len(Entity) : Entity[k] # " " /\ Entity[k] # "c"
<1>1. \A x, y, z : /\ Len(<<x, y, z>>) = 3
                  /\ <<x, y, z>>[1] = x /\ <<x, y, z>>[2] = y /\ <<x, y, z>>[3] = z
  OBVIOUS
<1>2. /\ Len(Entity) = 3 /\ Entity[1] = "&" /\ Entity[2] = "a" /\ Entity[3] = ";"
  BY <1>1 DEF Entity
<1>3. \A k \in 1 .. 3 : k = 1 \/ k = 2 \/ k = 3
  OBVIOUS
<1>4. \A k \in 1 .. Len(Entity) : k = 1 \/ k = 2 \/ k = 3
  BY <1>2, <1>3
<1> QED
  BY <1>2, <1>4

\* The cells of one character.
LEMMA EscapedCells ==
  ASSUME NEW c \in Strings, NEW n \in Int
  PROVE  LET cells == [k \in DOMAIN Escaped(c) |-> [Made(Escaped(c)[k]) EXCEPT !.from = n]]
         IN  cells \in Seq(Cells) /\ Len(cells) = Len(Escaped(c)) /\ Character(cells, n)
<1> DEFINE Cell(x) == [Made(x) EXCEPT !.from = n]
<1>1. PICK e \in Seq(Strings) : e = Escaped(c) /\ Len(e) \in {1, 3}
  BY EscapedChars
<1>2. Len(e) > 1 => \A k \in 1 .. Len(e) : e[k] # " " /\ e[k] # "c"
  <2>1. CASE c \in {"&", "'"}
    <3>1. e = Entity
      BY <1>1, <2>1 DEF Escaped
    <3>2. \A k \in 1 .. Len(Entity) : Entity[k] # " " /\ Entity[k] # "c"
      BY EntityChars
    <3> QED
      BY <3>1, <3>2
  <2>2. CASE c \notin {"&", "'"}
    <3>1. e = <<c>>
      BY <1>1, <2>2 DEF Escaped
    <3>2. Len(<<c>>) = 1 /\ ~(1 > 1)
      OBVIOUS
    <3>3. Len(e) = 1
      BY <3>1, <3>2
    <3> QED
      BY <3>2, <3>3
  <2> QED
    BY <2>1, <2>2
<1>3. \A x \in Strings : Cell(x) \in Cells /\ Cell(x).from = n /\ Cell(x).ch = x
  <2> TAKE x \in Strings
  <2>1. Made(x) \in Cells /\ Made(x).ch = x
    BY MadeCell DEF Made
  <2> QED
    BY <2>1 DEF Cells
<1> HIDE DEF Cell
<1>4. PICK t \in Seq(Cells) : /\ t = [k \in DOMAIN e |-> Cell(e[k])] /\ Len(t) = Len(e)
                              /\ \A k \in 1 .. Len(e) : t[k] = Cell(e[k])
  <2>1. [k \in DOMAIN e |-> Cell(e[k])] \in Seq(Cells)
    BY <1>3
  <2>2. Len([k \in DOMAIN e |-> Cell(e[k])]) = Len(e)
    OBVIOUS
  <2> QED
    BY <2>1, <2>2
<1>5. \A k \in 1 .. Len(e) : e[k] \in Strings
  OBVIOUS
<1>6. \A k \in 1 .. Len(e) : t[k].from = n /\ t[k].ch = e[k]
  BY <1>3, <1>4, <1>5
<1>7. Len(t) > 0
  <2>1. \A k \in {1, 3} : k > 0
    OBVIOUS
  <2> QED
    BY <1>1, <1>4, <2>1
<1>8. Character(t, n)
  BY <1>2, <1>4, <1>6, <1>7 DEF Character
<1> QED
  BY <1>1, <1>4, <1>8 DEF Cell

LEMMA CharacterWrites ==
  ASSUME NEW b, NEW f \in Fragments, NEW i \in 1 .. Len(f.text), Writes(b, f.at + i - 1)
  PROVE  Writes(AppendCharacter(b, f, i), f.at + i) /\ Alike(b, AppendCharacter(b, f, i))
<1>1. PICK n \in Nat, c \in Strings : n = f.at + i - 1 /\ n + 1 = f.at + i /\ c = f.text[i]
  <2>1. f.at \in Nat /\ f.text[i] \in Strings
    BY DEF Fragments
  <2>2. f.at + i - 1 \in Nat /\ (f.at + i - 1) + 1 = f.at + i
    BY <2>1
  <2> QED
    BY <2>1, <2>2
<1>2. b \in Builders
  BY DEF Writes, Laid
<1>3. PICK s \in Seq(Cells), M \in Seq(Entries) : s = b.ssml /\ M = b.mappings
  BY <1>2, BuilderParts
<1> DEFINE cells == [k \in DOMAIN Escaped(c) |-> [Made(Escaped(c)[k]) EXCEPT !.from = n]]
<1>4. PICK t \in Seq(Cells) : t = cells /\ Len(t) = Len(Escaped(c)) /\ Character(t, n)
  <2>1. n \in Int
    OBVIOUS
  <2> QED
    BY <2>1, EscapedCells
<1>5. AppendCharacter(b, f, i) = IF Len(t) > 1 THEN Map(Write(b, t), n + 1) ELSE Write(b, t)
  BY <1>1, <1>4 DEF AppendCharacter
<1> HIDE DEF cells
<1>6. PICK w \in Builders : w = Write(b, t) /\ w.ssml = s \o t /\ w.mappings = M /\ Alike(b, w)
  <2>1. Write(b, t) \in Builders /\ Write(b, t).ssml = s \o t
    BY <1>2, <1>3, WriteType
  <2>2. Write(b, t).mappings = M /\ Write(b, t).edge = b.edge /\ Write(b, t).lastSAPIOffset = b.lastSAPIOffset
    BY <1>2, <1>3 DEF Write, Builders
  <2> QED
    BY <2>1, <2>2 DEF Alike
<1>7. PICK W \in Seq(Cells) : W = s \o t
  BY Behind
<1>8. PICK N : N = IF Len(t) > 1 THEN Append(M, [sapi |-> n + 1, ssml |-> Len(W)]) ELSE M
  OBVIOUS
<1>9. Located(W, N) /\ Before(W, N, n + 1) /\ Here(W, N, n + 1)
  <2>1. Located(s, M) /\ Before(s, M, n) /\ Here(s, M, n)
    BY <1>1, <1>3 DEF Writes, Laid
  <2> QED
    BY <1>4, <1>7, <1>8, <2>1, LocatedCharacter
<1>10. PICK c2 \in Builders : c2 = AppendCharacter(b, f, i) /\ c2.ssml = W /\ c2.mappings = N /\ Alike(b, c2)
  <2>1. CASE Len(t) > 1
    <3>1. n + 1 \in Nat
      OBVIOUS
    <3>2. PICK d \in Builders : /\ d = Map(w, n + 1) /\ d.ssml = w.ssml /\ Alike(w, d)
                                /\ d.mappings = Append(w.mappings, [sapi |-> n + 1, ssml |-> Len(w.ssml)])
      BY <3>1, MapIs
    <3>3. Alike(b, d)
      BY <1>6, <3>2 DEF Alike
    <3> QED
      BY <1>5, <1>6, <1>7, <1>8, <2>1, <3>2, <3>3
  <2>2. CASE ~(Len(t) > 1)
    BY <1>5, <1>6, <1>7, <1>8, <2>2
  <2> QED
    BY <2>1, <2>2
<1> QED
  BY <1>1, <1>9, <1>10 DEF Writes, Laid

LEMMA TextWrites ==
  ASSUME NEW b, NEW f \in Fragments, Writes(b, f.at)
  PROVE  LET c == AppendTextFragToSsml(b, f) IN Writes(c, f.at + Len(f.text)) /\ Alike(b, c)
<1>1. PICK n \in Nat, p \in Nat : n = Len(f.text) /\ p = f.at
  BY DEF Fragments
<1>2. b \in Builders
  BY DEF Writes, Laid
<1>3. PICK u \in [0 .. n -> Said(b)] :
         /\ u[0] = b /\ AppendTextFragToSsml(b, f) = u[n]
         /\ \A i \in 1 .. n : u[i] = AppendCharacter(u[i - 1], f, i)
  BY <1>1, <1>2, AppendTextIs
<1> DEFINE S == {i \in 0 .. n : Writes(u[i], p + i) /\ Alike(b, u[i])}
<1>4. 0 \in S
  <2>1. p + 0 = p /\ 0 \in 0 .. n
    OBVIOUS
  <2> QED
    BY <1>1, <1>3, <2>1 DEF Alike
<1>5. ASSUME NEW i \in 0 .. n - 1, i \in S PROVE i + 1 \in S
  <2>1. i + 1 \in 1 .. n /\ i + 1 \in 0 .. n /\ (i + 1) - 1 = i /\ p + (i + 1) - 1 = p + i
    OBVIOUS
  <2>2. u[i + 1] = AppendCharacter(u[i], f, i + 1)
    BY <1>3, <2>1
  <2>3. Writes(u[i], p + (i + 1) - 1) /\ Alike(b, u[i])
    BY <1>5, <2>1
  <2>4. Writes(u[i + 1], p + (i + 1)) /\ Alike(u[i], u[i + 1])
    BY <1>1, <2>1, <2>2, <2>3, CharacterWrites
  <2> QED
    BY <2>1, <2>3, <2>4 DEF Alike
<1>6. \A i \in 0 .. n : i \in S
  <2> HIDE DEF S
  <2> QED
    BY <1>4, <1>5, Induct
<1>7. Writes(u[n], p + n) /\ Alike(b, u[n])
  BY <1>6
<1> QED
  BY <1>1, <1>3, <1>7

LEMMA MappedTextFits ==
  ASSUME NEW b, NEW n \in Nat, NEW f \in Fragments, Fits(b, n), n <= f.at
  PROVE  LET c == MappedText(b, f)
         IN  Laid(c, f.at + Len(f.text)) /\ Closed(c.ssml, c.mappings) /\ Alike(b, c)
<1>1. PICK p \in Nat, l \in Nat : p = f.at /\ l = Len(f.text) /\ p + l \in Nat
  BY DEF Fragments
<1>2. Laid(b, p) /\ Closed(b.ssml, b.mappings)
  BY <1>1, LaidMore DEF Fits
<1>3. PICK m : m = Map(b, p) /\ Laid(m, p) /\ Here(m.ssml, m.mappings, p) /\ Alike(b, m)
  BY <1>2, LaidMap
<1>4. PICK a : a = AppendTextFragToSsml(m, f) /\ Writes(a, p + l) /\ Alike(m, a)
  <2>1. Writes(m, p)
    BY <1>3 DEF Writes
  <2> QED
    BY <1>1, <2>1, TextWrites
<1>5. PICK c : c = Map(a, p + l) /\ Laid(c, p + l) /\ Closed(c.ssml, c.mappings) /\ Alike(a, c)
  <2>1. Laid(a, p + l) /\ Here(a.ssml, a.mappings, p + l)
    BY <1>4 DEF Writes
  <2> QED
    BY <1>1, <2>1, LaidMap
<1>6. c = MappedText(b, f)
  BY <1>1, <1>3, <1>4, <1>5 DEF MappedText
<1> QED
  BY <1>1, <1>3, <1>4, <1>5, <1>6 DEF Alike

\* Where the text ends with fragment f written.
After(f, n) == IF Speakable(f) THEN f.at + Len(f.text) ELSE n

LEMMA MappedFits ==
  ASSUME NEW b, NEW n \in Nat, NEW f \in Fragments, Fits(b, n), n <= f.at, ~b.edge
  PROVE  Fits(MappedText(b, f), f.at + Len(f.text)) /\ ~MappedText(b, f).edge
BY MappedTextFits DEF Fits, Alike

LEMMA BodyFits ==
  ASSUME NEW b, NEW n \in Nat, NEW f \in Fragments, Fits(b, n), ~b.edge, Speakable(f) => n <= f.at
  PROVE  Fits(Body(b, f), After(f, n))
<1>1. f.act \in Acts /\ f.tag \in Tags /\ (f.act = "ParseUnknownTag" => f.tag.dir \in {"self", "open", "close", "bad"})
  BY DEF Fragments
<1>a. b \in Builders
  BY DEF Fits, Laid
<1>b. f.at + Len(f.text) \in Nat
  BY DEF Fragments
<1>2. CASE f.act = "Speak"
  <2>1. PICK c \in Aside(b) : c = Spaced(b, f)
    BY <1>a, AsideSpaced
  <2>2. Fits(c, n) /\ ~c.edge
    BY FitsAside DEF Aside
  <2>3. Speakable(f)
    BY <1>2 DEF Speakable
  <2>4. Fits(MappedText(c, f), f.at + Len(f.text))
    BY <2>2, <2>3, MappedFits
  <2> QED
    BY <1>2, <2>1, <2>3, <2>4 DEF Body, After
<1>3. CASE f.act = "Silence"
  <2>1. Body(b, f) \in Aside(b)
    BY <1>a, <1>3, Literals, AsideTag DEF Body
  <2>2. ~Speakable(f)
    BY <1>3 DEF Speakable
  <2> QED
    BY <2>1, <2>2, FitsAside DEF After
<1>4. CASE f.act = "Bookmark"
  <2>1. PICK w \in Aside(b) : w = Write(b, Tag("self", "bookmark"))
    BY <1>a, Literals, AsideTag
  <2>2. w \in Builders
    BY DEF Aside
  <2>3. PICK c \in Builders : c = AddBookmark(w, f)
    BY <2>2, AddBookmarkSaid DEF Said
  <2>4. c.edge = w.edge /\ c.mappings = w.mappings /\ c.lastSAPIOffset = w.lastSAPIOffset /\ c.ssml = w.ssml
    BY <2>2, <2>3 DEF AddBookmark, Builders
  <2>5. c \in Aside(b)
    BY <1>a, <2>2, <2>4, AsideSame, AsideMore
  <2>6. ~Speakable(f)
    BY <1>4 DEF Speakable
  <2> QED
    BY <1>4, <2>1, <2>3, <2>5, <2>6, FitsAside DEF Body, After
<1>5. CASE f.act \in {"SpellOut", "Pronounce"}
  <2>1. PICK m \in Strings : m = IF f.act = "SpellOut" THEN "say-as" ELSE "phoneme"
    BY Literals
  <2>2. Body(b, f) = Write(MappedText(Write(b, Tag("open", m)), f), Tag("close", m))
    BY <1>5, <2>1 DEF Body
  <2>3. PICK w \in Aside(b) : w = Write(b, Tag("open", m))
    BY <1>a, Literals, AsideTag
  <2>4. Fits(w, n) /\ ~w.edge
    BY FitsAside DEF Aside
  <2>5. Speakable(f)
    BY <1>5 DEF Speakable
  <2>6. PICK v : v = MappedText(w, f) /\ Fits(v, f.at + Len(f.text))
    BY <2>4, <2>5, MappedFits
  <2>7. PICK x \in Aside(v) : x = Write(v, Tag("close", m))
    BY <2>6, Literals, AsideTag DEF Fits, Laid
  <2>8. Fits(x, f.at + Len(f.text))
    BY <1>b, <2>6, FitsAside
  <2> QED
    BY <2>2, <2>3, <2>5, <2>6, <2>7, <2>8 DEF After
<1>6. CASE f.act = "ParseUnknownTag"
  <2>1. Body(b, f) \in Aside(b)
    BY <1>1, <1>a, <1>6, AsideUnknown DEF Body
  <2>2. ~Speakable(f)
    BY <1>6 DEF Speakable
  <2> QED
    BY <2>1, <2>2, FitsAside DEF After
<1> QED
  BY <1>1, <1>2, <1>3, <1>4, <1>5, <1>6 DEF Acts

LEMMA EdgeBodyFits ==
  ASSUME NEW b, NEW n \in Nat, NEW f \in Fragments, Fits(b, n), b.edge, Speakable(f) => n <= f.at
  PROVE  Fits(EdgeBody(b, f), After(f, n))
<1>a. b \in Builders
  BY DEF Fits, Laid
<1>1. CASE Speakable(f)
  <2>1. PICK e : e = f.at + Len(f.text)
    OBVIOUS
  <2>a. e \in Int
    BY <2>1 DEF Fragments
  <2>2. PICK c \in Aside(b) : c = Spaced(b, f)
    BY <1>a, AsideSpaced
  <2>3. PICK d : d = MappedText(c, f) /\ Laid(d, e) /\ Closed(d.ssml, d.mappings)
    BY <1>1, <2>1, <2>2, FitsAside, MappedTextFits
  <2>4. PICK x : x = [d EXCEPT !.lastSAPIOffset = e]
    OBVIOUS
  <2>5. x \in Builders /\ x.ssml = d.ssml /\ x.mappings = d.mappings /\ x.lastSAPIOffset = e
    BY <2>a, <2>3, <2>4 DEF Laid, Builders
  <2>6. Fits(x, e)
    BY <2>3, <2>5 DEF Fits, Laid
  <2>7. EdgeBody(b, f) = x
    BY <1>1, <2>1, <2>2, <2>3, <2>4 DEF EdgeBody
  <2> QED
    BY <1>1, <2>1, <2>6, <2>7 DEF After
<1>2. CASE ~Speakable(f) /\ f.act = "Bookmark"
  <2>1. b.lastSAPIOffset = n
    BY DEF Fits
  <2>2. PICK w : w = Map(b, n) /\ Laid(w, n) /\ Closed(w.ssml, w.mappings) /\ Alike(b, w)
    BY LaidMap DEF Fits
  <2>3. Fits(w, n) /\ w \in Builders
    BY <2>1, <2>2 DEF Fits, Alike, Laid
  <2>4. PICK c \in Builders : c = AddBookmark(w, f)
    BY <2>3, AddBookmarkSaid DEF Said
  <2>5. c.edge = w.edge /\ c.mappings = w.mappings /\ c.lastSAPIOffset = w.lastSAPIOffset /\ c.ssml = w.ssml
    BY <2>3, <2>4 DEF AddBookmark, Builders
  <2>6. Fits(c, n)
    BY <2>3, <2>5, AsideSame, FitsAside
  <2> QED
    BY <1>2, <2>1, <2>2, <2>4, <2>6 DEF EdgeBody, After
<1>3. CASE ~Speakable(f) /\ f.act # "Bookmark"
  BY <1>3 DEF EdgeBody, After
<1> QED
  BY <1>1, <1>2, <1>3

LEMMA AddFragmentFits ==
  ASSUME NEW b, NEW n \in Nat, Fits(b, n), NEW doc \in Seq(Fragments), NEW i \in 1 .. Len(doc),
         Speakable(doc[i]) => n <= doc[i].at
  PROVE  Fits(AddFragment(b, doc, i), After(doc[i], n))
<1>1. PICK f \in Fragments : f = doc[i]
  OBVIOUS
<1> DEFINE text == b.hasText \/ (f.act # "Bookmark" /\ f.text # <<>>)
<1>a. b \in Builders
  BY DEF Fits, Laid
<1>2. text \in BOOLEAN
  BY <1>a DEF Builders
<1>3. PICK a \in Aside(b) : a = [b EXCEPT !.hasText = text]
  <2> HIDE DEF text
  <2>1. PICK a \in Builders : a = [b EXCEPT !.hasText = text]
    <3>1. [b EXCEPT !.hasText = text] \in Builders
      BY <1>2, <1>a DEF Builders
    <3> QED
      BY <3>1
  <2>2. a.edge = b.edge /\ a.mappings = b.mappings /\ a.lastSAPIOffset = b.lastSAPIOffset /\ a.ssml = b.ssml
    BY <1>a, <2>1 DEF Builders
  <2> QED
    BY <1>a, <2>1, <2>2, AsideSame
<1>b. \A c, d : d \in Aside(c) => d \in Builders
  BY DEF Aside
<1>4. PICK o1 \in Aside(b) : o1 = OpenProsody(a, f)
  BY <1>a, <1>b, AsideOpened, AsideMore
<1>5. PICK o2 \in Aside(b) : o2 = OpenEmphasis(o1, f)
  BY <1>a, <1>b, AsideOpened, AsideMore
<1>6. PICK o3 \in Aside(b) : o3 = ReopenCustomTags(o2)
  BY <1>a, <1>b, AsideOpened, AsideMore
<1>7. PICK o4 \in Aside(b) : o4 = OpenSayAs(o3, f)
  BY <1>a, <1>b, AsideOpened, AsideMore
<1>8. Fits(o4, n) /\ o4.edge = b.edge
  BY FitsAside DEF Aside
<1>9. PICK said : said = (IF b.edge THEN EdgeBody(o4, f) ELSE Body(o4, f)) /\ Fits(said, After(f, n))
  <2>1. CASE b.edge
    BY <1>1, <1>8, <2>1, EdgeBodyFits
  <2>2. CASE ~b.edge
    BY <1>1, <1>8, <2>2, BodyFits
  <2> QED
    BY <2>1, <2>2
<1>10. AddFragment(b, doc, i) = CloseTags(said, PreserveTagLevel(said, doc, i))
  BY <1>1, <1>3, <1>4, <1>5, <1>6, <1>7, <1>9 DEF AddFragment
<1>11. PICK c \in Aside(said) : c = AddFragment(b, doc, i)
  BY <1>9, <1>10, LevelType, AsideEnds DEF Fits, Laid
<1>12. After(f, n) \in Nat
  <2>1. f.at \in Nat /\ Len(f.text) \in Nat
    BY DEF Fragments
  <2>2. f.at + Len(f.text) \in Nat
    BY <2>1
  <2> QED
    BY <2>2 DEF After
<1> QED
  BY <1>1, <1>9, <1>11, <1>12, FitsAside

\* The fragments follow each other in the text, as SAPI's parser finds them.
Separate(doc) ==
    \A i, j \in 1 .. Len(doc) : i < j /\ Speakable(doc[i]) /\ Speakable(doc[j]) =>
       doc[i].at + Len(doc[i].text) <= doc[j].at
EndsUpTo(doc, n) == {0} \cup {doc[i].at + Len(doc[i].text) : i \in {k \in 1 .. n : Speakable(doc[k])}}

LEMMA EndsAre ==
  ASSUME NEW doc \in Seq(Fragments), NEW i \in 0 .. Len(doc), NEW n \in EndsUpTo(doc, i)
  PROVE  /\ n \in Nat
         /\ Separate(doc) => \A j \in 1 .. Len(doc) : j > i /\ Speakable(doc[j]) => n <= doc[j].at
         /\ i < Len(doc) => After(doc[i + 1], n) \in EndsUpTo(doc, i + 1)
<1>1. \A j \in 1 .. Len(doc) : doc[j].at \in Nat /\ Len(doc[j].text) \in Nat
  <2>1. \A j \in 1 .. Len(doc) : doc[j] \in Fragments
    OBVIOUS
  <2> QED
    BY <2>1 DEF Fragments
<1>2. n = 0 \/ \E k \in 1 .. i : Speakable(doc[k]) /\ n = doc[k].at + Len(doc[k].text)
  BY DEF EndsUpTo
<1>3. \A k \in 1 .. i : k \in 1 .. Len(doc) /\ k \in 1 .. i + 1 /\ \A j \in 1 .. Len(doc) : j > i => k < j
  OBVIOUS
<1>4. n \in Nat
  <2>1. \A x, y \in Nat : x + y \in Nat
    OBVIOUS
  <2> QED
    BY <1>1, <1>2, <1>3, <2>1
<1>5. ASSUME Separate(doc), NEW j \in 1 .. Len(doc), j > i, Speakable(doc[j]) PROVE n <= doc[j].at
  <2>1. CASE n = 0
    BY <1>1, <2>1
  <2>2. CASE \E k \in 1 .. i : Speakable(doc[k]) /\ n = doc[k].at + Len(doc[k].text)
    BY <1>3, <1>5, <2>2 DEF Separate
  <2> QED
    BY <1>2, <2>1, <2>2
<1>6. ASSUME i < Len(doc) PROVE After(doc[i + 1], n) \in EndsUpTo(doc, i + 1)
  <2>1. i + 1 \in 1 .. i + 1
    OBVIOUS
  <2>2. n \in EndsUpTo(doc, i + 1)
    BY <1>2, <1>3 DEF EndsUpTo
  <2> QED
    BY <2>1, <2>2 DEF EndsUpTo, After
<1> QED
  BY <1>4, <1>5, <1>6

LEMMA BlankFits == ASSUME NEW isOnline \in BOOLEAN, NEW isEdge \in BOOLEAN PROVE Fits(Begin(isOnline, isEdge), 0)
<1>1. PICK b \in Builders : b = Blank(isEdge)
  BY BlankHolds
<1>2. b.mappings = <<>> /\ b.ssml = Tag("open", "speak") /\ b.lastSAPIOffset = 0
  BY <1>1 DEF Blank
<1>3. PICK t \in Hollow : t = Tag("open", "speak")
  BY Literals, HollowTag
<1>4. Located(<<>> \o t, <<>>) /\ Before(<<>> \o t, <<>>, 0) /\ Closed(<<>> \o t, <<>>)
  <2>1. <<>> \in Seq(Cells) /\ <<>> \in Seq(Entries) /\ 0 \in Nat
    OBVIOUS
  <2>2. Located(<<>>, <<>>) /\ Before(<<>>, <<>>, 0) /\ Closed(<<>>, <<>>)
    BY <2>1, LocatedNothing
  <2>3. t \in Seq(Cells) /\ \A i \in 1 .. Len(t) : t[i].from = NoOffset
    BY DEF Hollow
  <2> QED
    BY <2>1, <2>2, <2>3, LocatedMade
<1>5. <<>> \o t = t
  BY DEF Hollow
<1>6. Fits(b, 0)
  BY <1>2, <1>3, <1>4, <1>5 DEF Fits, Laid
<1>7. Write(b, Tag("open", "voice")) \in Aside(b)
  BY Literals, AsideTag
<1>8. Fits(Write(b, Tag("open", "voice")), 0)
  BY <1>6, <1>7, FitsAside
<1> QED
  BY <1>1, <1>6, <1>8 DEF Begin

\* The list of offsets that BuildSSML makes is in order and leads, from the
\* cells of every character of the text, to the place of that character, and
\* from the last of them to the place behind it, whatever is written around
\* and in between; for any document whose fragments follow each other in the
\* text and for any voice (TTSEngine.cpp 805-1135).
THEOREM BuildSSMLLocated ==
  ASSUME NEW doc \in Seq(Fragments), Separate(doc), NEW isOnline \in BOOLEAN, NEW isEdge \in BOOLEAN
  PROVE  LET b == BuildSSML(doc, isOnline, isEdge)
         IN  /\ Located(b.ssml, b.mappings)
             /\ \E n \in EndsUpTo(doc, Len(doc)) : Before(b.ssml, b.mappings, n)
<1>1. PICK n \in Nat : n = Len(doc)
  OBVIOUS
<1>2. PICK f \in [0 .. n -> Builders] :
        /\ f[0] = Begin(isOnline, isEdge) /\ \A i \in 1 .. n : f[i] = AddFragment(f[i - 1], doc, i)
        /\ BuildSSML(doc, isOnline, isEdge) =
             Write(f[n], (IF isOnline THEN Tag("close", "voice") ELSE <<>>) \o Tag("close", "speak"))
  BY <1>1, BuildSSMLIs
<1> DEFINE S == {i \in 0 .. n : \E e \in EndsUpTo(doc, i) : Fits(f[i], e)}
<1>3. 0 \in S
  <2>1. 0 \in EndsUpTo(doc, 0) /\ 0 \in 0 .. n
    BY DEF EndsUpTo
  <2> QED
    BY <1>2, <2>1, BlankFits
<1>4. ASSUME NEW i \in 0 .. n - 1, i \in S PROVE i + 1 \in S
  <2>1. /\ i + 1 \in 1 .. Len(doc) /\ i + 1 \in 0 .. n /\ (i + 1) - 1 = i /\ i \in 0 .. Len(doc)
        /\ i + 1 > i /\ i < Len(doc)
    BY <1>1
  <2>2. f[i + 1] = AddFragment(f[i], doc, i + 1)
    BY <1>1, <1>2, <2>1
  <2>3. PICK e \in EndsUpTo(doc, i) : Fits(f[i], e)
    BY <1>4
  <2>4. e \in Nat /\ (Speakable(doc[i + 1]) => e <= doc[i + 1].at)
        /\ After(doc[i + 1], e) \in EndsUpTo(doc, i + 1)
    BY <2>1, EndsAre
  <2>5. Fits(f[i + 1], After(doc[i + 1], e))
    BY <2>1, <2>2, <2>3, <2>4, AddFragmentFits
  <2> QED
    BY <2>1, <2>4, <2>5
<1>5. \A i \in 0 .. n : i \in S
  <2> HIDE DEF S
  <2> QED
    BY <1>3, <1>4, Induct
<1>6. PICK e \in EndsUpTo(doc, Len(doc)) : Fits(f[n], e)
  BY <1>1, <1>5
<1>7. (IF isOnline THEN Tag("close", "voice") ELSE <<>>) \o Tag("close", "speak") \in Hollow
  <2>1. Tag("close", "voice") \in Hollow /\ Tag("close", "speak") \in Hollow
    BY Literals, HollowTag
  <2> QED
    BY <2>1, HollowNone, HollowBoth
<1>8. BuildSSML(doc, isOnline, isEdge) \in Aside(f[n])
  BY <1>2, <1>6, <1>7, AsideWrite DEF Fits, Laid
<1>9. e \in Nat
  <2>1. Len(doc) \in 0 .. Len(doc)
    OBVIOUS
  <2> QED
    BY <2>1, EndsAre
<1>10. Fits(BuildSSML(doc, isOnline, isEdge), e)
  BY <1>6, <1>8, <1>9, FitsAside
<1> QED
  BY <1>10 DEF Fits, Laid

-----------------------------------------------------------------------------
(***************************************************************************)
(* MapTextOffset, for offsets that rise as BuildSSML's do.                 *)
(***************************************************************************)
Sorted(M) ==
    \A k, l \in 1 .. Len(M) : k < l => M[k].ssml <= M[l].ssml /\ M[k].sapi <= M[l].sapi

LEMMA EntryTypes ==
  ASSUME NEW M \in Seq(Entries)
  PROVE  \A k \in 1 .. Len(M) : M[k].ssml \in Int /\ M[k].sapi \in Int
<1>1. \A k \in 1 .. Len(M) : M[k] \in Entries
  OBVIOUS
<1> QED
  BY <1>1 DEF Entries

\* The last entry at or before an offset.
IsLast(M, k, o) ==
    k \in 1 .. Len(M) /\ M[k].ssml <= o /\ \A l \in 1 .. Len(M) : l > k => M[l].ssml > o

LEMMA AdvanceReaches ==
  ASSUME NEW M \in Seq(Entries), Sorted(M), NEW i \in 1 .. Len(M), NEW o \in Int, M[i].ssml <= o
  PROVE  IsLast(M, Advance(M, i, o), o) /\ Advance(M, i, o) >= i
<1>1. PICK n \in Nat : n = Len(M)
  OBVIOUS
<1>2. \A k \in 1 .. n : M[k].ssml \in Int
  BY <1>1, EntryTypes
<1> DEFINE J == {j \in i .. n : \A k \in i + 1 .. j : o >= M[k].ssml}
<1>3. i \in J /\ J \subseteq 0 .. n
  BY <1>1
<1>4. PICK m : m = Advance(M, i, o) /\ m \in J /\ \A y \in J : y <= m
  <2>1. Advance(M, i, o) = Max(J)
    BY <1>1 DEF Advance
  <2> HIDE DEF J
  <2> QED
    BY <1>3, <2>1, Largest
<1>5. m \in i .. n /\ m \in 1 .. n /\ \A k \in i + 1 .. m : o >= M[k].ssml
  BY <1>1, <1>4
<1>6. M[m].ssml <= o
  <2>1. CASE m = i
    BY <2>1
  <2>2. CASE m # i
    <3>1. m \in i + 1 .. m
      BY <1>5, <2>2
    <3> QED
      BY <1>2, <1>5, <3>1
  <2> QED
    BY <2>1, <2>2
<1>7. ASSUME NEW l \in 1 .. n, l > m PROVE M[l].ssml > o
  <2> SUFFICES ASSUME M[l].ssml <= o PROVE FALSE
    BY <1>2
  <2>1. m + 1 \in i .. n /\ m + 1 \in 1 .. n /\ m + 1 <= l
    BY <1>5, <1>7
  <2>2. M[m + 1].ssml <= o
    <3>1. CASE m + 1 = l
      BY <3>1
    <3>2. CASE m + 1 < l
      <4>1. M[m + 1].ssml <= M[l].ssml
        BY <1>1, <2>1, <3>2 DEF Sorted
      <4> QED
        BY <1>2, <2>1, <4>1
    <3> QED
      BY <2>1, <3>1, <3>2
  <2>3. \A k \in i + 1 .. m + 1 : k \in i + 1 .. m \/ k = m + 1
    BY <1>5
  <2>4. o >= M[m + 1].ssml
    BY <1>2, <2>1, <2>2
  <2>5. m + 1 \in J
    BY <1>5, <2>1, <2>3, <2>4
  <2>6. ~(m + 1 <= m)
    BY <1>5
  <2> HIDE DEF J
  <2> QED
    BY <1>4, <2>5, <2>6
<1> QED
  BY <1>1, <1>4, <1>5, <1>6, <1>7 DEF IsLast

LEMMA LastIsOne ==
  ASSUME NEW M \in Seq(Entries), NEW o \in Int, NEW k, NEW l, IsLast(M, k, o), IsLast(M, l, o)
  PROVE  k = l
<1>1. M[k].ssml \in Int /\ M[l].ssml \in Int /\ k \in Nat /\ l \in Nat
  BY EntryTypes DEF IsLast
<1> QED
  BY <1>1 DEF IsLast

\* Back over the entries of one offset of the SSML, as long as they end after L.
Backs(M, K, L) ==
    {j \in 1 .. K : \A k \in j + 1 .. K : M[k - 1].ssml = M[k].ssml /\ M[k - 1].sapi >= L}

LEMMA BacksTo ==
  ASSUME NEW M \in Seq(Entries), Sorted(M), NEW K \in 1 .. Len(M), NEW L \in Int
  PROVE  LET e == Min(Backs(M, K, L))
         IN  /\ e \in 1 .. K /\ M[e].ssml = M[K].ssml /\ (e < K => M[e].sapi >= L)
             /\ \A j \in 1 .. K : M[j].ssml = M[K].ssml /\ M[j].sapi >= L => e <= j
<1>1. PICK n \in Nat : n = Len(M)
  OBVIOUS
<1>2. \A k \in 1 .. n : M[k].ssml \in Int /\ M[k].sapi \in Int
  BY <1>1, EntryTypes
<1>3. \A j \in 1 .. K : j \in 1 .. n
  BY <1>1
<1>4. K \in Backs(M, K, L)
  <2>1. K \in 1 .. K /\ \A k \in K + 1 .. K : FALSE
    OBVIOUS
  <2> QED
    BY <2>1 DEF Backs
<1>5. PICK e : e = Min(Backs(M, K, L)) /\ e \in Backs(M, K, L) /\ \A y \in Backs(M, K, L) : e <= y
  <2>1. Backs(M, K, L) \subseteq Nat
    BY DEF Backs
  <2> QED
    BY <1>4, <2>1, Smallest
<1>6. e \in 1 .. K /\ \A k \in e + 1 .. K : M[k - 1].ssml = M[k].ssml /\ M[k - 1].sapi >= L
  BY <1>5 DEF Backs
<1>7. M[e].ssml = M[K].ssml
  <2> DEFINE S == {k \in e .. K : M[k].ssml = M[K].ssml}
  <2>1. K \in S /\ S \subseteq Nat
    BY <1>6
  <2>2. PICK k \in S : \A y \in S : k <= y
    <3> HIDE DEF S
    <3> QED
      BY <2>1, Smallest
  <2>3. k = e
    <3> SUFFICES ASSUME k # e PROVE FALSE
      OBVIOUS
    <3>1. k \in e + 1 .. K /\ k - 1 \in e .. K /\ ~(k <= k - 1)
      BY <1>6, <2>2
    <3>2. M[k - 1].ssml = M[K].ssml
      BY <1>6, <2>2, <3>1
    <3>3. k - 1 \in S
      BY <3>1, <3>2
    <3> QED
      BY <2>2, <3>1, <3>3
  <2> QED
    BY <2>2, <2>3
<1>8. ASSUME e < K PROVE M[e].sapi >= L
  <2>1. e + 1 \in e + 1 .. K /\ (e + 1) - 1 = e
    BY <1>6, <1>8
  <2> QED
    BY <1>6, <2>1
<1>9. ASSUME NEW j \in 1 .. K, M[j].ssml = M[K].ssml, M[j].sapi >= L PROVE e <= j
  <2>1. ASSUME NEW k \in j + 1 .. K PROVE M[k - 1].ssml = M[k].ssml /\ M[k - 1].sapi >= L
    <3>1. k \in 1 .. n /\ k - 1 \in 1 .. n /\ j \in 1 .. n /\ K \in 1 .. n
      BY <1>1, <1>3
    <3>2. ASSUME NEW l \in j .. K PROVE M[l].ssml = M[j].ssml /\ M[l].sapi >= M[j].sapi
      <4>1. l \in 1 .. n
        BY <1>1
      <4>2. j < l => M[j].ssml <= M[l].ssml /\ M[j].sapi <= M[l].sapi
        BY <1>1, <3>1, <4>1 DEF Sorted
      <4>3. l < K => M[l].ssml <= M[K].ssml
        BY <1>1, <3>1, <4>1 DEF Sorted
      <4>4. (j = l \/ j < l) /\ (l = K \/ l < K)
        OBVIOUS
      <4> QED
        BY <1>2, <1>9, <3>1, <4>1, <4>2, <4>3, <4>4
    <3>3. k \in j .. K /\ k - 1 \in j .. K
      OBVIOUS
    <3>4. M[k].ssml = M[j].ssml /\ M[k - 1].ssml = M[j].ssml /\ M[k - 1].sapi >= M[j].sapi
      BY <3>2, <3>3
    <3> QED
      BY <1>2, <1>9, <3>1, <3>4
  <2>2. j \in Backs(M, K, L)
    BY <2>1 DEF Backs
  <2> QED
    BY <1>5, <2>2
<1> QED
  BY <1>5, <1>6, <1>7, <1>8, <1>9

\* 1210 counts the length of a range in the SSML as one in the text: the range
\* is too long to leave other text out that begins at its end ...
Passes(M, first, last, a, z) ==
    /\ last - first + 1 > z - a
    /\ \E k \in 1 .. Len(M) : M[k].ssml = last /\ M[k].sapi > z
\* ... or too short to tell the two entries at one offset inside it apart.
Misses(M, first, last, a) ==
    \E j, k \in 1 .. Len(M) :
       /\ M[k].ssml < last /\ \A l \in 1 .. Len(M) : l > k => M[l].ssml > last
       /\ M[j].ssml = M[k].ssml /\ M[j].sapi < M[k].sapi
       /\ M[j].sapi >= a + (last - first + 1)

\* Entries lead to text and none beyond what a ULONG counts.
Counted(M, bound) ==
    \A k \in 1 .. Len(M) : M[k].ssml >= 0 /\ M[k].sapi >= 0 /\ M[k].sapi + bound < 65536

\* The entries for the first and the last cell of a range.
FirstAt(M, first, a, k) ==
    /\ k \in 1 .. Len(M) /\ M[k].ssml < first
    /\ \A l \in 1 .. Len(M) : l > k => M[l].ssml >= first
    /\ M[k].sapi + (first - 1 - M[k].ssml) = a
LastAt(M, last, z, k) ==
    /\ k \in 1 .. Len(M) /\ M[k].sapi + (last - M[k].ssml) = z
    /\ \/ M[k].ssml = last /\ \A l \in 1 .. Len(M) : l < k => M[l].ssml < last
       \/ M[k].ssml < last /\ \A l \in 1 .. Len(M) : l > k => M[l].ssml > last

LEMMA ULongSmall == \A x \in Nat : x < 65536 => ULong(x) = x
<1> SUFFICES ASSUME NEW x \in Nat, x < 65536 PROVE ULong(x) = x
  OBVIOUS
<1>2. x % 65536 = x
  OBVIOUS
<1> QED
  BY <1>2 DEF ULong

\* What is known of a range of the SSML that MapTextOffset is asked about
Asked(M, idx, first, last, a, z) ==
    /\ M \in Seq(Entries) /\ Sorted(M) /\ idx \in 1 .. Len(M)
    /\ first \in Nat /\ last \in Nat /\ 0 < first /\ first <= last
    /\ a \in Nat /\ z \in Nat /\ a < z /\ Counted(M, last) /\ a + last < 65536

\* Where MapTextOffset begins is where the first cell was written for, however
\* long the range is said to be.
LEMMA StartShape ==
  ASSUME NEW M, NEW idx, NEW first, NEW last, NEW a, NEW z, Asked(M, idx, first, last, a, z),
         NEW k1, FirstAt(M, first, a, k1)
  PROVE  /\ Advance(M, IF M[idx].ssml > first - 1 THEN 1 ELSE idx, first - 1) = k1
         /\ ~(M[k1].ssml > M[k1].sapi /\ first - 1 < M[k1].ssml - M[k1].sapi)
         /\ ULong((first - 1) - M[k1].ssml + M[k1].sapi) = a
<1>0. /\ M \in Seq(Entries) /\ Sorted(M) /\ idx \in 1 .. Len(M)
      /\ first \in Nat /\ last \in Nat /\ 0 < first /\ first <= last
      /\ a \in Nat /\ z \in Nat /\ a < z /\ Counted(M, last) /\ a + last < 65536
  BY DEF Asked
<1> USE <1>0
<1> DEFINE start == IF M[idx].ssml > first - 1 THEN 1 ELSE idx
<1>1. PICK n \in Nat : n = Len(M) /\ n >= 1
  OBVIOUS
<1>2. \A k \in 1 .. n : M[k].ssml \in Int /\ M[k].sapi \in Int
  BY <1>1, EntryTypes
<1>3. IsLast(M, k1, first - 1) /\ k1 \in 1 .. n
  BY <1>1, <1>2 DEF FirstAt, IsLast
<1>4. start \in 1 .. n /\ M[start].ssml <= first - 1
  <2>1. CASE M[idx].ssml > first - 1
    <3>1. 1 \in 1 .. n /\ (k1 = 1 \/ 1 < k1)
      BY <1>1, <1>3
    <3>2. M[1].ssml <= M[k1].ssml
      BY <1>1, <1>2, <1>3, <3>1 DEF Sorted
    <3> QED
      BY <1>2, <1>3, <2>1, <3>1, <3>2 DEF IsLast
  <2>2. CASE ~(M[idx].ssml > first - 1)
    BY <1>1, <1>2, <2>2
  <2> QED
    BY <2>1, <2>2
<1>5. Advance(M, start, first - 1) = k1
  <2>1. start \in 1 .. Len(M) /\ first - 1 \in Int
    BY <1>1, <1>4
  <2> HIDE DEF start
  <2>2. IsLast(M, Advance(M, start, first - 1), first - 1)
    BY <1>4, <2>1, AdvanceReaches
  <2> QED
    BY <1>3, <2>1, <2>2, LastIsOne
<1>6. /\ ~(M[k1].ssml > M[k1].sapi /\ first - 1 < M[k1].ssml - M[k1].sapi)
      /\ (first - 1) - M[k1].ssml + M[k1].sapi = a
  <2>1. M[k1].ssml >= 0 /\ M[k1].sapi >= 0 /\ M[k1].sapi + last < 65536
    BY <1>1, <1>3 DEF Counted
  <2>2. M[k1].ssml < first /\ M[k1].sapi + (first - 1 - M[k1].ssml) = a
    BY DEF FirstAt
  <2>3. M[k1].ssml \in Int /\ M[k1].sapi \in Int
    BY <1>2, <1>3
  <2>4. \A x, y \in Int :
           x >= 0 /\ y >= 0 /\ y + last < 65536 /\ x < first /\ y + (first - 1 - x) = a =>
              ~(x > y /\ first - 1 < x - y) /\ (first - 1) - x + y = a
    OBVIOUS
  <2> QED
    BY ONLY <2>1, <2>2, <2>3, <2>4
<1>7. ULong(a) = a
  <2>1. a < 65536
    BY ONLY <1>0
  <2> QED
    BY <2>1, ULongSmall
<1> QED
  BY ONLY <1>5, <1>6, <1>7 DEF start

LEMMA StartMapped ==
  ASSUME NEW M, NEW idx, NEW first, NEW last, NEW a, NEW z, Asked(M, idx, first, last, a, z),
         NEW k1, FirstAt(M, first, a, k1), NEW n
  PROVE  MapTextOffset(M, idx, first - 1, n).offset = a
<1>1. /\ Advance(M, IF M[idx].ssml > first - 1 THEN 1 ELSE idx, first - 1) = k1
      /\ ~(M[k1].ssml > M[k1].sapi /\ first - 1 < M[k1].ssml - M[k1].sapi)
      /\ ULong((first - 1) - M[k1].ssml + M[k1].sapi) = a
  BY ONLY StartShape, Asked(M, idx, first, last, a, z), FirstAt(M, first, a, k1)
<1>2. M # <<>>
  BY DEF Asked
<1>3. \E y : MapTextOffset(M, idx, first - 1, n) = [index |-> k1, offset |-> a, length |-> y]
  BY ONLY <1>1, <1>2 DEF MapTextOffset
<1> QED
  BY ONLY <1>3

\* MapTextOffset, with the entries it finds.
LEMMA RangeShape ==
  ASSUME NEW M, NEW idx, NEW first, NEW last, NEW a, NEW z, Asked(M, idx, first, last, a, z),
         NEW k1, FirstAt(M, first, a, k1)
  PROVE  \E K, e : LET r == MapTextOffset(M, idx, first - 1, last - first + 1)
                       L == a + (last - first + 1)
                   IN  /\ IsLast(M, K, last) /\ K >= k1 /\ e \in 1 .. K /\ M[e].ssml = M[K].ssml
                       /\ e < K => M[e].sapi >= L
                       /\ \A j \in 1 .. K : M[j].ssml = M[K].ssml /\ M[j].sapi >= L => e <= j
                       /\ r.offset = a
                       /\ r.length = IF e <= k1 THEN last - first + 1
                                     ELSE ULong(last - M[e].ssml + M[e].sapi - a)
<1>0. /\ M \in Seq(Entries) /\ Sorted(M) /\ idx \in 1 .. Len(M)
      /\ first \in Nat /\ last \in Nat /\ 0 < first /\ first <= last
      /\ a \in Nat /\ z \in Nat /\ a < z /\ Counted(M, last) /\ a + last < 65536
  BY DEF Asked
<1> USE <1>0
<1> DEFINE start == IF M[idx].ssml > first - 1 THEN 1 ELSE idx
<1>a. PICK L : L = a + (last - first + 1)
  OBVIOUS
<1>b. PICK K : K = Advance(M, k1, last)
  OBVIOUS
<1>c. PICK e : e = Min(Backs(M, K, L))
  OBVIOUS
<1>1. PICK n \in Nat : n = Len(M) /\ n >= 1
  OBVIOUS
<1>2. \A k \in 1 .. n : M[k].ssml \in Int /\ M[k].sapi \in Int
  BY <1>1, EntryTypes
<1>3. IsLast(M, k1, first - 1) /\ k1 \in 1 .. n
  BY <1>1, <1>2 DEF FirstAt, IsLast
<1>5. Advance(M, start, first - 1) = k1
  BY ONLY StartShape, Asked(M, idx, first, last, a, z), FirstAt(M, first, a, k1)
<1>6. IsLast(M, K, last) /\ K >= k1
  <2>1. k1 \in 1 .. Len(M) /\ M[k1].ssml <= last /\ last \in Int
    BY <1>1, <1>2, <1>3 DEF IsLast
  <2>2. M \in Seq(Entries) /\ Sorted(M)
    BY ONLY <1>0
  <2> QED
    BY ONLY <1>b, <2>1, <2>2, AdvanceReaches
<1>7. K \in 1 .. Len(M) /\ L \in Int
  BY <1>a, <1>6 DEF IsLast
<1>8. /\ e \in 1 .. K /\ M[e].ssml = M[K].ssml /\ (e < K => M[e].sapi >= L)
      /\ \A j \in 1 .. K : M[j].ssml = M[K].ssml /\ M[j].sapi >= L => e <= j
  <2>1. M \in Seq(Entries) /\ Sorted(M)
    BY ONLY <1>0
  <2> QED
    BY ONLY <1>7, <1>c, <2>1, BacksTo
<1>4. /\ ~(M[k1].ssml > M[k1].sapi /\ first - 1 < M[k1].ssml - M[k1].sapi)
      /\ ULong((first - 1) - M[k1].ssml + M[k1].sapi) = a
  BY ONLY StartShape, Asked(M, idx, first, last, a, z), FirstAt(M, first, a, k1)
<1>9. /\ (first - 1) + (last - first + 1) = last /\ last < 65536 /\ L \in Nat /\ L < 65536
  BY ONLY <1>0, <1>a
<1>10. ULong(last) = last /\ ULong(L) = L
  BY <1>9, ULongSmall
<1>11. M # <<>>
  BY <1>1
<1>12. LET r == MapTextOffset(M, idx, first - 1, last - first + 1)
       IN  /\ r.offset = a
           /\ r.length = IF e <= k1 THEN last - first + 1
                         ELSE ULong(last - M[e].ssml + M[e].sapi - a)
  <2> DEFINE sapi == IF M[k1].ssml > M[k1].sapi /\ first - 1 < M[k1].ssml - M[k1].sapi THEN 0
                     ELSE ULong((first - 1) - M[k1].ssml + M[k1].sapi)
             end  == ULong((first - 1) + (last - first + 1))
  <2>1. sapi = a /\ end = last
    <3>1. end = last
      BY ONLY <1>9, <1>10
    <3> QED
      BY ONLY <1>4, <3>1
  <2>2. ULong(sapi + (last - first + 1)) = L
    BY ONLY <1>10, <1>a, <2>1
  <2> HIDE DEF sapi, end, start
  <2> DEFINE KK == Advance(M, k1, end)
             Back(j) == \A k \in j + 1 .. KK :
                           /\ M[k - 1].ssml = M[k].ssml
                           /\ M[k - 1].sapi >= ULong(sapi + (last - first + 1))
             ee == Min({j \in 1 .. KK : Back(j)})
  <2>3. KK = K
    BY ONLY <1>b, <2>1
  <2>4. ee = e
    <3>1. {j \in 1 .. KK : Back(j)} = Backs(M, K, L)
      BY ONLY <2>2, <2>3 DEF Backs
    <3> QED
      BY ONLY <1>c, <3>1
  <2>5. MapTextOffset(M, idx, first - 1, last - first + 1) =
           [index |-> k1, offset |-> sapi,
            length |-> IF ee <= k1 THEN last - first + 1
                       ELSE ULong(end - M[ee].ssml + M[ee].sapi - sapi)]
    BY ONLY <1>5, <1>11 DEF MapTextOffset, start, sapi, end
  <2> HIDE DEF ee
  <2> QED
    BY ONLY <2>1, <2>4, <2>5
<1>13. LET r == MapTextOffset(M, idx, first - 1, last - first + 1)
       IN  /\ IsLast(M, K, last) /\ K >= k1 /\ e \in 1 .. K /\ M[e].ssml = M[K].ssml
           /\ e < K => M[e].sapi >= a + (last - first + 1)
           /\ \A j \in 1 .. K : M[j].ssml = M[K].ssml /\ M[j].sapi >= a + (last - first + 1) => e <= j
           /\ r.offset = a
           /\ r.length = IF e <= k1 THEN last - first + 1
                         ELSE ULong(last - M[e].ssml + M[e].sapi - a)
  BY ONLY <1>a, <1>6, <1>8, <1>12
<1> QED
  BY ONLY <1>13, Zenon

\* The offsets of a list in the SSML or in the text.
Rises(f, n) == \A i, j \in 1 .. n : i < j => f[i] <= f[j]
LastTo(f, n, k, o) == f[k] <= o /\ \A l \in 1 .. n : l > k => f[l] > o
Ahead(f, n, m, o) == f[m] = o /\ \A l \in 1 .. n : l < m => f[l] < o
BackTo(s, t, K, e, L) ==
    /\ e \in 1 .. K /\ s[e] = s[K] /\ (e < K => t[e] >= L)
    /\ \A j \in 1 .. K : s[j] = s[K] /\ t[j] >= L => e <= j
Found(s, t, n, K, e, last, L) ==
    /\ n \in Nat /\ s \in [1 .. n -> Int] /\ t \in [1 .. n -> Int] /\ Rises(s, n) /\ Rises(t, n)
    /\ K \in 1 .. n /\ e \in 1 .. n /\ last \in Int /\ L \in Int
    /\ LastTo(s, n, K, last) /\ BackTo(s, t, K, e, L)
Exceeds(s, t, n, last, z) == \E k \in 1 .. n : s[k] = last /\ t[k] > z
Falls(s, t, n, last, L) ==
    \E j, k \in 1 .. n : s[k] < last /\ LastTo(s, n, k, last) /\ s[j] = s[k] /\ t[j] < t[k] /\ t[j] >= L

LEMMA RisesTo ==
  ASSUME NEW n \in Nat, NEW f \in [1 .. n -> Int], Rises(f, n), NEW i \in 1 .. n, NEW j \in 1 .. n, i <= j
  PROVE  f[i] <= f[j]
<1>1. CASE i = j
  BY <1>1
<1>2. CASE i < j
  BY <1>2 DEF Rises
<1> QED
  BY <1>1, <1>2

LEMMA OneLast ==
  ASSUME NEW n \in Nat, NEW f \in [1 .. n -> Int], NEW o \in Int, NEW k \in 1 .. n, NEW l \in 1 .. n,
         LastTo(f, n, k, o), LastTo(f, n, l, o)
  PROVE  k = l
<1>1. ~(k < l) /\ ~(l < k)
  BY DEF LastTo
<1> QED
  BY <1>1

\* The end of a range that ends with a piece of text.
LEMMA RangeEndsAt ==
  ASSUME NEW s, NEW t, NEW n, NEW K, NEW e, NEW last, NEW L, Found(s, t, n, K, e, last, L),
         NEW m \in 1 .. n, NEW z \in Int,
         Ahead(s, n, m, last), t[m] = z
  PROVE  /\ e >= m /\ s[e] = last /\ t[e] >= z
         /\ ~Falls(s, t, n, last, L)
         /\ IF L > z /\ Exceeds(s, t, n, last, z) THEN t[e] > z ELSE t[e] = z
<1>0. /\ n \in Nat /\ s \in [1 .. n -> Int] /\ t \in [1 .. n -> Int] /\ Rises(s, n) /\ Rises(t, n)
      /\ K \in 1 .. n /\ e \in 1 .. n /\ last \in Int /\ L \in Int
      /\ LastTo(s, n, K, last) /\ BackTo(s, t, K, e, L)
  BY DEF Found
<1>a. s[m] = last /\ \A l \in 1 .. n : l < m => s[l] < last
  BY <1>0 DEF Ahead
<1>1. m <= K
  BY <1>0, <1>a DEF LastTo
<1>2. s[K] = last
  <2>1. s[m] <= s[K]
    BY <1>0, <1>1, RisesTo
  <2> QED
    BY <1>0, <1>a, <2>1 DEF LastTo
<1>3. e <= K /\ s[e] = last
  BY <1>0, <1>2 DEF BackTo
<1>4. e >= m
  <2>1. ~(e < m)
    BY <1>0, <1>3, <1>a
  <2> QED
    BY <1>0, <2>1
<1>5. t[e] >= z
  <2>1. t[m] <= t[e]
    BY <1>0, <1>4, RisesTo
  <2> QED
    BY <1>0, <2>1
<1>6. ~Falls(s, t, n, last, L)
  <2> SUFFICES ASSUME NEW k \in 1 .. n, s[k] < last, LastTo(s, n, k, last) PROVE FALSE
    BY <1>0 DEF Falls
  <2>1. k = K
    BY <1>0, OneLast
  <2> QED
    BY <1>0, <1>2, <2>1
<1>7. CASE z >= L
  <2>1. e <= m
    BY <1>0, <1>1, <1>2, <1>7, <1>a DEF BackTo
  <2>2. e = m
    BY <1>0, <1>4, <2>1
  <2> QED
    BY <1>0, <1>3, <1>4, <1>5, <1>6, <1>7, <2>2
<1>8. CASE z < L /\ Exceeds(s, t, n, last, z)
  <2>1. PICK k \in 1 .. n : s[k] = last /\ t[k] > z
    BY <1>0, <1>8 DEF Exceeds
  <2>2. k <= K
    <3>1. ~(k > K)
      BY <1>0, <2>1 DEF LastTo
    <3> QED
      BY <1>0, <3>1
  <2>3. t[K] > z
    <3>1. t[k] <= t[K]
      BY <1>0, <2>2, RisesTo
    <3> QED
      BY <1>0, <2>1, <3>1
  <2>4. CASE e = K
    BY <1>0, <1>3, <1>4, <1>5, <1>6, <1>8, <2>3, <2>4
  <2>5. CASE e < K
    <3>1. t[e] >= L
      BY <1>0, <2>5 DEF BackTo
    <3>2. t[e] > z
      BY <1>0, <1>8, <3>1
    <3> QED
      BY <1>0, <1>3, <1>4, <1>5, <1>6, <1>8, <3>2
  <2> QED
    BY <1>0, <1>3, <2>4, <2>5
<1>9. CASE z < L /\ ~Exceeds(s, t, n, last, z)
  <2>1. ~(t[e] > z)
    BY <1>0, <1>3, <1>9 DEF Exceeds
  <2>2. t[e] = z
    BY <1>0, <1>5, <2>1
  <2> QED
    BY <1>0, <1>3, <1>4, <1>6, <1>9, <2>2
<1> QED
  BY <1>0, <1>7, <1>8, <1>9

\* The end of one that ends inside a piece of text, or right behind a tag that
\* has none.
LEMMA RangeEndsBehind ==
  ASSUME NEW s, NEW t, NEW n, NEW K, NEW e, NEW last, NEW L, Found(s, t, n, K, e, last, L),
         NEW m \in 1 .. n, NEW z \in Int,
         s[m] < last, LastTo(s, n, m, last)
  PROVE  /\ m = K /\ s[e] = s[K] /\ t[e] <= t[K] /\ (e < K => t[e] >= L)
         /\ ~Exceeds(s, t, n, last, z)
         /\ IF Falls(s, t, n, last, L) THEN t[e] < t[K] ELSE t[e] = t[K]
<1>0. /\ n \in Nat /\ s \in [1 .. n -> Int] /\ t \in [1 .. n -> Int] /\ Rises(s, n) /\ Rises(t, n)
      /\ K \in 1 .. n /\ e \in 1 .. n /\ last \in Int /\ L \in Int
      /\ LastTo(s, n, K, last) /\ BackTo(s, t, K, e, L)
  BY DEF Found
<1>1. m = K
  BY <1>0, OneLast
<1>2. e <= K /\ s[e] = s[K] /\ (e < K => t[e] >= L)
  BY <1>0 DEF BackTo
<1>3. t[e] <= t[K]
  BY <1>0, <1>2, RisesTo
<1>4. ~Exceeds(s, t, n, last, z)
  <2> SUFFICES ASSUME NEW k \in 1 .. n, s[k] = last PROVE FALSE
    BY <1>0 DEF Exceeds
  <2>1. ~(k > m)
    <3> SUFFICES ASSUME k > m PROVE FALSE
      BY <1>0
    <3>1. s[k] > last
      BY <1>0 DEF LastTo
    <3> QED
      BY <1>0, <3>1
  <2>2. s[k] <= s[m]
    <3>1. k < m \/ k = m
      BY <1>0, <2>1
    <3> QED
      BY <1>0, <3>1 DEF Rises
  <2> QED
    BY <1>0, <2>2
<1>5. CASE Falls(s, t, n, last, L)
  <2>1. PICK j \in 1 .. n, k \in 1 .. n :
           LastTo(s, n, k, last) /\ s[j] = s[k] /\ t[j] < t[k] /\ t[j] >= L
    BY <1>0, <1>5 DEF Falls
  <2>2. k = K
    BY <1>0, <2>1, OneLast
  <2>3. j < K
    <3>1. ~(K <= j)
      <4> SUFFICES ASSUME K <= j PROVE FALSE
        BY <1>0
      <4>1. t[K] <= t[j]
        BY <1>0, RisesTo
      <4> QED
        BY <1>0, <2>1, <2>2, <4>1
    <3> QED
      BY <1>0, <3>1
  <2>4. e <= j
    BY <1>0, <2>1, <2>2, <2>3 DEF BackTo
  <2>5. t[e] <= t[j]
    BY <1>0, <2>4, RisesTo
  <2>6. t[e] < t[K]
    BY <1>0, <2>1, <2>2, <2>5
  <2> QED
    BY <1>0, <1>1, <1>2, <1>3, <1>4, <1>5, <2>6
<1>6. CASE ~Falls(s, t, n, last, L)
  <2>1. ~(t[e] < t[K])
    <3> SUFFICES ASSUME t[e] < t[K] PROVE FALSE
      BY <1>0
    <3>1. e < K
      BY <1>0, <1>2
    <3> QED
      BY <1>0, <1>1, <1>2, <1>6, <3>1 DEF Falls
  <2>2. t[e] = t[K]
    BY <1>0, <1>3, <2>1
  <2> QED
    BY <1>0, <1>1, <1>2, <1>4, <1>6, <2>2
<1> QED
  BY <1>0, <1>5, <1>6

\* A list as two functions, to count with.
Apart(M, n, s, t) ==
    /\ n = Len(M) /\ s \in [1 .. n -> Int] /\ t \in [1 .. n -> Int]
    /\ \A k \in 1 .. n : s[k] = M[k].ssml /\ t[k] = M[k].sapi
FirstTo(s, t, n, first, a, k) ==
    /\ k \in 1 .. n /\ s[k] < first /\ t[k] + (first - 1 - s[k]) = a
    /\ \A l \in 1 .. n : l > k => s[l] >= first
Small(s, t, n, bound) == \A k \in 1 .. n : s[k] >= 0 /\ t[k] >= 0 /\ t[k] + bound < 65536

LEMMA ApartIs ==
  ASSUME NEW M \in Seq(Entries)
  PROVE  \E n, s, t : n \in Nat /\ Apart(M, n, s, t)
<1>1. PICK n \in Nat : n = Len(M)
  OBVIOUS
<1>2. \A k \in 1 .. n : M[k].ssml \in Int /\ M[k].sapi \in Int
  BY <1>1, EntryTypes
<1>3. PICK s : s = [k \in 1 .. n |-> M[k].ssml]
  OBVIOUS
<1>4. PICK t : t = [k \in 1 .. n |-> M[k].sapi]
  OBVIOUS
<1>5. s \in [1 .. n -> Int] /\ \A k \in 1 .. n : s[k] = M[k].ssml
  BY ONLY <1>2, <1>3
<1>6. t \in [1 .. n -> Int] /\ \A k \in 1 .. n : t[k] = M[k].sapi
  BY ONLY <1>2, <1>4
<1>7. Apart(M, n, s, t)
  BY ONLY <1>1, <1>5, <1>6 DEF Apart
<1> QED
  BY <1>7

LEMMA ApartSorted ==
  ASSUME NEW M, NEW n, NEW s, NEW t, Apart(M, n, s, t), Sorted(M)
  PROVE  Rises(s, n) /\ Rises(t, n)
BY DEF Apart, Sorted, Rises

LEMMA ApartLast ==
  ASSUME NEW M, NEW n, NEW s, NEW t, Apart(M, n, s, t), NEW k, NEW o, IsLast(M, k, o)
  PROVE  k \in 1 .. n /\ LastTo(s, n, k, o)
BY DEF Apart, IsLast, LastTo

LEMMA ApartFirst ==
  ASSUME NEW M, NEW n, NEW s, NEW t, Apart(M, n, s, t), NEW k, NEW first, NEW a, FirstAt(M, first, a, k)
  PROVE  FirstTo(s, t, n, first, a, k)
BY DEF Apart, FirstAt, FirstTo

LEMMA ApartEnd ==
  ASSUME NEW M, NEW n, NEW s, NEW t, Apart(M, n, s, t), NEW k, NEW last \in Int, NEW z, LastAt(M, last, z, k)
  PROVE  /\ k \in 1 .. n /\ t[k] + (last - s[k]) = z
         /\ \/ Ahead(s, n, k, last)
            \/ s[k] < last /\ LastTo(s, n, k, last)
<1>1. s[k] = M[k].ssml /\ t[k] = M[k].sapi /\ \A l \in 1 .. n : s[l] = M[l].ssml
  BY DEF Apart, LastAt
<1>2. CASE M[k].ssml = last /\ \A l \in 1 .. n : l < k => M[l].ssml < last
  BY <1>1, <1>2 DEF Apart, LastAt, Ahead
<1>3. CASE M[k].ssml < last /\ \A l \in 1 .. n : l > k => M[l].ssml > last
  <2>1. LastTo(s, n, k, last)
    <3>1. s[k] \in Int
      BY DEF LastAt, Apart
    <3>2. s[k] <= last
      BY ONLY <1>1, <1>3, <3>1, last \in Int
    <3>3. \A l \in 1 .. n : l > k => s[l] > last
      BY <1>1, <1>3
    <3> QED
      BY ONLY <3>2, <3>3 DEF LastTo
  <2> QED
    BY <1>1, <1>3, <2>1 DEF Apart, LastAt
<1> QED
  BY <1>2, <1>3 DEF Apart, LastAt

LEMMA ApartSmall ==
  ASSUME NEW M, NEW n, NEW s, NEW t, Apart(M, n, s, t), NEW bound, Counted(M, bound)
  PROVE  Small(s, t, n, bound)
BY DEF Apart, Counted, Small

LEMMA ApartPasses ==
  ASSUME NEW M, NEW n, NEW s, NEW t, Apart(M, n, s, t),
         NEW first \in Int, NEW last \in Int, NEW a \in Int, NEW z \in Int
  PROVE  Passes(M, first, last, a, z) <=> (a + (last - first + 1) > z /\ Exceeds(s, t, n, last, z))
<1>1. last - first + 1 > z - a <=> a + (last - first + 1) > z
  OBVIOUS
<1>2. (\E k \in 1 .. Len(M) : M[k].ssml = last /\ M[k].sapi > z) <=> Exceeds(s, t, n, last, z)
  BY DEF Apart, Exceeds
<1> QED
  BY ONLY <1>1, <1>2 DEF Passes

LEMMA ApartMisses ==
  ASSUME NEW M, NEW n, NEW s, NEW t, Apart(M, n, s, t),
         NEW first \in Int, NEW last \in Int, NEW a \in Int
  PROVE  Misses(M, first, last, a) <=> Falls(s, t, n, last, a + (last - first + 1))
<1> DEFINE L == a + (last - first + 1)
<1> HIDE DEF L
<1>1. n = Len(M) /\ s \in [1 .. n -> Int] /\ \A k \in 1 .. n : s[k] = M[k].ssml /\ t[k] = M[k].sapi
  BY DEF Apart
<1>2. ASSUME NEW j \in 1 .. n, NEW k \in 1 .. n
      PROVE  (/\ M[k].ssml < last /\ \A l \in 1 .. n : l > k => M[l].ssml > last
              /\ M[j].ssml = M[k].ssml /\ M[j].sapi < M[k].sapi /\ M[j].sapi >= L)
             <=> (s[k] < last /\ LastTo(s, n, k, last) /\ s[j] = s[k] /\ t[j] < t[k] /\ t[j] >= L)
  <2>1. s[k] < last => s[k] <= last
    BY <1>1
  <2>2. s[k] = M[k].ssml /\ t[k] = M[k].sapi /\ s[j] = M[j].ssml /\ t[j] = M[j].sapi
    BY <1>1
  <2>3. (\A l \in 1 .. n : l > k => M[l].ssml > last) <=> (\A l \in 1 .. n : l > k => s[l] > last)
    BY <1>1
  <2> QED
    BY ONLY <2>1, <2>2, <2>3 DEF LastTo
<1>3. Misses(M, first, last, a) <=>
         \E j, k \in 1 .. n : /\ M[k].ssml < last /\ \A l \in 1 .. n : l > k => M[l].ssml > last
                              /\ M[j].ssml = M[k].ssml /\ M[j].sapi < M[k].sapi /\ M[j].sapi >= L
  BY ONLY <1>1 DEF Misses, L
<1>4. Falls(s, t, n, last, L) <=>
         \E j, k \in 1 .. n : s[k] < last /\ LastTo(s, n, k, last) /\ s[j] = s[k] /\ t[j] < t[k] /\ t[j] >= L
  BY ONLY DEF Falls
<1>5. Misses(M, first, last, a) <=> Falls(s, t, n, last, L)
  BY ONLY <1>2, <1>3, <1>4
<1> QED
  BY <1>5 DEF L

\* The length MapTextOffset gives, counted.
Counts(first, last, a, z, L) ==
    /\ first \in Nat /\ last \in Nat /\ a \in Nat /\ z \in Nat /\ L \in Nat
    /\ first <= last /\ a < z /\ L = a + (last - first + 1) /\ L > a
EndTo(s, t, n, last, z, m) ==
    /\ m \in 1 .. n /\ t[m] + (last - s[m]) = z
    /\ Ahead(s, n, m, last) \/ (s[m] < last /\ LastTo(s, n, m, last))

LEMMA RangeCounted ==
  ASSUME NEW s, NEW t, NEW n, NEW K, NEW e, NEW last, NEW L, Found(s, t, n, K, e, last, L),
         NEW first, NEW a, NEW z, Counts(first, last, a, z, L),
         NEW k1, FirstTo(s, t, n, first, a, k1), k1 <= K, NEW m, EndTo(s, t, n, last, z, m)
  PROVE  LET len == IF e <= k1 THEN last - first + 1 ELSE last - s[e] + t[e] - a
         IN  /\ len > 0
             /\ IF L > z /\ Exceeds(s, t, n, last, z) THEN a + len > z
                ELSE IF Falls(s, t, n, last, L) THEN a + len < z
                ELSE a + len = z
<1> DEFINE len == IF e <= k1 THEN last - first + 1 ELSE last - s[e] + t[e] - a
           Over == L > z /\ Exceeds(s, t, n, last, z)
           Under == Falls(s, t, n, last, L)
<1>f. /\ n \in Nat /\ s \in [1 .. n -> Int] /\ t \in [1 .. n -> Int] /\ Rises(s, n) /\ Rises(t, n)
      /\ K \in 1 .. n /\ e \in 1 .. n /\ LastTo(s, n, K, last) /\ BackTo(s, t, K, e, L)
  BY DEF Found
<1>c. /\ first \in Nat /\ last \in Nat /\ a \in Nat /\ z \in Nat /\ L \in Nat
      /\ first <= last /\ a < z /\ L = a + (last - first + 1) /\ L > a
  BY DEF Counts
<1>m. /\ m \in 1 .. n /\ t[m] + (last - s[m]) = z
  BY DEF EndTo
<1>n. Ahead(s, n, m, last) \/ (s[m] < last /\ LastTo(s, n, m, last))
  BY DEF EndTo
<1>1. /\ s[k1] < first /\ t[k1] + (first - 1 - s[k1]) = a /\ k1 \in 1 .. n
      /\ \A l \in 1 .. n : l > k1 => s[l] >= first
  BY DEF FirstTo
<1>2. /\ s[e] \in Int /\ s[K] \in Int /\ t[e] \in Int /\ t[K] \in Int /\ s[m] \in Int /\ t[m] \in Int
      /\ s[k1] \in Int /\ t[k1] \in Int
  BY ONLY <1>1, <1>f, <1>m
<1>z. z \in Int
  BY <1>c
<1>3. CASE Ahead(s, n, m, last)
  <2>a. s[m] = last
    BY ONLY <1>3 DEF Ahead
  <2>1. t[m] = z
    BY ONLY <1>2, <1>c, <1>m, <2>a
  <2>2. /\ e >= m /\ s[e] = last /\ t[e] >= z /\ ~Under
        /\ IF Over THEN t[e] > z ELSE t[e] = z
    BY ONLY <1>m, <1>z, <1>3, <2>1, RangeEndsAt, Found(s, t, n, K, e, last, L)
  <2> HIDE DEF Over, Under
  <2>3. ~(m <= k1)
    <3> SUFFICES ASSUME m <= k1 PROVE FALSE
      OBVIOUS
    <3>1. s[m] <= s[k1]
      BY ONLY <1>1, <1>f, <1>m, m <= k1, RisesTo
    <3> QED
      BY ONLY <1>c, <1>1, <1>2, <2>a, <3>1
  <2>4. ~(e <= k1)
    BY ONLY <1>1, <1>f, <1>m, <2>2, <2>3
  <2>5. len = last - s[e] + t[e] - a
    BY ONLY <2>4
  <2> HIDE DEF len
  <2>6. len > 0 /\ a + len = t[e]
    BY ONLY <1>c, <1>2, <2>2, <2>5
  <2> QED
    BY ONLY <2>2, <2>6 DEF Over, Under, len
<1>4. CASE s[m] < last /\ LastTo(s, n, m, last)
  <2>1. /\ m = K /\ s[e] = s[K] /\ t[e] <= t[K] /\ (e < K => t[e] >= L)
        /\ ~Exceeds(s, t, n, last, z)
        /\ IF Under THEN t[e] < t[K] ELSE t[e] = t[K]
    BY ONLY <1>m, <1>z, <1>4, RangeEndsBehind, Found(s, t, n, K, e, last, L)
  <2>2. ~Over
    BY <2>1
  <2>3. t[K] + (last - s[K]) = z /\ t[K] < z /\ s[K] < last
    BY ONLY <1>c, <1>m, <1>2, <1>4, <2>1
  <2>4. ~Under => t[e] = t[K]
    BY ONLY <2>1
  <2>5. Under => t[e] < t[K]
    BY ONLY <2>1
  <2>6. CASE e <= k1
    <3>1. s[e] <= s[k1]
      BY ONLY <1>1, <1>f, <2>6, RisesTo
    <3>2. s[K] < first
      BY ONLY <1>c, <1>1, <1>2, <2>1, <3>1
    <3>3. K = k1
      <4>1. k1 < K => s[K] >= first
        BY ONLY <1>1, <1>f
      <4>2. ~(s[K] >= first)
        BY ONLY <1>c, <1>2, <3>2
      <4> QED
        BY ONLY <1>1, <1>f, <4>1, <4>2, k1 <= K
    <3>4. z = L
      BY ONLY <1>c, <1>1, <1>2, <2>3, <3>3
    <3>5. ~Under
      <4> SUFFICES ASSUME NEW j \in 1 .. n, NEW k \in 1 .. n, LastTo(s, n, k, last), t[j] < t[k], t[j] >= L
                   PROVE  FALSE
        BY DEF Falls
      <4>1. k = K
        <5>1. /\ s[k] <= last /\ \A l \in 1 .. n : l > k => s[l] > last
              /\ s[K] <= last /\ \A l \in 1 .. n : l > K => s[l] > last
          BY ONLY <1>f, LastTo(s, n, k, last) DEF LastTo
        <5>2. s[k] \in Int /\ s[K] \in Int /\ k \in Int /\ K \in Int
          BY ONLY <1>f, k \in 1 .. n
        <5>3. ~(k < K) /\ ~(K < k)
          BY ONLY <1>c, <1>f, <5>1, <5>2, k \in 1 .. n
        <5> QED
          BY ONLY <5>2, <5>3
      <4>2. t[j] \in Int
        BY ONLY <1>f, j \in 1 .. n
      <4>3. t[j] < t[K] /\ t[j] >= L
        BY ONLY <4>1, t[j] < t[k], t[j] >= L
      <4> QED
        BY ONLY <1>c, <1>2, <2>3, <3>4, <4>2, <4>3
    <3>6. len = last - first + 1
      BY <2>6
    <3> HIDE DEF Over, Under, len
    <3>7. len > 0 /\ a + len = z
      BY ONLY <1>c, <3>4, <3>6
    <3> QED
      BY ONLY <2>2, <3>5, <3>7 DEF Over, Under, len
  <2>7. CASE ~(e <= k1)
    <3>1. len = last - s[e] + t[e] - a
      BY ONLY <2>7
    <3> HIDE DEF Over, Under, len
    <3>2. t[e] + (last - s[e]) > a
      <4>1. CASE e = K
        BY ONLY <1>c, <1>2, <2>3, <4>1
      <4>2. CASE e < K
        <5>1. t[e] >= L
          BY ONLY <2>1, <4>2
        <5> QED
          BY ONLY <1>c, <1>2, <2>1, <2>3, <5>1
      <4>3. e <= K
        BY ONLY <1>f DEF BackTo
      <4> QED
        BY ONLY <1>f, <4>1, <4>2, <4>3
    <3>3. len > 0 /\ a + len = t[e] + (last - s[K])
      BY ONLY <1>c, <1>2, <2>1, <3>1, <3>2
    <3>4. ~Under => a + len = z
      BY ONLY <1>c, <1>2, <2>3, <2>4, <3>3
    <3>5. Under => a + len < z
      BY ONLY <1>c, <1>2, <2>3, <2>5, <3>3
    <3> QED
      BY ONLY <2>2, <3>3, <3>4, <3>5 DEF Over, Under, len
  <2> QED
    BY ONLY <2>6, <2>7
<1> QED
  BY ONLY <1>3, <1>4, <1>n

\* What MapTextOffset answers, for a range of the text from a up to z.
Answers(M, first, last, a, z, r) ==
    /\ r.offset = a /\ r.length \in Nat /\ r.length > 0
    /\ IF Passes(M, first, last, a, z) THEN r.offset + r.length > z
       ELSE IF Misses(M, first, last, a) THEN r.offset + r.length < z
       ELSE r.offset + r.length = z

\* MapTextOffset (TTSEngine.cpp 1171-1226) on a range of whole characters: it
\* begins where the first of them was written for, and it ends behind the last
\* one, but later where 1210 lets it pass over other text there and earlier
\* where 1210 makes it miss the last piece of text inside.
LEMMA RangeMapped ==
  ASSUME NEW M, NEW idx, NEW first, NEW last, NEW a, NEW z, Asked(M, idx, first, last, a, z),
         NEW k1, FirstAt(M, first, a, k1), NEW m, LastAt(M, last, z, m)
  PROVE  Answers(M, first, last, a, z, MapTextOffset(M, idx, first - 1, last - first + 1))
<1>0. /\ M \in Seq(Entries) /\ Sorted(M) /\ idx \in 1 .. Len(M)
      /\ first \in Nat /\ last \in Nat /\ 0 < first /\ first <= last
      /\ a \in Nat /\ z \in Nat /\ a < z /\ Counted(M, last) /\ a + last < 65536
  BY DEF Asked
<1> USE <1>0
<1>1. PICK n, s, t : n \in Nat /\ Apart(M, n, s, t)
  BY ApartIs
<1>2. n = Len(M) /\ s \in [1 .. n -> Int] /\ t \in [1 .. n -> Int] /\ \A k \in 1 .. n : s[k] = M[k].ssml /\ t[k] = M[k].sapi
  BY ONLY <1>1 DEF Apart
<1>3. PICK L \in Nat : L = a + (last - first + 1) /\ L > a
  OBVIOUS
<1>4. PICK r : r = MapTextOffset(M, idx, first - 1, last - first + 1)
  OBVIOUS
<1>5. PICK K, e : /\ IsLast(M, K, last) /\ K >= k1 /\ e \in 1 .. K /\ M[e].ssml = M[K].ssml
                  /\ e < K => M[e].sapi >= L
                  /\ \A j \in 1 .. K : M[j].ssml = M[K].ssml /\ M[j].sapi >= L => e <= j
                  /\ r.offset = a
                  /\ r.length = IF e <= k1 THEN last - first + 1
                                ELSE ULong(last - M[e].ssml + M[e].sapi - a)
  BY ONLY <1>3, <1>4, Asked(M, idx, first, last, a, z), FirstAt(M, first, a, k1), RangeShape
<1>6. Rises(s, n) /\ Rises(t, n)
  BY <1>1, ApartSorted
<1>7. K \in 1 .. n /\ LastTo(s, n, K, last)
  BY <1>1, <1>5, ApartLast
<1>8. k1 \in 1 .. n /\ FirstTo(s, t, n, first, a, k1)
  <2>1. FirstTo(s, t, n, first, a, k1)
    BY <1>1, ApartFirst
  <2> QED
    BY ONLY <2>1 DEF FirstTo
<1>9. e \in 1 .. n /\ k1 <= K /\ \A j \in 1 .. K : j \in 1 .. n
  BY ONLY <1>5, <1>7, <1>8, <1>1
<1>10. BackTo(s, t, K, e, L)
  <2>1. s[e] = s[K] /\ (e < K => t[e] >= L)
    BY ONLY <1>2, <1>5, <1>7, <1>9
  <2>2. \A j \in 1 .. K : s[j] = s[K] /\ t[j] >= L => e <= j
    BY ONLY <1>2, <1>5, <1>7, <1>9
  <2>3. e \in 1 .. K
    BY ONLY <1>5
  <2> QED
    BY ONLY <2>1, <2>2, <2>3 DEF BackTo
<1>11. EndTo(s, t, n, last, z, m)
  <2>1. last \in Int
    OBVIOUS
  <2> QED
    BY ONLY <1>1, <2>1, LastAt(M, last, z, m), ApartEnd DEF EndTo
<1>12. Passes(M, first, last, a, z) <=> (L > z /\ Exceeds(s, t, n, last, z))
  <2>1. first \in Int /\ last \in Int /\ a \in Int /\ z \in Int
    OBVIOUS
  <2>2. Passes(M, first, last, a, z) <=> (a + (last - first + 1) > z /\ Exceeds(s, t, n, last, z))
    BY ONLY <1>1, <2>1, ApartPasses
  <2> QED
    BY ONLY <1>3, <2>2
<1>13. Misses(M, first, last, a) <=> Falls(s, t, n, last, L)
  <2>1. first \in Int /\ last \in Int /\ a \in Int
    OBVIOUS
  <2>2. Misses(M, first, last, a) <=> Falls(s, t, n, last, a + (last - first + 1))
    BY ONLY <1>1, <2>1, ApartMisses
  <2> QED
    BY ONLY <1>3, <2>2
<1> DEFINE len == IF e <= k1 THEN last - first + 1 ELSE last - s[e] + t[e] - a
<1>a. Counts(first, last, a, z, L)
  BY <1>3 DEF Counts
<1>b. Found(s, t, n, K, e, last, L)
  BY ONLY <1>2, <1>6, <1>7, <1>9, <1>10, <1>1, last \in Nat, L \in Nat DEF Found
<1>14. /\ len > 0
       /\ IF L > z /\ Exceeds(s, t, n, last, z) THEN a + len > z
          ELSE IF Falls(s, t, n, last, L) THEN a + len < z
          ELSE a + len = z
  BY ONLY <1>8, <1>9, <1>11, <1>a, <1>b, RangeCounted
<1>15. len \in Nat /\ r.length = len
  <2>1. Small(s, t, n, last)
    BY ONLY <1>1, Counted(M, last), ApartSmall
  <2>2. s[e] >= 0 /\ t[e] + last < 65536 /\ s[e] \in Int /\ t[e] \in Int
    BY ONLY <1>2, <1>9, <2>1 DEF Small
  <2>3. s[e] = M[e].ssml /\ t[e] = M[e].sapi
    BY ONLY <1>2, <1>9
  <2>4. CASE e <= k1
    <3>1. len = last - first + 1 /\ r.length = last - first + 1
      BY ONLY <1>5, <2>4
    <3> HIDE DEF len
    <3> QED
      BY ONLY <3>1, first \in Nat, last \in Nat, first <= last
  <2>5. CASE ~(e <= k1)
    <3>1. len = last - s[e] + t[e] - a /\ r.length = ULong(last - s[e] + t[e] - a)
      BY ONLY <1>5, <2>3, <2>5
    <3>2. len > 0
      BY ONLY <1>14
    <3> HIDE DEF len
    <3>3. \A x, y \in Int : x >= 0 /\ y + last < 65536 /\ last - x + y - a > 0 =>
             last - x + y - a \in Nat /\ last - x + y - a < 65536
      BY ONLY last \in Nat, a \in Nat
    <3>4. len \in Nat /\ len < 65536
      BY ONLY <2>2, <3>1, <3>2, <3>3
    <3>5. ULong(len) = len
      BY ONLY <3>4, ULongSmall
    <3> QED
      BY ONLY <3>1, <3>4, <3>5
  <2> QED
    BY ONLY <2>4, <2>5
<1>16. r.offset = a
  BY ONLY <1>5
<1> HIDE DEF len
<1> QED
  BY ONLY <1>4, <1>12, <1>13, <1>14, <1>15, <1>16 DEF Answers

\* What MapTextOffset makes of a range [first, last]: the characters that the
\* cells were written for, unless 1210 mistakes one entry for another.
Maps(S, M, first, last, r) == Answers(M, first, last, S[first].from, S[last].from + 1, r)

\* MapTextOffset, asked for the range of an event, wherever it begins to look;
\* where the range begins, however long it is said to be.
MapsBack(S, M, e) ==
    /\ Len(M) > 0
    /\ \A idx \in 1 .. Len(M) :
         /\ Maps(S, M, e.first, e.last, MapTextOffset(M, idx, e.first - 1, e.last - e.first + 1))
         /\ \A c : MapTextOffset(M, idx, e.first - 1, c).offset = S[e.first].from

LEMMA LocatedRange ==
  ASSUME NEW S \in Seq(Cells), NEW M \in Seq(Entries), Located(S, M),
         NEW n \in Nat, Before(S, M, n), n + Len(S) < 65536, NEW e, Spans(S, e)
  PROVE  MapsBack(S, M, e)
<1>1. PICK k \in Nat, m \in Nat : k = Len(S) /\ m = Len(M)
  OBVIOUS
<1>2. PICK first \in Nat, last \in Nat :
         /\ first = e.first /\ last = e.last /\ 0 < first /\ first <= last
         /\ first \in 1 .. k /\ last \in 1 .. k /\ last <= k
  BY <1>1 DEF Spans
<1>3. Begins(S, first) /\ Finishes(S, last)
  BY <1>2 DEF Spans
<1>4. StartFound(S, M, first) /\ EndFound(S, M, last)
  BY <1>1, <1>2, <1>3 DEF Located
<1>5. \A j \in 1 .. m : M[j].ssml \in Int /\ M[j].sapi \in Int
  BY <1>1, EntryTypes
<1>6. \A j \in 1 .. m : M[j].ssml \in 0 .. k /\ M[j].sapi \in 0 .. n
  BY <1>1 DEF Located, Rising, Before
<1>7. PICK k1 \in 1 .. m : FirstAt(M, first, S[first].from, k1)
  BY <1>1, <1>4 DEF StartFound, FirstAt
<1>8. PICK l \in 1 .. m : LastAt(M, last, S[last].from + 1, l)
  BY <1>1, <1>4 DEF EndFound, LastAt
<1>9. S[first].from \in Int /\ S[last].from \in Int /\ S[first].from < n /\ S[last].from < n
  <2>1. S[first] \in Cells /\ S[last] \in Cells
    BY <1>1, <1>2
  <2>2. S[first].from \in Int /\ S[last].from \in Int
    BY <2>1 DEF Cells
  <2> QED
    BY <1>1, <1>2, <2>2 DEF Before
<1>10. S[first].from >= 0
  <2>1. M[k1].ssml < first /\ M[k1].sapi + (first - 1 - M[k1].ssml) = S[first].from
    BY <1>7 DEF FirstAt
  <2>2. M[k1].sapi \in Nat /\ M[k1].ssml \in Int
    BY <1>6
  <2>3. \A x, y, f \in Int : x < first /\ y >= 0 /\ y + (first - 1 - x) = f => f >= 0
    BY ONLY <1>2
  <2>4. M[k1].sapi \in Int /\ M[k1].sapi >= 0
    BY ONLY <2>2
  <2> QED
    BY ONLY <1>9, <2>1, <2>2, <2>3, <2>4
<1>11. S[first].from <= S[last].from
  <2>1. CASE first = last
    BY <1>9, <2>1
  <2>2. CASE first < last
    <3>1. S[first].from # NoOffset /\ S[last].from # NoOffset
      BY <1>3 DEF Begins, Finishes
    <3> QED
      BY <1>1, <1>2, <2>2, <3>1 DEF Located, InOrder
  <2> QED
    BY <1>2, <2>1, <2>2
<1>12. PICK a \in Nat, z \in Nat : /\ a = S[first].from /\ z = S[last].from + 1 /\ a < z /\ a < n
  BY ONLY <1>9, <1>10, <1>11
<1>13. a + last < 65536
  BY <1>1, <1>2, <1>12
<1>14. Counted(M, last)
  <2>1. ASSUME NEW j \in 1 .. m PROVE M[j].ssml >= 0 /\ M[j].sapi >= 0 /\ M[j].sapi + last < 65536
    <3>1. M[j].ssml >= 0 /\ M[j].sapi \in Nat /\ M[j].sapi <= n
      BY <1>6
    <3>2. n + k < 65536
      BY <1>1
    <3> QED
      BY ONLY <1>1, <1>2, <3>1, <3>2, n \in Nat
  <2> QED
    BY <1>1, <2>1 DEF Counted
<1>15. Sorted(M)
  BY <1>1 DEF Located, Rising, Sorted
<1>16. FirstAt(M, first, a, k1) /\ LastAt(M, last, z, l)
  BY ONLY <1>7, <1>8, <1>12
<1>17. ASSUME NEW idx \in 1 .. m
       PROVE  /\ Maps(S, M, first, last, MapTextOffset(M, idx, first - 1, last - first + 1))
              /\ \A c : MapTextOffset(M, idx, first - 1, c).offset = S[first].from
  <2>1. idx \in 1 .. Len(M)
    BY <1>1
  <2>2. Asked(M, idx, first, last, a, z)
    BY <1>2, <1>12, <1>13, <1>14, <1>15, <2>1 DEF Asked
  <2>3. Answers(M, first, last, a, z, MapTextOffset(M, idx, first - 1, last - first + 1))
    BY ONLY <1>16, <2>2, RangeMapped
  <2>4. \A c : MapTextOffset(M, idx, first - 1, c).offset = a
    BY ONLY <1>16, <2>2, StartMapped
  <2> QED
    BY ONLY <1>12, <2>3, <2>4 DEF Maps
<1>18. m > 0
  BY <1>7
<1> QED
  BY <1>1, <1>2, <1>17, <1>18 DEF MapsBack

\* Long before an offset no longer fits into a ULONG.
Short(doc, isOnline, isEdge) ==
    \A n \in EndsUpTo(doc, Len(doc)) : n + Len(BuildSSML(doc, isOnline, isEdge).ssml) < 65536

MapsEach(S, M, events) ==
    \A i \in 1 .. Len(events) : events[i].what # "bookmark" => MapsBack(S, M, events[i])

\* A range of whole characters in the SSML of a document, in the words of a
\* service, is mapped back to the characters of the text it was written for,
\* from the first to the last, whatever was escaped, left out, put in or tagged
\* on the way and wherever the search before it ended; but for the two mistakes
\* of line 1210, it ends right behind the last (TTSEngine.cpp 805-1226).
THEOREM RangeOfText ==
  ASSUME NEW doc \in Seq(Fragments), Separate(doc), NEW isOnline \in BOOLEAN, NEW isEdge \in BOOLEAN,
         Short(doc, isOnline, isEdge), NEW quotes, NEW split
  PROVE  LET b == BuildSSML(doc, isOnline, isEdge)
         IN  MapsEach(b.ssml, b.mappings, Script(b.ssml, quotes, split))
<1>1. PICK b \in Builders : b = BuildSSML(doc, isOnline, isEdge)
  BY BuildSSMLType
<1>2. b.ssml \in Seq(Cells) /\ b.mappings \in Seq(Entries)
  BY DEF Builders, Entries
<1>3. PICK S \in Seq(Cells), M \in Seq(Entries) : S = b.ssml /\ M = b.mappings
  BY <1>2
<1>4. Located(S, M) /\ \E n \in EndsUpTo(doc, Len(doc)) : Before(S, M, n)
  BY <1>1, <1>3, BuildSSMLLocated
<1>5. PICK n \in Nat : Before(S, M, n) /\ n + Len(S) < 65536
  <2>1. PICK n \in EndsUpTo(doc, Len(doc)) : Before(S, M, n)
    BY <1>4
  <2>2. n + Len(S) < 65536
    BY <1>1, <1>3, <2>1 DEF Short
  <2>3. n \in Nat
    <3>1. Len(doc) \in 0 .. Len(doc)
      OBVIOUS
    <3> QED
      BY <2>1, <3>1, EndsAre
  <2> QED
    BY <2>1, <2>2, <2>3
<1>6. PICK T, g : /\ Listing(S, T, g) /\ Script(S, quotes, split) = g[Len(S)]
                  /\ Whole(S) => Spanning(S, T)
  BY ScriptIs
<1>7. PICK events \in Seq(T) : events = Script(S, quotes, split)
  <2>1. Len(S) \in 0 .. Len(S)
    OBVIOUS
  <2> QED
    BY <1>6, <2>1 DEF Listing
<1>8. Spanning(S, T)
  BY <1>4, <1>6 DEF Located
<1>9. ASSUME NEW i \in 1 .. Len(events), events[i].what # "bookmark"
      PROVE  MapsBack(S, M, events[i])
  <2>1. events[i] \in T
    BY <1>7
  <2>2. Spans(S, events[i])
    BY <1>8, <1>9, <2>1 DEF Spanning
  <2> QED
    BY <1>4, <1>5, <2>2, LocatedRange
<1>10. MapsEach(S, M, events)
  BY <1>9 DEF MapsEach
<1> QED
  BY <1>1, <1>3, <1>7, <1>10
=============================================================================
