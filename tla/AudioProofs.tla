----------------------------- MODULE AudioProofs -----------------------------
(***************************************************************************)
(* For chunks of any number and length, any silence in them and any events *)
(* at any time: events come at their audio, no sound is repeated, and, as  *)
(* long as a chunk is shorter than the silence that may be held, no audio  *)
(* is lost to the optimization.                                            *)
(***************************************************************************)
EXTENDS AudioPath, FiniteSetTheorems, SequenceTheorems, WellFoundedInduction, TLAPS

LEMMA Least ==
  ASSUME NEW S, S \subseteq Nat, S # {}
  PROVE  \E x \in S : \A y \in S : x <= y
<1>1. PICK x \in S : \A y \in S : ~(<<y, x>> \in OpToRel(<, Nat))
  BY NatLessThanWellFounded, WFMin
<1>2. \A y \in S : ~(y < x)
  BY <1>1 DEF OpToRel
<1> QED
  BY <1>2

-----------------------------------------------------------------------------
(***************************************************************************)
(* OnAudioData.                                                            *)
(***************************************************************************)

\* GetTrailingSilenceLengthMono returns a length of the chunk.
LEMMA SilenceInChunk ==
  ASSUME NEW from \in Nat, NEW len \in Nat
  PROVE  TrailingSilence(from, len) \in 0 .. len
<1> DEFINE S == {k \in 0 .. len : Span(from + k, len - k) \subseteq quiet}
<1>1. len \in S
  BY DEF Span
<1>2. S \subseteq Nat
  OBVIOUS
<1>3. PICK k \in S : \A j \in S : k <= j
  BY <1>1, <1>2, Least
<1> DEFINE n == len - k
<1>4. n \in 0 .. len /\ Span(from + len - n, n) \subseteq quiet
  BY DEF Span
<1>5. n < len => (from + len - n - 1) \notin quiet
  <2> SUFFICES ASSUME k > 0, from + k - 1 \in quiet PROVE FALSE
    BY <1>3
  <2>1. Span(from + (k - 1), len - (k - 1)) \subseteq quiet
    BY <1>3 DEF Span
  <2>2. k - 1 \in S
    BY <2>1
  <2> QED
    BY <1>3, <2>2
<1> QED
  BY <1>4, <1>5 DEF TrailingSilence

\* What OnAudioData does: it holds silence or writes zeros, then blocks.
Added(zeros, data) == site' = site \o Zeros(zeros) \o Blocks(pos, data)

SiteType == site \in Seq(Int) /\ lastSilent \in Nat /\ failures \in 0 .. MaxFailures
            /\ overrun \in BOOLEAN

LEMMA NothingAdded ==
  ASSUME site \in Seq(Int)
  PROVE  site \o <<>> = site
OBVIOUS

LEMMA WritesAdd ==
  ASSUME SiteType, pos \in Nat, NEW zeros \in Nat, NEW data \in Nat, NEW len \in Nat, NEW n,
         Writes(Zeros(zeros), Blocks(pos, data), len, n)
  PROVE  /\ \E z \in {0, zeros}, d \in {0, data} : Added(z, d) /\ (d = 0 \/ n = len)
         /\ failures' \in failures .. MaxFailures /\ UNCHANGED overrun
         /\ failures' = 0 => n = len /\ Added(zeros, data)
<1>0. MaxFailures \in Nat
  BY AudioAssumption
<1>1. PICK fail \in SUBSET {"silence", "data"} :
         /\ failures' = failures + Cardinality(fail) /\ failures' <= MaxFailures
         /\ site' = site \o (IF "silence" \in fail THEN <<>> ELSE Zeros(zeros))
                         \o (IF "data" \in fail THEN <<>> ELSE Blocks(pos, data))
         /\ n = IF "data" \in fail THEN 0 ELSE len
         /\ UNCHANGED overrun
  BY DEF Writes
<1>2. IsFiniteSet({"silence", "data"})
  <2>1. IsFiniteSet({"silence"}) /\ {"silence", "data"} = {"silence"} \cup {"data"}
    BY FS_Singleton
  <2> QED
    BY <2>1, FS_AddElement
<1>3. IsFiniteSet(fail)
  BY <1>2, FS_Subset
<1>4. Cardinality(fail) \in Nat /\ (Cardinality(fail) = 0 <=> fail = {})
  BY <1>3, FS_CardinalityType, FS_EmptySet
<1>5. Zeros(0) = <<>> /\ Blocks(pos, 0) = <<>>
  BY DEF Zeros, Blocks
<1>6. Added(IF "silence" \in fail THEN 0 ELSE zeros, IF "data" \in fail THEN 0 ELSE data)
  BY <1>1, <1>5 DEF Added
<1>7. failures' \in failures .. MaxFailures /\ UNCHANGED overrun
  BY <1>0, <1>1, <1>4 DEF SiteType
<1>8. ASSUME failures' = 0 PROVE fail = {}
  BY <1>1, <1>4, <1>8 DEF SiteType
<1> QED
  BY <1>1, <1>6, <1>7, <1>8

LEMMA AudioAdds ==
  ASSUME SiteType, pos \in Nat, NEW len \in Nat, NEW n, OnAudioData(pos, len, n),
         ~Optimize => lastSilent = 0
  PROVE  /\ \E z, d \in Nat : Added(z, d) /\ d <= len /\ (d = 0 \/ n = len)
         /\ lastSilent' \in Nat /\ (~Optimize => lastSilent' = 0)
         /\ failures' \in failures .. MaxFailures /\ overrun' \in BOOLEAN /\ (overrun => overrun')
         /\ failures' = 0 => n = len
         /\ failures' = 0 /\ ~overrun' /\ len < HoldLimit =>
              \E z, d \in Nat : Added(z, d) /\ lastSilent' + z + d = lastSilent + len
<1> DEFINE silent == TrailingSilence(pos, len)
           held == IF Optimize /\ silent < len THEN silent ELSE lastSilent
<1>1. silent \in 0 .. len
  BY SilenceInChunk
<1>2. Zeros(0) = <<>> /\ Blocks(pos, 0) = <<>> /\ site \o <<>> = site
  BY NothingAdded DEF Zeros, Blocks, SiteType
<1>3. UNCHANGED site => Added(0, 0)
  BY <1>2 DEF Added
<1>4. HoldLimit \in Nat /\ MaxFailures \in Nat /\ Optimize \in BOOLEAN
  BY AudioAssumption
<1>5. CASE Optimize /\ silent = len /\ lastSilent < HoldLimit
  <2>1. Hold(len, n)
    BY <1>5 DEF OnAudioData
  <2> QED
    BY <1>3, <1>4, <1>5, <2>1 DEF Hold, SiteType
<1>6. CASE ~(Optimize /\ silent = len /\ lastSilent < HoldLimit)
  <2> DEFINE zeros == IF silent < len THEN lastSilent ELSE 0
  <2>1. Write(pos, len, held, n)
    BY <1>6 DEF OnAudioData
  <2>2. held \in Nat /\ zeros \in Nat /\ (~Optimize => held = 0)
    BY <1>1, <1>4 DEF SiteType
  <2>3. lastSilent' = held
    BY <2>1 DEF Write
  <2>4. CASE held > len
    <3>1. WrapAround(len, n)
      BY <2>1, <2>4 DEF Write
    <3> QED
      BY <1>3, <1>4, <2>2, <2>3, <3>1 DEF WrapAround, SiteType
  <2>5. CASE ~(held > len)
    <3>1. Writes(Zeros(zeros), Blocks(pos, len - held), len, n)
      BY <1>2, <2>1, <2>5 DEF Write
    <3>2. len - held \in Nat /\ len - held <= len
      BY <2>2, <2>5
    <3>3. /\ \E z \in {0, zeros}, d \in {0, len - held} : Added(z, d) /\ (d = 0 \/ n = len)
          /\ failures' \in failures .. MaxFailures /\ UNCHANGED overrun
          /\ failures' = 0 => n = len /\ Added(zeros, len - held)
      BY <2>2, <3>1, <3>2, WritesAdd
    <3>4. \E z, d \in Nat : Added(z, d) /\ d <= len /\ (d = 0 \/ n = len)
      BY <2>2, <3>2, <3>3
    <3>5. len < HoldLimit => held + zeros + (len - held) = lastSilent + len
      BY <1>1, <1>4, <1>6, <2>2, <2>5 DEF SiteType
    <3> QED
      BY <2>2, <2>3, <3>2, <3>3, <3>4, <3>5 DEF SiteType
  <2> QED
    BY <2>4, <2>5
<1> QED
  BY <1>5, <1>6

-----------------------------------------------------------------------------
(***************************************************************************)
(* The invariant.                                                          *)
(***************************************************************************)
ConstantTypes ==
  /\ ChunkCount \in Nat /\ ChunkLen \in Nat \ {0} /\ HoldLimit \in Nat
  /\ \A e \in Events : EventAt(e) \in Nat

\* What is counted is what has been passed, and the rest ends with the chunk.
Place ==
  /\ pc \in {"idle", "look", "event", "rest"} /\ chunk \in 0 .. ChunkCount
  /\ pos \in Nat /\ left \in Nat /\ counter = pos
  /\ pos + left = chunk * ChunkLen /\ left <= ChunkLen
  /\ pc = "idle" => left = 0

\* The event that has been taken is in what is left of the chunk, or before.
Taken ==
  pc = "event" => /\ current \in Events /\ EventAt(current) < pos + left
                  /\ arrived[current] # -1 /\ calledAt[current] = -1

\* An event that has arrived is in the queue, taken, or has been sent.
Kept ==
  \A e \in Events :
    /\ calledAt[e] # -1 => arrived[e] # -1
    /\ e \in pending \/ (pc = "event" /\ current = e) <=> arrived[e] # -1 /\ calledAt[e] = -1
    /\ pc = "event" => current \notin pending

\* The audio does not overtake an event that came in time; nor does an event
\* that is taken, or the end of the chunk once no more events are looked for.
Ahead ==
  \A e \in Events : Timely(e) /\ calledAt[e] = -1 =>
    /\ pos <= EventAt(e)
    /\ pc = "event" => EventAt(current) <= EventAt(e)
    /\ pc = "rest" => pos + left <= EventAt(e)

OtherTypes ==
  /\ quiet \subseteq Span(0, Total)
  /\ waited \in BOOLEAN /\ current \in Events \cup {NoEvent}
  /\ pending \subseteq Events
  /\ arrived \in [Events -> -1 .. ChunkCount] /\ calledAt \in [Events -> -1 .. Total]
  /\ SiteType /\ (~Optimize => lastSilent = 0)

\* Sound on the site is from before the position, and in order.
Behind == /\ \A i \in 1 .. Len(site) : site[i] < pos
          /\ SoundOnce

AInv == Place /\ Taken /\ Kept /\ Ahead /\ OtherTypes /\ Behind /\ EventsOnTime

LEMMA Constants == ConstantTypes
BY AudioAssumption DEF ConstantTypes

LEMMA ChunksInTotal ==
  ASSUME NEW c \in 0 .. ChunkCount
  PROVE  c * ChunkLen \in 0 .. Total
<1>1. c \in Nat /\ ChunkCount - c \in Nat /\ ChunkLen \in Nat
  BY Constants DEF ConstantTypes
<1>2. (ChunkCount - c) * ChunkLen \in Nat /\ c * ChunkLen \in Nat
  BY <1>1
<1>3. Total = c * ChunkLen + (ChunkCount - c) * ChunkLen
  BY <1>1, Constants DEF Total, ConstantTypes
<1>4. Total \in Nat
  BY <1>2, <1>3
<1> QED
  BY <1>2, <1>3, <1>4

LEMMA OneMoreChunk ==
  ASSUME NEW c \in Nat
  PROVE  (c + 1) * ChunkLen = c * ChunkLen + ChunkLen /\ c * ChunkLen \in Nat
BY Constants DEF ConstantTypes

LEMMA InvTypes == AInv => TypeOK
<1> SUFFICES ASSUME AInv PROVE TypeOK
  OBVIOUS
<1>1. pos + left \in 0 .. Total
  BY ChunksInTotal DEF AInv, Place
<1>2. /\ pos \in Nat /\ left \in Nat /\ left <= ChunkLen /\ counter = pos
      /\ pc = "idle" => pos = chunk * ChunkLen
  BY DEF AInv, Place
<1>3. pos \in 0 .. Total /\ left \in 0 .. ChunkLen
  <2> ChunkLen \in Nat /\ Total \in Int
    BY Constants DEF ConstantTypes, Total
  <2> QED
    BY <1>1, <1>2
<1> QED
  BY <1>2, <1>3 DEF AInv, Place, OtherTypes, SiteType, TypeOK

LEMMA Joined ==
  ASSUME NEW s \in Seq(Int), NEW t \in Seq(Int)
  PROVE  /\ s \o t \in Seq(Int) /\ Len(s \o t) = Len(s) + Len(t)
         /\ \A i \in 1 .. Len(s) + Len(t) :
              (s \o t)[i] = IF i <= Len(s) THEN s[i] ELSE t[i - Len(s)]
BY ConcatProperties

\* What a piece of audio adds to the site keeps the sound behind and in order.
LEMMA BehindGrows ==
  ASSUME OtherTypes, Behind, pos \in Nat, NEW z \in Nat, NEW d \in Nat, Added(z, d),
         NEW p \in Nat, pos <= p, d = 0 \/ pos + d <= p, pos' = p
  PROVE  Behind' /\ (site \in Seq(Int))' /\ Len(site') = Len(site) + z + d
<1> DEFINE zs == Zeros(z)
           bs == Blocks(pos, d)
<1>1. zs \in Seq(Int) /\ Len(zs) = z /\ \A i \in 1 .. z : zs[i] = -1
  BY DEF Zeros, Zero
<1>2. bs \in Seq(Int) /\ Len(bs) = d /\ \A i \in 1 .. d : bs[i] = pos + i - 1
  BY DEF Blocks
<1>3. site \in Seq(Int) /\ site' = (site \o zs) \o bs
  BY DEF OtherTypes, SiteType, Added
<1> HIDE DEF zs, bs
<1> DEFINE s1 == site \o zs
<1>4. /\ s1 \in Seq(Int) /\ Len(s1) = Len(site) + z /\ Len(site) \in Nat
      /\ \A i \in 1 .. Len(s1) : s1[i] = IF i <= Len(site) THEN site[i] ELSE -1
  <2>1. \A i \in 1 .. Len(s1) : s1[i] = IF i <= Len(site) THEN site[i] ELSE zs[i - Len(site)]
    BY <1>1, <1>3, Joined
  <2>2. s1 \in Seq(Int) /\ Len(s1) = Len(site) + z /\ Len(site) \in Nat
    BY <1>1, <1>3, Joined
  <2> HIDE DEF s1
  <2> QED
    BY <1>1, <2>1, <2>2
<1> HIDE DEF s1
<1>5. /\ site' \in Seq(Int) /\ Len(site') = Len(site) + z + d
      /\ \A i \in 1 .. Len(site') :
           site'[i] = IF i <= Len(s1) THEN s1[i] ELSE pos + (i - Len(s1)) - 1
  <2>0. site' = s1 \o bs
    BY <1>3 DEF s1
  <2>1. \A i \in 1 .. Len(s1) + Len(bs) :
          site'[i] = IF i <= Len(s1) THEN s1[i] ELSE bs[i - Len(s1)]
    BY <1>2, <1>4, <2>0, Joined
  <2>2. site' \in Seq(Int) /\ Len(site') = Len(site) + z + d /\ Len(site') = Len(s1) + d
    BY <1>2, <1>4, <2>0, Joined
  <2>3. ASSUME NEW i \in 1 .. Len(site'), i > Len(s1)
        PROVE  site'[i] = pos + (i - Len(s1)) - 1
    <3>1. i - Len(s1) \in 1 .. d /\ i \in 1 .. Len(s1) + Len(bs)
      BY <1>2, <1>4, <2>2, <2>3
    <3>2. bs[i - Len(s1)] = pos + (i - Len(s1)) - 1
      BY <1>2, <3>1
    <3> QED
      BY <1>4, <2>1, <2>3, <3>1, <3>2
  <2> QED
    BY <1>2, <1>4, <2>1, <2>2, <2>3
<1>6. \A i \in 1 .. Len(s1) : s1[i] < pos /\ s1[i] \in Int
  BY <1>4 DEF Behind
<1>7. \A i, j \in 1 .. Len(s1) : i < j /\ s1[i] # Zero /\ s1[j] # Zero => s1[i] < s1[j]
  <2> TAKE i, j \in 1 .. Len(s1)
  <2> HAVE i < j /\ s1[i] # Zero /\ s1[j] # Zero
  <2>1. i <= Len(site) /\ j <= Len(site) /\ s1[i] = site[i] /\ s1[j] = site[j]
    BY <1>4 DEF Zero
  <2>2. i \in 1 .. Len(site) /\ j \in 1 .. Len(site)
    BY <1>4, <2>1
  <2> QED
    BY <2>1, <2>2 DEF Behind, SoundOnce
<1>8. \A i \in 1 .. Len(site') : site'[i] < p
  BY <1>4, <1>5, <1>6
<1>9. \A i, j \in 1 .. Len(site') : i < j /\ site'[i] # Zero /\ site'[j] # Zero => site'[i] < site'[j]
  <2> TAKE i, j \in 1 .. Len(site')
  <2> HAVE i < j /\ site'[i] # Zero /\ site'[j] # Zero
  <2>1. CASE j <= Len(s1)
    BY <1>4, <1>5, <1>7, <2>1
  <2>2. CASE i <= Len(s1) /\ j > Len(s1)
    <3>1. i \in 1 .. Len(s1)
      BY <1>4, <2>2
    <3>2. site'[i] < pos /\ site'[i] \in Int
      BY <1>5, <1>6, <2>2, <3>1
    <3>3. site'[j] = pos + (j - Len(s1)) - 1
      BY <1>4, <1>5, <2>2
    <3> QED
      BY <1>4, <1>5, <2>2, <3>2, <3>3
  <2>3. CASE i > Len(s1)
    BY <1>4, <1>5, <2>3
  <2> QED
    BY <1>4, <1>5, <2>1, <2>2, <2>3
<1> QED
  BY <1>5, <1>8, <1>9 DEF Behind, SoundOnce

LEMMA InitAInv == Init => AInv
<1> SUFFICES ASSUME Init PROVE AInv
  OBVIOUS
<1>1. 0 * ChunkLen = 0 /\ Total \in Nat /\ ChunkCount \in Nat /\ MaxFailures \in Nat
  BY Constants, AudioAssumption DEF ConstantTypes, Total
<1>2. Place /\ Taken /\ Kept /\ Ahead /\ EventsOnTime
  BY <1>1, Constants DEF Init, Place, Taken, Kept, Ahead, Timely, EventsOnTime, ConstantTypes
<1>3. SiteType
  <2>1. overrun \in BOOLEAN
    BY DEF Init
  <2>2. site \in Seq(Int) /\ lastSilent = 0 /\ failures = 0
    BY DEF Init
  <2> QED
    BY <1>1, <2>1, <2>2 DEF SiteType
<1>4. Behind
  BY DEF Init, Behind, SoundOnce
<1> QED
  <2>1. waited \in BOOLEAN /\ lastSilent = 0 /\ pending \subseteq Events /\ quiet \subseteq Span(0, Total)
    BY DEF Init
  <2>2. /\ arrived \in [Events -> -1 .. ChunkCount] /\ calledAt \in [Events -> -1 .. Total]
        /\ current \in Events \cup {NoEvent}
    BY <1>1 DEF Init
  <2> QED
    BY <1>2, <1>3, <1>4, <2>1, <2>2 DEF AInv, OtherTypes

\* Both writes of ProcessWaveData: n is what OnAudioData returns, p the next
\* position.
LEMMA AudioStep ==
  ASSUME AInv, NEW len \in Nat, NEW n \in {0, len}, OnAudioData(pos, len, n),
         NEW p \in Nat, pos <= p, n = len => p = pos + len, pos' = p
  PROVE  /\ Behind' /\ SiteType' /\ (~Optimize => lastSilent' = 0)
         /\ failures <= failures' /\ (failures' = 0 => n = len) /\ (overrun => overrun')
         /\ SilenceAccounted /\ len < HoldLimit => SilenceAccounted'
<1>1. pos \in Nat /\ SiteType /\ (~Optimize => lastSilent = 0) /\ OtherTypes /\ Behind
  BY DEF AInv, Place, OtherTypes
<1>2. PICK z \in Nat, d \in Nat : Added(z, d) /\ d <= len /\ (d = 0 \/ n = len)
  BY <1>1, AudioAdds
<1>3. /\ lastSilent' \in Nat /\ (~Optimize => lastSilent' = 0)
      /\ failures' \in failures .. MaxFailures /\ overrun' \in BOOLEAN /\ (overrun => overrun')
      /\ failures' = 0 => n = len
      /\ failures' = 0 /\ ~overrun' /\ len < HoldLimit =>
           \E y, b \in Nat : Added(y, b) /\ lastSilent' + y + b = lastSilent + len
  BY <1>1, AudioAdds
<1>4. d = 0 \/ pos + d <= p
  BY <1>1, <1>2
<1>5. Behind' /\ (site \in Seq(Int))'
  BY <1>1, <1>2, <1>4, BehindGrows
<1>6. failures \in Nat /\ MaxFailures \in Nat
  BY <1>1, AudioAssumption DEF SiteType
<1>7. SiteType' /\ failures <= failures'
  BY <1>3, <1>5, <1>6 DEF SiteType
<1>8. ASSUME SilenceAccounted, len < HoldLimit, failures' = 0, ~overrun'
      PROVE  Len(site') + lastSilent' = pos'
  <2>1. PICK y \in Nat, b \in Nat : Added(y, b) /\ lastSilent' + y + b = lastSilent + len
    BY <1>3, <1>8
  <2>2. Len(site') = Len(site) + y + b /\ Len(site) \in Nat
    <3>1. Len(Zeros(y)) = y /\ Len(Blocks(pos, b)) = b
          /\ Zeros(y) \in Seq(Int) /\ Blocks(pos, b) \in Seq(Int) /\ site \in Seq(Int)
      BY <1>1 DEF Zeros, Blocks, Zero, SiteType
    <3>2. site' = (site \o Zeros(y)) \o Blocks(pos, b)
      BY <2>1 DEF Added
    <3>3. site \o Zeros(y) \in Seq(Int) /\ Len(site \o Zeros(y)) = Len(site) + y
      BY <3>1, Joined
    <3> QED
      BY <3>1, <3>2, <3>3, Joined
  <2>3. Len(site) + lastSilent = pos
    BY <1>3, <1>6, <1>8 DEF SilenceAccounted
  <2>4. pos' = pos + len
    BY <1>3, <1>8
  <2>5. lastSilent \in Nat /\ lastSilent' \in Nat /\ pos \in Nat
    BY <1>1, <1>3 DEF SiteType
  <2>6. \A a, h, k \in Nat : a + h = pos /\ k + y + b = h + len => (a + y + b) + k = pos + len
    BY <2>5
  <2>7. (Len(site) + y + b) + lastSilent' = pos + len
    BY <2>1, <2>2, <2>3, <2>5, <2>6
  <2> QED
    BY <2>2, <2>4, <2>7
<1> QED
  BY <1>3, <1>5, <1>7, <1>8 DEF SilenceAccounted

\* m_events.top() is there when m_events is not empty.
LEMMA SomeEarliest ==
  ASSUME pending \subseteq Events, pending # {}
  PROVE  \E e \in Earliest : \A f \in pending : EventAt(e) <= EventAt(f)
<1> DEFINE S == {EventAt(e) : e \in pending}
<1>1. S \subseteq Nat /\ S # {}
  BY Constants DEF ConstantTypes
<1>2. PICK x \in S : \A y \in S : x <= y
  BY <1>1, Least
<1>3. PICK e \in pending : EventAt(e) = x
  BY <1>2
<1>4. \A f \in pending : EventAt(e) <= EventAt(f)
  BY <1>2, <1>3
<1> QED
  BY <1>4 DEF Earliest

LEMMA NextAInv == AInv /\ [Next]_vars => AInv'
<1> SUFFICES ASSUME AInv, [Next]_vars PROVE AInv'
  OBVIOUS
<1>0. /\ Place /\ Taken /\ Kept /\ Ahead /\ OtherTypes /\ Behind /\ EventsOnTime
      /\ ConstantTypes
  BY Constants DEF AInv
<1>1. CASE BeginChunk
  <2>1. (chunk + 1) * ChunkLen = chunk * ChunkLen + ChunkLen /\ chunk * ChunkLen \in Nat
    BY <1>0, OneMoreChunk DEF Place
  <2>2. pos = chunk * ChunkLen /\ pos' = pos /\ chunk' = chunk + 1 /\ left' = ChunkLen /\ counter' = counter
    BY <1>0, <1>1 DEF BeginChunk, Place
  <2>3. Place'
    BY <1>0, <1>1, <2>1, <2>2 DEF BeginChunk, Place, ConstantTypes
  <2>4. Ahead'
    BY <1>0, <1>1, <2>2 DEF BeginChunk, Ahead, Timely, eventVars
  <2>5. OtherTypes'
    BY <1>0, <1>1 DEF BeginChunk, OtherTypes, SiteType, eventVars, siteVars
  <2> QED
    BY <1>0, <1>1, <2>2, <2>3, <2>4, <2>5
    DEF AInv, BeginChunk, Taken, Kept, Behind, SoundOnce, EventsOnTime, Timely, eventVars, siteVars
<1>2. CASE Sleep10
  BY <1>0, <1>2
  DEF AInv, Sleep10, Place, Taken, Kept, Ahead, OtherTypes, SiteType, Behind, SoundOnce, EventsOnTime,
      Timely, eventVars, siteVars
<1>3. CASE NoMoreEvents
  <2>1. \A e \in pending : pos + left <= EventAt(e)
    <3> SUFFICES ASSUME NEW e \in pending PROVE pos + left <= EventAt(e)
      OBVIOUS
    <3>1. PICK f \in Earliest : \A g \in pending : EventAt(f) <= EventAt(g)
      BY <1>0, SomeEarliest DEF OtherTypes
    <3>2. f \notin Due
      BY <1>3 DEF NoMoreEvents
    <3>3. f \in Events /\ e \in Events
      BY <1>0 DEF OtherTypes, Earliest
    <3>4. EventAt(f) \in Nat /\ EventAt(e) \in Nat /\ counter = pos /\ pos + left \in Nat
      BY <1>0, <3>3 DEF ConstantTypes, Place
    <3> QED
      BY <3>1, <3>2, <3>4 DEF Due
  <2>2. Ahead'
    BY <1>0, <1>3, <2>1 DEF NoMoreEvents, Ahead, Kept, Timely, eventVars
  <2> QED
    BY <1>0, <1>3, <2>2
    DEF AInv, NoMoreEvents, Place, Taken, Kept, OtherTypes, SiteType, Behind, SoundOnce, EventsOnTime,
        Timely, eventVars, siteVars
<1>4. CASE TakeEvent
  <2>1. PICK e \in Due : current' = e /\ pending' = pending \ {e}
    BY <1>4 DEF TakeEvent
  <2>2. /\ e \in pending /\ e \in Events /\ EventAt(e) < pos + left
        /\ \A f \in pending : EventAt(e) <= EventAt(f)
    BY <1>0 DEF Due, Earliest, OtherTypes, Place
  <2>3. pc' = "event" /\ UNCHANGED <<quiet, chunk, pos, left, counter, waited, arrived, calledAt, siteVars>>
    BY <1>4 DEF TakeEvent
  <2>4. Ahead'
    BY <1>0, <1>4, <2>1, <2>2, <2>3 DEF TakeEvent, Ahead, Kept, Timely
  <2>5. Kept' /\ Taken'
    BY <1>0, <1>4, <2>1, <2>2, <2>3 DEF TakeEvent, Kept, Taken
  <2>6. OtherTypes'
    BY <1>0, <2>1, <2>2, <2>3 DEF OtherTypes, SiteType, siteVars
  <2>7. Place'
    BY <1>0, <2>3 DEF Place
  <2>8. Behind' /\ EventsOnTime'
    BY <1>0, <2>3 DEF Behind, SoundOnce, EventsOnTime, Timely, siteVars
  <2> QED
    BY <2>4, <2>5, <2>6, <2>7, <2>8 DEF AInv
<1>5. CASE SendEvent
  <2> DEFINE len == SizeBefore(current)
  <2>1. /\ pc = "event" /\ pc' = "look"
        /\ calledAt' = [calledAt EXCEPT ![current] = counter']
        /\ UNCHANGED <<quiet, chunk, waited, pending, arrived>> /\ current' = NoEvent
        /\ IF len # 0 THEN \E n \in {0, len} : OnAudioData(pos, len, n) /\ Advance(n)
                      ELSE UNCHANGED <<pos, left, counter, siteVars>>
    BY <1>5 DEF SendEvent, SendEventAt
  <2>2. /\ current \in Events /\ EventAt(current) \in Nat /\ EventAt(current) < pos + left
        /\ pos \in Nat /\ left \in Nat /\ counter = pos /\ arrived[current] # -1
    BY <1>0, <2>1 DEF Taken, Place, ConstantTypes
  <2>3. len \in Nat /\ len < pos + left - pos + 1 /\ len <= left
        /\ (len = 0 => EventAt(current) <= pos) /\ (len # 0 => EventAt(current) = pos + len)
    BY <2>2 DEF SizeBefore
  <2>4. /\ pos' \in Nat /\ pos <= pos' /\ counter' = pos'
        /\ left' \in Nat /\ left' <= left /\ pos' + left' = pos + left
        /\ pos' = pos \/ pos' <= EventAt(current)
        /\ Behind' /\ SiteType' /\ (~Optimize => lastSilent' = 0)
        /\ failures' = 0 => /\ failures = 0 /\ EventAt(current) <= pos'
                            /\ pos <= EventAt(current) => pos' = EventAt(current)
    <3> HIDE DEF len
    <3>1. CASE len # 0
      <4>1. PICK n \in {0, len} : OnAudioData(pos, len, n) /\ Advance(n)
        BY <2>1, <3>1
      <4>2. pos' = pos + n /\ left' = left - n /\ counter' = counter + n
        BY <4>1 DEF Advance
      <4>3. /\ Behind' /\ SiteType' /\ (~Optimize => lastSilent' = 0)
            /\ failures <= failures' /\ (failures' = 0 => n = len)
        BY <2>2, <2>3, <4>1, <4>2, AudioStep
      <4>4. failures \in Nat
        BY <1>0, AudioAssumption DEF OtherTypes, SiteType
      <4> QED
        BY <2>2, <2>3, <3>1, <4>2, <4>3, <4>4
    <3>2. CASE len = 0
      BY <1>0, <2>1, <2>2, <2>3, <3>2
      DEF OtherTypes, SiteType, Behind, SoundOnce, siteVars
    <3> QED
      BY <3>1, <3>2
  <2> HIDE DEF len
  <2>5. Place'
    <3>1. pos' + left' = chunk' * ChunkLen
      BY <1>0, <2>1, <2>4 DEF Place
    <3>2. left' <= ChunkLen
      BY <1>0, <2>4 DEF Place, ConstantTypes
    <3> QED
      BY <1>0, <2>1, <2>4, <3>1, <3>2 DEF Place
  <2>6. pos' \in 0 .. Total
    <3>1. pos + left \in 0 .. Total
      BY <1>0, ChunksInTotal DEF Place
    <3>2. Total \in Int
      BY <1>0 DEF ConstantTypes, Total
    <3> QED
      BY <2>4, <3>1, <3>2
  <2>7. /\ calledAt' \in [Events -> -1 .. Total]
        /\ \A e \in Events : calledAt'[e] = IF e = current THEN pos' ELSE calledAt[e]
    <3>1. counter' \in -1 .. Total
      <4> Total \in Int
        BY <1>0 DEF ConstantTypes, Total
      <4> QED
        BY <2>4, <2>6
    <3> QED
      BY <1>0, <2>1, <2>4, <3>1 DEF OtherTypes
  <2>8. Kept'
    BY <1>0, <2>1, <2>2, <2>4, <2>7 DEF Kept
  <2>9. Ahead'
    <3> SUFFICES ASSUME NEW e \in Events, Timely(e)', calledAt'[e] = -1
                 PROVE  pos' <= EventAt(e)
      BY <2>1 DEF Ahead
    <3>1. Timely(e) /\ e # current /\ calledAt[e] = -1
      BY <2>1, <2>2, <2>4, <2>7 DEF Timely
    <3>2. pos <= EventAt(e) /\ EventAt(current) <= EventAt(e) /\ EventAt(e) \in Nat
      BY <1>0, <2>1, <3>1 DEF Ahead, ConstantTypes
    <3> QED
      BY <2>2, <2>4, <3>2
  <2>10. EventsOnTime'
    <3> SUFFICES ASSUME failures' = 0, NEW e \in Events, calledAt'[e] # -1
                 PROVE  calledAt'[e] >= EventAt(e) /\ (Timely(e)' => calledAt'[e] = EventAt(e))
      BY DEF EventsOnTime
    <3>1. Timely(e)' => Timely(e)
      BY <2>1 DEF Timely
    <3>2. CASE e # current
      BY <1>0, <2>4, <2>7, <3>1, <3>2 DEF EventsOnTime
    <3>3. CASE e = current
      <4>1. Timely(e) => pos <= EventAt(e)
        BY <1>0, <2>1, <3>3 DEF Ahead, Taken
      <4> QED
        BY <2>2, <2>4, <2>7, <3>1, <3>3, <4>1
    <3> QED
      BY <3>2, <3>3
  <2>11. OtherTypes'
    BY <1>0, <2>1, <2>4, <2>7 DEF OtherTypes
  <2> QED
    BY <2>1, <2>4, <2>5, <2>8, <2>9, <2>10, <2>11 DEF AInv, Taken
<1>6. CASE WriteRest
  <2>1. /\ pc = "rest" /\ pc' = "idle" /\ left' = 0 /\ counter' = counter + left /\ pos' = pos + left
        /\ UNCHANGED <<quiet, chunk, waited, current, pending, arrived, calledAt>>
        /\ IF left # 0 THEN \E n \in {0, left} : OnAudioData(pos, left, n)
                       ELSE UNCHANGED siteVars
    BY <1>6 DEF WriteRest, eventVars
  <2>2. pos \in Nat /\ left \in Nat /\ pos + left \in Nat /\ pos <= pos + left
    BY <1>0 DEF Place
  <2>3. /\ Behind' /\ SiteType' /\ (~Optimize => lastSilent' = 0)
        /\ failures' = 0 => failures = 0
    <3>1. CASE left # 0
      <4>1. PICK n \in {0, left} : OnAudioData(pos, left, n)
        BY <2>1, <3>1
      <4>2. /\ Behind' /\ SiteType' /\ (~Optimize => lastSilent' = 0)
            /\ failures <= failures'
        BY <2>1, <2>2, <4>1, AudioStep
      <4>3. failures \in Nat
        BY <1>0, AudioAssumption DEF OtherTypes, SiteType
      <4> QED
        BY <4>2, <4>3
    <3>2. CASE left = 0
      BY <1>0, <2>1, <2>2, <3>2 DEF OtherTypes, SiteType, Behind, SoundOnce, siteVars
    <3> QED
      BY <3>1, <3>2
  <2>4. Place'
    BY <1>0, <2>1, <2>2 DEF Place, ConstantTypes
  <2>5. Ahead'
    BY <1>0, <2>1, <2>2 DEF Ahead, Timely, ConstantTypes
  <2>6. Taken' /\ Kept' /\ EventsOnTime'
    BY <1>0, <2>1, <2>3 DEF Taken, Kept, EventsOnTime, Timely
  <2>7. OtherTypes'
    BY <1>0, <2>1, <2>3 DEF OtherTypes
  <2> QED
    BY <2>3, <2>4, <2>5, <2>6, <2>7 DEF AInv
<1>7. ASSUME NEW e \in Events, EventArrives(e) PROVE AInv'
  <2>1. /\ arrived[e] = -1
        /\ arrived' = [arrived EXCEPT ![e] = chunk] /\ pending' = pending \cup {e}
        /\ UNCHANGED <<quiet, waveVars, calledAt, siteVars>>
    BY <1>7 DEF EventArrives
  <2>2. chunk \in 0 .. ChunkCount /\ chunk # -1 /\ ChunkCount \in Nat
    BY <1>0 DEF Place, ConstantTypes
  <2>3. /\ arrived' \in [Events -> -1 .. ChunkCount]
        /\ \A f \in Events : arrived'[f] = IF f = e THEN chunk ELSE arrived[f]
    BY <1>0, <2>1, <2>2 DEF OtherTypes
  <2>4. calledAt[e] = -1 /\ e \notin pending /\ ~(pc = "event" /\ current = e)
    BY <1>0, <2>1 DEF Kept
  <2>5. Place' /\ Behind'
    BY <1>0, <2>1 DEF Place, Behind, SoundOnce, waveVars, siteVars
  <2>6. Taken'
    BY <1>0, <2>1, <2>2, <2>3 DEF Taken, waveVars
  <2>7. Kept'
    BY <1>0, <2>1, <2>2, <2>3, <2>4 DEF Kept, waveVars
  <2>8. Ahead'
    <3> SUFFICES ASSUME NEW f \in Events, Timely(f)', calledAt[f] = -1
                 PROVE  /\ pos <= EventAt(f)
                        /\ pc = "event" => EventAt(current) <= EventAt(f)
                        /\ pc = "rest" => pos + left <= EventAt(f)
      BY <2>1 DEF Ahead, waveVars
    <3>1. CASE f = e
      <4>1. pos + left <= EventAt(e)
        BY <1>0, <2>3, <3>1 DEF Timely, Place
      <4>2. pos \in Nat /\ left \in Nat /\ EventAt(e) \in Nat
        BY <1>0 DEF Place, ConstantTypes
      <4>3. pc = "event" => EventAt(current) \in Nat /\ EventAt(current) < pos + left
        BY <1>0 DEF Taken, ConstantTypes
      <4> QED
        BY <3>1, <4>1, <4>2, <4>3
    <3>2. CASE f # e
      BY <1>0, <2>3, <3>2 DEF Ahead, Timely
    <3> QED
      BY <3>1, <3>2
  <2>9. EventsOnTime'
    BY <1>0, <2>1, <2>3, <2>4 DEF EventsOnTime, Timely, siteVars
  <2>10. OtherTypes'
    BY <1>0, <2>1, <2>3 DEF OtherTypes, SiteType, waveVars, siteVars
  <2> QED
    BY <2>5, <2>6, <2>7, <2>8, <2>9, <2>10 DEF AInv
<1>8. CASE UNCHANGED vars
  BY <1>0, <1>8
  DEF AInv, vars, Place, Taken, Kept, Ahead, OtherTypes, SiteType, Behind, SoundOnce, EventsOnTime,
      Timely, eventVars, siteVars, waveVars
<1> QED
  BY <1>1, <1>2, <1>3, <1>4, <1>5, <1>6, <1>7, <1>8 DEF Next

-----------------------------------------------------------------------------
(***************************************************************************)
(* The theorems.                                                           *)
(***************************************************************************)
LEMMA Invariant == Spec => []AInv
<1>1. AInv /\ UNCHANGED vars => AInv'
  BY NextAInv
<1> QED
  BY InitAInv, NextAInv, PTL DEF Spec

\* ProcessWaveData counts with m_waveBytesWritten what it passes, so it stays
\* within the chunk, and between chunks it has counted them all.
THEOREM TypeCorrect == Spec => []TypeOK
BY Invariant, InvTypes, PTL

\* "dispatch the event at the correct audio time" (SpeechRestAPI.h:40), for
\* any events and chunks, while writing works.
THEOREM OnTime == Spec => []EventsOnTime
<1>1. AInv => EventsOnTime
  BY DEF AInv
<1> QED
  BY <1>1, Invariant, PTL

\* The loop over m_events leaves no event of the chunk behind that was in the
\* queue before ProcessWaveData began with it, even when writing fails.
THEOREM TimelySent == Spec => []TimelyEventsSent
<1>1. AInv => TimelyEventsSent
  <2> SUFFICES ASSUME AInv, NEW e \in Events, Timely(e), EventAt(e) < counter, calledAt[e] = -1
               PROVE  FALSE
    BY DEF TimelyEventsSent
  <2>1. pos <= EventAt(e) /\ counter = pos /\ pos \in Nat /\ EventAt(e) \in Nat
    BY Constants DEF AInv, Ahead, Place, ConstantTypes
  <2> QED
    BY <2>1
<1> QED
  BY <1>1, Invariant, PTL

\* The writes of OnAudioData, of which any may fail, repeat no sound and change
\* no order.
THEOREM SoundPlayedOnce == Spec => []SoundOnce
<1>1. AInv => SoundOnce
  BY DEF AInv, Behind
<1> QED
  BY <1>1, Invariant, PTL

LEMMA NextAccounts ==
  ASSUME ChunkLen < HoldLimit, AInv, SilenceAccounted, [Next]_vars
  PROVE  SilenceAccounted'
<1>0. Place /\ OtherTypes /\ ConstantTypes /\ SiteType /\ failures \in Nat /\ overrun \in BOOLEAN
  BY Constants, AudioAssumption DEF AInv, OtherTypes, SiteType
<1>1. CASE UNCHANGED <<pos, siteVars>>
  BY <1>1 DEF SilenceAccounted, siteVars
<1>2. CASE BeginChunk
  <2>1. pos' = pos
    BY <1>0, <1>2 DEF BeginChunk, Place
  <2> QED
    BY <1>1, <1>2, <2>1 DEF BeginChunk
<1>3. CASE SendEvent
  <2> DEFINE len == SizeBefore(current)
  <2>1. CASE len = 0
    BY <1>1, <1>3, <2>1 DEF SendEvent, SendEventAt
  <2>2. CASE len # 0
    <3>1. PICK n \in {0, len} : OnAudioData(pos, len, n) /\ Advance(n)
      BY <1>3, <2>2 DEF SendEvent, SendEventAt
    <3>2. len \in Nat /\ len <= left /\ pos \in Nat
      <4>1. EventAt(current) \in Nat /\ EventAt(current) < pos + left /\ counter = pos
            /\ pos \in Nat /\ left \in Nat
        BY <1>0, <1>3 DEF AInv, Taken, Place, ConstantTypes, SendEvent, SendEventAt
      <4> QED
        BY <4>1 DEF SizeBefore
    <3>3. len < HoldLimit
      BY <1>0, <3>2 DEF Place, ConstantTypes
    <3> HIDE DEF len
    <3>4. pos' = pos + n /\ pos' \in Nat /\ pos <= pos'
      BY <3>1, <3>2 DEF Advance
    <3> QED
      BY <3>1, <3>2, <3>3, <3>4, AudioStep
  <2> QED
    BY <2>1, <2>2
<1>4. CASE WriteRest
  <2>1. left \in Nat /\ pos \in Nat /\ left < HoldLimit /\ pos' = pos + left
    BY <1>0, <1>4 DEF WriteRest, Place, ConstantTypes
  <2>2. CASE left = 0
    BY <1>1, <1>4, <2>1, <2>2 DEF WriteRest
  <2>3. CASE left # 0
    <3>1. PICK n \in {0, left} : OnAudioData(pos, left, n)
      BY <1>4, <2>3 DEF WriteRest
    <3>2. pos + left \in Nat /\ pos <= pos + left
      BY <2>1
    <3> QED
      BY <2>1, <3>1, <3>2, AudioStep
  <2> QED
    BY <2>2, <2>3
<1>5. CASE Sleep10 \/ NoMoreEvents \/ TakeEvent
  BY <1>1, <1>5 DEF Sleep10, NoMoreEvents, TakeEvent
<1>6. CASE \E e \in Events : EventArrives(e)
  BY <1>1, <1>6 DEF EventArrives, waveVars
<1> QED
  BY <1>1, <1>2, <1>3, <1>4, <1>5, <1>6 DEF Next, vars, waveVars

\* As long as a chunk is shorter than the second of silence that is held, the
\* optimization loses no audio and adds none: what the site lacks is the
\* silence in m_lastSilentBytes.
THEOREM SilenceKept == ChunkLen < HoldLimit => (Spec => []SilenceAccounted)
<1> SUFFICES ASSUME ChunkLen < HoldLimit PROVE Spec => []SilenceAccounted
  OBVIOUS
<1>1. Init => SilenceAccounted
  BY DEF Init, SilenceAccounted
<1>2. AInv /\ SilenceAccounted /\ [Next]_vars => SilenceAccounted'
  BY NextAccounts
<1> QED
  BY <1>1, <1>2, Invariant, PTL DEF Spec
=============================================================================
