--------------------------- MODULE TurnStreamProofs ---------------------------
(***************************************************************************)
(* Proofs about TurnStream, for any texts, however long, any deltas of one *)
(* symbol or two, and any number of retries.                               *)
(*                                                                         *)
(* A text is read as a word: a symbol is hidden or not by what stands      *)
(* before it.  ThinkingFilter.delta, on any cut of the text, and           *)
(* ThinkingFilter.clean, on the whole, are shown to leave out the same     *)
(* thoughts, unless the text ends inside one.                              *)
(***************************************************************************)
EXTENDS TurnStream, SequenceTheorems, WellFoundedInduction, TLAPS

(***************************************************************************)
(* The recursive functions of the model, each by its defining equation.    *)
(***************************************************************************)

\* A scan that lets out part first.
Before(part, r) == [r EXCEPT !.out = part \o @]

\* What scan does at position n of buf, inside a thought or not, if f is what
\* it does further on.
ScanBody(f, buf, n) == [within \in BOOLEAN |->
    LET tag == IF within THEN CloseTag ELSE OpenTag
        at == Find(buf, tag, n)
        kept == PartialSuffix(SubSeq(buf, n, Len(buf)), tag)
        rest == f[at + 2][~within]
        Out(to) == IF within THEN << >> ELSE SubSeq(buf, n, to)
    IN  IF at = 0
        THEN [inside |-> within, pending |-> kept, out |-> Out(Len(buf) - Len(kept))]
        ELSE Before(Out(at - 1), rest)]

Scans(f, buf, m) ==
    f = [n \in m..(Len(buf) + 1) |-> ScanBody(f, buf, n)]

\* What clean makes of text from position n on, if f is that of what follows.
CleanBody(f, text, n) ==
    LET open == Find(text, OpenTag, n)
        close == Find(text, CloseTag, open + 2)
    IN  IF open = 0 \/ close = 0 THEN SubSeq(text, n, Len(text))
        ELSE SubSeq(text, n, open - 1) \o f[close + 2]

Cleans(f, text, m) ==
    f = [n \in m..(Len(text) + 1) |-> CleanBody(f, text, n)]

\* What is visible of the first n symbols of s.
VisibleBody(f, s, n) ==
    IF n = 0 THEN << >>
    ELSE IF Hidden(s, n) THEN f[n - 1]
    ELSE Append(f[n - 1], s[n])

Views(f, s, m) == f = [n \in 0..m |-> VisibleBody(f, s, n)]

View(s) == CHOOSE f : Views(f, s, Len(s))

\* There is a least of any natural numbers.
LEMMA LeastNat ==
    ASSUME NEW T, T \subseteq Nat, T # {}
    PROVE  \E n \in T : \A k \in T : n <= k
<1>1. PICK n \in T : \A k \in T : ~(<<k, n>> \in OpToRel(<, Nat))
  BY NatLessThanWellFounded, WFMin, Zenon
<1>2. \A k \in T : ~(k < n)
  BY <1>1 DEF OpToRel
<1> QED
  BY <1>2

\* The functions the model chooses.
LEMMA TheyAreChosen ==
    /\ \A buf, inside : Scan(buf, inside) =
          (CHOOSE f : Scans(f, buf, 1))[1][inside]
    /\ \A text : Clean(text) = (CHOOSE f : Cleans(f, text, 1))[1]
    /\ \A s : Visible(s) = View(s)[Len(s)]
<1>1. ASSUME NEW buf, NEW inside
      PROVE  Scan(buf, inside) = (CHOOSE f : Scans(f, buf, 1))[1][inside]
  BY DEF Scan, Scans, ScanBody, Before
<1>2. ASSUME NEW text
      PROVE  Clean(text) = (CHOOSE f : Cleans(f, text, 1))[1]
  BY DEF Clean, Cleans, CleanBody
<1>3. ASSUME NEW s
      PROVE  Visible(s) = View(s)[Len(s)]
  BY DEF Visible, View, Views, VisibleBody
<1> QED
  BY <1>1, <1>2, <1>3

(***************************************************************************)
(* Tags in a text.                                                         *)
(***************************************************************************)

Name == {"thinking>", "/thinking>"}
Tag == {OpenTag, CloseTag}

\* Where tag stands in s.
Places(s, tag) == {k \in 1..(Len(s) - 1) : SubSeq(s, k, k + 1) = tag}
Opens(s) == Places(s, OpenTag)
Closes(s) == Places(s, CloseTag)

\* A tag is two symbols, the second of which tells which.
LEMMA TwoSymbols ==
    ASSUME NEW s \in Seq(Symbol), NEW k \in 1..(Len(s) - 1)
    PROVE  /\ k \in Opens(s) <=> s[k] = "<" /\ s[k + 1] = "thinking>"
           /\ k \in Closes(s) <=> s[k] = "<" /\ s[k + 1] = "/thinking>"
<1> DEFINE two == SubSeq(s, k, k + 1)
<1>1. Len(s) \in Nat /\ k \in Int /\ k + 1 \in Int /\ k >= 1 /\ k + 1 <= Len(s)
  BY LenProperties
<1>2. \A i \in k..(k + 1) : s[i] \in Symbol
  BY <1>1, ElementOfSeq
<1>3. /\ two \in Seq(Symbol) /\ Len(two) = 2
      /\ \A i \in 1..2 : two[i] = s[k + i - 1]
  BY <1>1, <1>2, SubSeqProperties
<1>4. two = <<s[k], s[k + 1]>>
  <2>1. two[1] = s[k] /\ two[2] = s[k + 1]
    BY <1>1, <1>3
  <2> HIDE DEF two
  <2> QED
    BY <1>3, <2>1
<1> QED
  BY <1>4 DEF Opens, Closes, Places, OpenTag, CloseTag

\* What Find finds is the first place of the tag from there on.
LEMMA FindFirst ==
    ASSUME NEW s \in Seq(Symbol), NEW tag, NEW n \in Nat, n >= 1
    PROVE  /\ Find(s, tag, n) \in Nat
           /\ Find(s, tag, n) = 0 => \A k \in Places(s, tag) : k < n
           /\ Find(s, tag, n) # 0 =>
                 /\ Find(s, tag, n) \in Places(s, tag) /\ Find(s, tag, n) >= n
                 /\ Find(s, tag, n) >= 1 /\ Find(s, tag, n) + 1 <= Len(s)
                 /\ \A k \in Places(s, tag) : k >= n => Find(s, tag, n) <= k
<1> DEFINE at == {i \in n..(Len(s) - 1) : SubSeq(s, i, i + 1) = tag}
<1>1. Len(s) \in Nat
  BY LenProperties
<1>2. at = {k \in Places(s, tag) : k >= n}
  BY <1>1 DEF Places
<1>3. Find(s, tag, n) = IF at = {} THEN 0 ELSE CHOOSE i \in at : \A k \in at : i <= k
  BY DEF Find
<1>4. Places(s, tag) \subseteq 1..(Len(s) - 1)
  BY DEF Places
<1>5. CASE at = {}
  BY <1>1, <1>2, <1>3, <1>4, <1>5
<1>6. CASE at # {}
  <2>1. at \subseteq Nat
    BY <1>1
  <2>2. \E i \in at : \A k \in at : i <= k
    <3> HIDE DEF at
    <3> QED
      BY <1>6, <2>1, LeastNat
  <2>3. Find(s, tag, n) \in at /\ \A k \in at : Find(s, tag, n) <= k
    BY <1>3, <1>6, <2>2
  <2>4. Find(s, tag, n) \in n..(Len(s) - 1)
    BY <2>3
  <2> HIDE DEF at
  <2>5. \A k \in Places(s, tag) : k >= n => Find(s, tag, n) <= k
    BY <1>2, <2>3
  <2>6. Find(s, tag, n) \in Places(s, tag)
    BY <1>2, <2>3
  <2> QED
    BY <1>1, <2>4, <2>5, <2>6
<1> QED
  BY <1>5, <1>6

(***************************************************************************)
(* The recursive functions exist.                                          *)
(***************************************************************************)

\* A scan from m + 1 on gives one from m on.
LEMMA ScanExtends ==
    ASSUME NEW buf \in Seq(Symbol), NEW m \in 1..(Len(buf) + 1),
           NEW f, Scans(f, buf, m + 1)
    PROVE  \E g : Scans(g, buf, m)
<1> DEFINE n == Len(buf)
           g == [i \in m..(n + 1) |-> ScanBody(f, buf, i)]
<1>1. n \in Nat /\ m \in Nat /\ m >= 1 /\ m <= n + 1
  BY LenProperties
<1>2. \A i \in (m + 1)..(n + 1) : g[i] = f[i]
  <2>1. ASSUME NEW i \in (m + 1)..(n + 1)
        PROVE  g[i] = f[i]
    <3>1. i \in m..(n + 1)
      BY <1>1
    <3>2. g[i] = ScanBody(f, buf, i)
      BY <3>1
    <3>3. f[i] = ScanBody(f, buf, i)
      BY <2>1 DEF Scans
    <3> QED
      BY <3>2, <3>3
  <2> HIDE DEF g
  <2> QED
    BY <2>1
<1> HIDE DEF g
<1>3. ASSUME NEW i \in m..(n + 1)
      PROVE  ScanBody(g, buf, i) = ScanBody(f, buf, i)
  <2>1. i \in Nat /\ i >= 1 /\ i >= m
    BY <1>1
  <2>2. ASSUME NEW within \in BOOLEAN
        PROVE  LET at == Find(buf, IF within THEN CloseTag ELSE OpenTag, i)
               IN  at # 0 => g[at + 2] = f[at + 2]
    <3> DEFINE at == Find(buf, IF within THEN CloseTag ELSE OpenTag, i)
    <3>1. at \in Nat /\ (at # 0 => at >= i /\ at + 1 <= n)
      BY <2>1, FindFirst DEF n
    <3> HIDE DEF at
    <3>2. at # 0 => at + 2 \in (m + 1)..(n + 1)
      BY <1>1, <2>1, <3>1
    <3>3. at # 0 => g[at + 2] = f[at + 2]
      BY <1>2, <3>2
    <3> QED
      BY <3>3 DEF at
  <2> QED
    BY <2>2 DEF ScanBody
<1>4. g = [i \in m..(n + 1) |-> ScanBody(g, buf, i)]
  BY <1>3 DEF g
<1> QED
  BY <1>4 DEF Scans

\* There is the scan the model means.
LEMMA ScanExists ==
    ASSUME NEW buf \in Seq(Symbol)
    PROVE  \E f : Scans(f, buf, 1)
<1> DEFINE n == Len(buf)
           Bad == {d \in 0..(n + 1) : ~\E f : Scans(f, buf, n + 2 - d)}
<1>1. n \in Nat
  BY LenProperties
<1>2. n + 1 \notin Bad
  <2> SUFFICES ASSUME Bad # {} PROVE FALSE
    OBVIOUS
  <2>1. Bad \subseteq Nat
    BY <1>1
  <2>2. PICK d \in Bad : \A k \in Bad : d <= k
    <3> HIDE DEF Bad
    <3> QED
      BY <2>1, LeastNat
  <2>3. d \in Nat /\ d <= n + 1 /\ ~\E f : Scans(f, buf, n + 2 - d)
    BY <1>1
  <2>4. CASE d = 0
    <3> DEFINE none == [i \in (n + 2)..(n + 1) |-> {}]
    <3>1. (n + 2)..(n + 1) = {}
      BY <1>1
    <3>2. none = [i \in (n + 2)..(n + 1) |-> ScanBody(none, buf, i)]
      BY <3>1
    <3>3. Scans(none, buf, n + 2)
      BY <3>2 DEF Scans
    <3> QED
      BY <1>1, <2>3, <2>4, <3>3
  <2>5. CASE d # 0
    <3>1. d - 1 \in 0..(n + 1) /\ d - 1 \notin Bad
      <4>1. d - 1 \in Nat /\ ~(d <= d - 1)
        BY <2>3, <2>5
      <4> QED
        BY <1>1, <2>2, <2>3, <4>1
    <3>2. \E f : Scans(f, buf, n + 2 - (d - 1))
      BY <3>1
    <3>3. n + 2 - d \in 1..(n + 1) /\ n + 2 - (d - 1) = (n + 2 - d) + 1
      BY <1>1, <2>3, <2>5
    <3>4. \E g : Scans(g, buf, n + 2 - d)
      BY <3>2, <3>3, ScanExtends
    <3> QED
      BY <2>3, <3>4
  <2> QED
    BY <2>4, <2>5
<1>3. n + 1 \in 0..(n + 1) /\ n + 2 - (n + 1) = 1
  BY <1>1
<1>4. \E f : Scans(f, buf, n + 2 - (n + 1))
  BY <1>2, <1>3
<1> QED
  BY <1>3, <1>4

\* So of the cleaning.
LEMMA CleanExtends ==
    ASSUME NEW text \in Seq(Symbol), NEW m \in 1..(Len(text) + 1),
           NEW f, Cleans(f, text, m + 1)
    PROVE  \E g : Cleans(g, text, m)
<1> DEFINE n == Len(text)
           g == [i \in m..(n + 1) |-> CleanBody(f, text, i)]
<1>1. n \in Nat /\ m \in Nat /\ m >= 1 /\ m <= n + 1
  BY LenProperties
<1>2. \A i \in (m + 1)..(n + 1) : g[i] = f[i]
  <2>1. ASSUME NEW i \in (m + 1)..(n + 1)
        PROVE  g[i] = f[i]
    <3>1. i \in m..(n + 1)
      BY <1>1
    <3>2. g[i] = CleanBody(f, text, i)
      BY <3>1
    <3>3. f[i] = CleanBody(f, text, i)
      BY <2>1 DEF Cleans
    <3> QED
      BY <3>2, <3>3
  <2> HIDE DEF g
  <2> QED
    BY <2>1
<1> HIDE DEF g
<1>3. ASSUME NEW i \in m..(n + 1)
      PROVE  CleanBody(g, text, i) = CleanBody(f, text, i)
  <2>1. i \in Nat /\ i >= 1 /\ i >= m
    BY <1>1
  <2> DEFINE open == Find(text, OpenTag, i)
             close == Find(text, CloseTag, open + 2)
  <2>2. open \in Nat /\ (open # 0 => open >= i)
    BY <2>1, FindFirst
  <2>3. open + 2 \in Nat /\ open + 2 >= 1
    BY <2>2
  <2>4. close \in Nat /\ (close # 0 => close >= open + 2 /\ close + 1 <= n)
    BY <2>3, FindFirst DEF n
  <2> HIDE DEF open, close
  <2>5. open # 0 /\ close # 0 => close + 2 \in (m + 1)..(n + 1)
    BY <1>1, <2>1, <2>2, <2>4
  <2>6. open # 0 /\ close # 0 => g[close + 2] = f[close + 2]
    BY <1>2, <2>5
  <2> QED
    BY <2>6 DEF CleanBody, open, close
<1>4. g = [i \in m..(n + 1) |-> CleanBody(g, text, i)]
  BY <1>3 DEF g
<1> QED
  BY <1>4 DEF Cleans

\* There is the cleaning the model means.
LEMMA CleanExists ==
    ASSUME NEW text \in Seq(Symbol)
    PROVE  \E f : Cleans(f, text, 1)
<1> DEFINE n == Len(text)
           Bad == {d \in 0..(n + 1) : ~\E f : Cleans(f, text, n + 2 - d)}
<1>1. n \in Nat
  BY LenProperties
<1>2. n + 1 \notin Bad
  <2> SUFFICES ASSUME Bad # {} PROVE FALSE
    OBVIOUS
  <2>1. Bad \subseteq Nat
    BY <1>1
  <2>2. PICK d \in Bad : \A k \in Bad : d <= k
    <3> HIDE DEF Bad
    <3> QED
      BY <2>1, LeastNat
  <2>3. d \in Nat /\ d <= n + 1 /\ ~\E f : Cleans(f, text, n + 2 - d)
    BY <1>1
  <2>4. CASE d = 0
    <3> DEFINE none == [i \in (n + 2)..(n + 1) |-> {}]
    <3>1. (n + 2)..(n + 1) = {}
      BY <1>1
    <3>2. none = [i \in (n + 2)..(n + 1) |-> CleanBody(none, text, i)]
      BY <3>1
    <3>3. Cleans(none, text, n + 2)
      BY <3>2 DEF Cleans
    <3> QED
      BY <1>1, <2>3, <2>4, <3>3
  <2>5. CASE d # 0
    <3>1. d - 1 \in 0..(n + 1) /\ d - 1 \notin Bad
      <4>1. d - 1 \in Nat /\ ~(d <= d - 1)
        BY <2>3, <2>5
      <4> QED
        BY <1>1, <2>2, <2>3, <4>1
    <3>2. \E f : Cleans(f, text, n + 2 - (d - 1))
      BY <3>1
    <3>3. n + 2 - d \in 1..(n + 1) /\ n + 2 - (d - 1) = (n + 2 - d) + 1
      BY <1>1, <2>3, <2>5
    <3>4. \E g : Cleans(g, text, n + 2 - d)
      BY <3>2, <3>3, CleanExtends
    <3> QED
      BY <2>3, <3>4
  <2> QED
    BY <2>4, <2>5
<1>3. n + 1 \in 0..(n + 1) /\ n + 2 - (n + 1) = 1
  BY <1>1
<1>4. \E f : Cleans(f, text, n + 2 - (n + 1))
  BY <1>2, <1>3
<1> QED
  BY <1>3, <1>4

\* There is the view of a text.
LEMMA ViewExists ==
    ASSUME NEW s \in Seq(Symbol), NEW m \in Nat
    PROVE  \E f : Views(f, s, m)
<1> DEFINE Bad == {k \in Nat : ~\E f : Views(f, s, k)}
<1>1. Bad = {}
  <2> SUFFICES ASSUME Bad # {} PROVE FALSE
    OBVIOUS
  <2>1. Bad \subseteq Nat
    OBVIOUS
  <2>2. PICK k \in Bad : \A j \in Bad : k <= j
    <3> HIDE DEF Bad
    <3> QED
      BY <2>1, LeastNat
  <2>3. k \in Nat /\ ~\E f : Views(f, s, k)
    OBVIOUS
  <2>4. CASE k = 0
    <3> DEFINE g == [n \in 0..0 |-> << >>]
    <3>1. g = [n \in 0..0 |-> VisibleBody(g, s, n)]
      BY DEF VisibleBody
    <3>2. Views(g, s, 0)
      BY <3>1 DEF Views
    <3> QED
      BY <2>3, <2>4, <3>2
  <2>5. CASE k # 0
    <3>1. k - 1 \in Nat /\ ~(k <= k - 1)
      BY <2>3, <2>5
    <3>2. k - 1 \notin Bad
      BY <2>2, <3>1
    <3>3. PICK f : Views(f, s, k - 1)
      BY <3>1, <3>2
    <3> DEFINE g == [n \in 0..k |-> VisibleBody(f, s, n)]
    <3>4. ASSUME NEW n \in 0..k
          PROVE  g[n] = VisibleBody(f, s, n)
      OBVIOUS
    <3>5. ASSUME NEW n \in 0..(k - 1)
          PROVE  g[n] = f[n]
      <4>1. n \in 0..k
        BY <3>1
      <4>2. f[n] = VisibleBody(f, s, n)
        BY <3>3, <3>5 DEF Views
      <4> QED
        BY <3>4, <4>1, <4>2
    <3> HIDE DEF g
    <3>6. ASSUME NEW n \in 0..k
          PROVE  VisibleBody(f, s, n) = VisibleBody(g, s, n)
      <4>1. n # 0 => n - 1 \in 0..(k - 1)
        BY <2>3
      <4>2. n # 0 => g[n - 1] = f[n - 1]
        BY <3>5, <4>1
      <4> QED
        BY <4>2 DEF VisibleBody
    <3>7. g = [n \in 0..k |-> VisibleBody(g, s, n)]
      BY <3>6 DEF g
    <3> QED
      BY <2>3, <3>7 DEF Views
  <2> QED
    BY <2>4, <2>5
<1> QED
  BY <1>1

\* What is visible of a text grows by a symbol or by none.
LEMMA ViewGrows ==
    ASSUME NEW s \in Seq(Symbol)
    PROVE  /\ View(s)[0] = << >>
           /\ \A n \in 1..Len(s) : View(s)[n] =
                 IF Hidden(s, n) THEN View(s)[n - 1]
                 ELSE Append(View(s)[n - 1], s[n])
<1>1. Len(s) \in Nat
  BY LenProperties
<1>2. Views(View(s), s, Len(s))
  BY <1>1, ViewExists DEF View
<1>3. \A n \in 0..Len(s) : View(s)[n] = VisibleBody(View(s), s, n)
  <2> DEFINE f == View(s)
  <2>1. f = [n \in 0..Len(s) |-> VisibleBody(f, s, n)]
    BY <1>2 DEF Views
  <2> HIDE DEF f
  <2>2. \A n \in 0..Len(s) : f[n] = VisibleBody(f, s, n)
    BY <2>1
  <2> QED
    BY <2>2 DEF f
<1>4. 0 \in 0..Len(s) /\ \A n \in 1..Len(s) : n \in 0..Len(s) /\ n # 0
  BY <1>1
<1> QED
  BY <1>3, <1>4 DEF VisibleBody

\* So it is a text.
LEMMA ViewTyped ==
    ASSUME NEW s \in Seq(Symbol)
    PROVE  \A n \in 0..Len(s) : View(s)[n] \in Seq(Symbol)
<1> DEFINE Bad == {n \in 0..Len(s) : View(s)[n] \notin Seq(Symbol)}
<1> SUFFICES ASSUME Bad # {} PROVE FALSE
  OBVIOUS
<1>1. Len(s) \in Nat
  BY LenProperties
<1>2. Bad \subseteq Nat
  BY <1>1
<1>3. PICK n \in Bad : \A k \in Bad : n <= k
  <2> HIDE DEF Bad
  <2> QED
    BY <1>2, LeastNat
<1>4. n \in Nat /\ n <= Len(s) /\ View(s)[n] \notin Seq(Symbol)
  BY <1>1
<1>5. CASE n = 0
  BY <1>4, <1>5, ViewGrows, EmptySeq
<1>6. CASE n # 0
  <2>1. n \in 1..Len(s) /\ n - 1 \in 0..Len(s) /\ ~(n <= n - 1)
    BY <1>1, <1>4, <1>6
  <2>2. View(s)[n - 1] \in Seq(Symbol)
    BY <1>3, <2>1
  <2>3. s[n] \in Symbol
    BY <2>1, ElementOfSeq
  <2>4. Append(View(s)[n - 1], s[n]) \in Seq(Symbol)
    BY <2>2, <2>3, AppendProperties
  <2> QED
    BY <1>4, <2>1, <2>2, <2>4, ViewGrows
<1> QED
  BY <1>5, <1>6

(***************************************************************************)
(* What is hidden, and what a prefix of the text tells of it.              *)
(***************************************************************************)

\* The first e symbols of s end inside a thought.
Inside(s, e) ==
    \E k \in Opens(s) : k + 1 <= e /\ \A c \in Closes(s) : k < c => c + 1 > e

\* How far the first e symbols of s are certain, and what is not yet.
Certain(s, e) == IF e > 0 /\ s[e] = "<" THEN e - 1 ELSE e
Doubtful(s, e) == IF e > 0 /\ s[e] = "<" THEN <<"<">> ELSE << >>

\* The tags of a text, by their symbols.
LEMMA TagsOf ==
    ASSUME NEW s \in Seq(Symbol)
    PROVE  /\ Len(s) \in Nat
           /\ \A k \in Opens(s) : /\ k \in Nat /\ k >= 1 /\ k + 1 <= Len(s)
                                  /\ s[k] = "<" /\ s[k + 1] = "thinking>"
           /\ \A c \in Closes(s) : /\ c \in Nat /\ c >= 1 /\ c + 1 <= Len(s)
                                   /\ s[c] = "<" /\ s[c + 1] = "/thinking>"
           /\ \A k \in Opens(s), c \in Closes(s) : k # c /\ c # k + 1 /\ k # c + 1
<1>1. Len(s) \in Nat
  BY LenProperties
<1>2. /\ Opens(s) \subseteq 1..(Len(s) - 1) /\ Closes(s) \subseteq 1..(Len(s) - 1)
      /\ \A k \in 1..(Len(s) - 1) : k \in Nat /\ k >= 1 /\ k + 1 <= Len(s)
  BY <1>1 DEF Opens, Closes, Places
<1>3. \A k \in Opens(s) : s[k] = "<" /\ s[k + 1] = "thinking>"
  BY <1>2, TwoSymbols
<1>4. \A c \in Closes(s) : s[c] = "<" /\ s[c + 1] = "/thinking>"
  BY <1>2, TwoSymbols
<1>5. \A k \in Opens(s), c \in Closes(s) : k # c /\ c # k + 1 /\ k # c + 1
  <2> SUFFICES ASSUME NEW k \in Opens(s), NEW c \in Closes(s)
               PROVE  k # c /\ c # k + 1 /\ k # c + 1
    OBVIOUS
  <2>1. /\ s[k] = "<" /\ s[k + 1] = "thinking>"
        /\ s[c] = "<" /\ s[c + 1] = "/thinking>"
    BY <1>3, <1>4
  <2> QED
    BY <2>1
<1> QED
  BY <1>1, <1>2, <1>3, <1>4, <1>5

\* A symbol is hidden by an opening tag at it or before it that nothing
\* closes before it.
LEMMA HiddenMeans ==
    ASSUME NEW s \in Seq(Symbol), NEW i \in Nat
    PROVE  Hidden(s, i) <=>
              \E k \in Opens(s) : k <= i /\ \A c \in Closes(s) : k < c => c + 1 >= i
<1>1. Hidden(s, i) <=>
        \E k \in Opens(s) : k <= i /\ ~\E c \in Closes(s) : k + 2 <= c /\ c + 1 < i
  BY DEF Hidden, Opens, Closes, Places
<1>2. ASSUME NEW k \in Opens(s), NEW c \in Closes(s)
      PROVE  /\ k + 2 <= c <=> k < c
             /\ ~(c + 1 < i) <=> c + 1 >= i
  <2>1. k \in Nat /\ c \in Nat /\ k # c /\ c # k + 1
    BY TagsOf
  <2> QED
    BY <2>1
<1> QED
  BY <1>1, <1>2

\* The tags of a prefix are those of the text that end in it.
LEMMA TagsOfPrefix ==
    ASSUME NEW s \in Seq(Symbol), NEW e \in 0..Len(s)
    PROVE  /\ SubSeq(s, 1, e) \in Seq(Symbol) /\ Len(SubSeq(s, 1, e)) = e
           /\ \A i \in 1..e : SubSeq(s, 1, e)[i] = s[i]
           /\ Opens(SubSeq(s, 1, e)) = {k \in Opens(s) : k + 1 <= e}
           /\ Closes(SubSeq(s, 1, e)) = {k \in Closes(s) : k + 1 <= e}
<1> DEFINE t == SubSeq(s, 1, e)
<1>1. Len(s) \in Nat /\ e \in Nat /\ e <= Len(s)
  BY LenProperties
<1>2. \A i \in 1..e : s[i] \in Symbol
  BY <1>1, ElementOfSeq
<1>3. /\ t \in Seq(Symbol) /\ Len(t) = IF 1 <= e THEN e - 1 + 1 ELSE 0
      /\ \A i \in 1..(e - 1 + 1) : t[i] = s[1 + i - 1]
  BY <1>1, <1>2, SubSeqProperties
<1> HIDE DEF t
<1>4. Len(t) = e /\ \A i \in 1..e : t[i] = s[i]
  BY <1>1, <1>3
<1>5. ASSUME NEW k \in 1..(e - 1)
      PROVE  /\ k \in 1..(Len(s) - 1) /\ k \in 1..(Len(t) - 1)
             /\ k \in Opens(t) <=> k \in Opens(s)
             /\ k \in Closes(t) <=> k \in Closes(s)
  <2>1. /\ k \in 1..(Len(s) - 1) /\ k \in 1..(Len(t) - 1)
        /\ k \in 1..e /\ k + 1 \in 1..e
    BY <1>1, <1>4
  <2>2. t[k] = s[k] /\ t[k + 1] = s[k + 1]
    BY <1>4, <2>1
  <2> QED
    BY <1>3, <2>1, <2>2, TwoSymbols
<1>6. /\ Opens(t) \subseteq 1..(e - 1) /\ Closes(t) \subseteq 1..(e - 1)
  BY <1>4 DEF Opens, Closes, Places
<1>7. \A k \in Opens(s) \union Closes(s) : k + 1 <= e <=> k \in 1..(e - 1)
  BY <1>1, TagsOf
<1>8. Opens(t) = {k \in Opens(s) : k + 1 <= e}
  BY <1>5, <1>6, <1>7
<1>9. Closes(t) = {k \in Closes(s) : k + 1 <= e}
  BY <1>5, <1>6, <1>7
<1> QED
  BY <1>3, <1>4, <1>8, <1>9 DEF t

\* What a prefix hides, in terms of the text.
LEMMA HiddenInPrefix ==
    ASSUME NEW s \in Seq(Symbol), NEW e \in 0..Len(s), NEW i \in 1..e
    PROVE  /\ Hidden(SubSeq(s, 1, e), i) <=>
                 \E k \in Opens(s) : /\ k <= i /\ k + 1 <= e
                                     /\ \A c \in Closes(s) : k < c => c + 1 >= i
           /\ i < e \/ s[e] # "<" => (Hidden(SubSeq(s, 1, e), i) <=> Hidden(s, i))
<1> DEFINE t == SubSeq(s, 1, e)
<1>1. /\ Len(s) \in Nat /\ e \in Nat /\ i \in Nat /\ 1 <= i /\ i <= e
  BY LenProperties
<1>2. /\ t \in Seq(Symbol)
      /\ Opens(t) = {k \in Opens(s) : k + 1 <= e}
      /\ Closes(t) = {k \in Closes(s) : k + 1 <= e}
  BY TagsOfPrefix
<1>3. \A k \in Opens(s) \union Closes(s) : k \in Nat
  BY TagsOf
<1>4. Hidden(t, i) <=>
        \E k \in Opens(t) : k <= i /\ \A c \in Closes(t) : k < c => c + 1 >= i
  BY <1>1, <1>2, HiddenMeans
<1> HIDE DEF t
<1>5. ASSUME NEW k \in Opens(s)
      PROVE  (\A c \in Closes(t) : k < c => c + 1 >= i)
               <=> (\A c \in Closes(s) : k < c => c + 1 >= i)
  <2>1. \A c \in Closes(s) : c \notin Closes(t) => c + 1 >= i
    BY <1>1, <1>2, <1>3
  <2>2. Closes(t) \subseteq Closes(s)
    BY <1>2
  <2> QED
    BY <2>1, <2>2
<1>6. Hidden(t, i) <=>
        \E k \in Opens(s) : /\ k <= i /\ k + 1 <= e
                            /\ \A c \in Closes(s) : k < c => c + 1 >= i
  BY <1>2, <1>4, <1>5
<1>7. ASSUME i < e \/ s[e] # "<", NEW k \in Opens(s), k <= i
      PROVE  k + 1 <= e
  <2>1. k \in Nat /\ s[k] = "<"
    BY TagsOf
  <2> QED
    BY <1>1, <1>7, <2>1
<1>8. i < e \/ s[e] # "<" => (Hidden(t, i) <=> Hidden(s, i))
  BY <1>1, <1>6, <1>7, HiddenMeans
<1> QED
  BY <1>6, <1>8 DEF t

(***************************************************************************)
(* The view of a text, a stretch at a time.                                *)
(***************************************************************************)

\* Texts are joined in any order.
LEMMA Reassociated ==
    \A u, v, w \in Seq(Symbol) : (u \o v) \o w = u \o (v \o w)
<1> DEFINE S == Seq(Symbol)
<1>1. ASSUME NEW u \in S, NEW v \in S, NEW w \in S
      PROVE  (u \o v) \o w = u \o (v \o w)
  BY ConcatAssociative, SMTT(30)
<1> HIDE DEF S
<1>2. \A u, v, w \in S : (u \o v) \o w = u \o (v \o w)
  BY <1>1
<1> QED
  BY <1>2 DEF S

\* A joined text is a text, and nothing joined to one leaves it as it is.
LEMMA Joined ==
    ASSUME NEW u \in Seq(Symbol), NEW v \in Seq(Symbol), NEW w \in Seq(Symbol)
    PROVE  /\ (u \o v) \o w = u \o (v \o w)
           /\ u \o v \in Seq(Symbol) /\ v \o w \in Seq(Symbol)
           /\ u \o << >> = u /\ << >> \o u = u
<1>1. (u \o v) \o w = u \o (v \o w)
  BY Reassociated
<1>2. u \o v \in Seq(Symbol) /\ v \o w \in Seq(Symbol)
  BY ConcatProperties
<1>3. u \o << >> = u /\ << >> \o u = u
  BY ConcatEmptySeq
<1> QED
  BY <1>1, <1>2, <1>3

\* A hidden stretch adds nothing to the view.
LEMMA HiddenStretch ==
    ASSUME NEW s \in Seq(Symbol), NEW a \in 0..Len(s), NEW b \in a..Len(s),
           \A i \in (a + 1)..b : Hidden(s, i)
    PROVE  View(s)[b] = View(s)[a]
<1> DEFINE Bad == {n \in a..b : View(s)[n] # View(s)[a]}
<1>1. Len(s) \in Nat /\ a \in Nat /\ b \in Nat /\ a <= b /\ b <= Len(s)
  BY LenProperties
<1>2. Bad = {}
  <2> SUFFICES ASSUME Bad # {} PROVE FALSE
    OBVIOUS
  <2>1. Bad \subseteq Nat
    BY <1>1
  <2>2. PICK n \in Bad : \A k \in Bad : n <= k
    <3> HIDE DEF Bad
    <3> QED
      BY <2>1, LeastNat
  <2>3. n \in Nat /\ a <= n /\ n <= b /\ View(s)[n] # View(s)[a]
    BY <1>1
  <2>4. n # a
    BY <2>3
  <2>5. n - 1 \in a..b /\ n \in (a + 1)..b /\ n \in 1..Len(s) /\ ~(n <= n - 1)
    BY <1>1, <2>3, <2>4
  <2>6. View(s)[n - 1] = View(s)[a]
    BY <2>2, <2>5
  <2>7. View(s)[n] = View(s)[n - 1]
    BY <2>5, ViewGrows
  <2> QED
    BY <2>3, <2>6, <2>7
<1>3. b \in a..b
  BY <1>1
<1> QED
  BY <1>2, <1>3

\* A stretch of which nothing is hidden is added to the view as it is.
LEMMA VisibleStretch ==
    ASSUME NEW s \in Seq(Symbol), NEW a \in 0..Len(s), NEW b \in a..Len(s),
           \A i \in (a + 1)..b : ~Hidden(s, i)
    PROVE  View(s)[b] = View(s)[a] \o SubSeq(s, a + 1, b)
<1> DEFINE Bad == {n \in a..b : View(s)[n] # View(s)[a] \o SubSeq(s, a + 1, n)}
<1>1. Len(s) \in Nat /\ a \in Nat /\ b \in Nat /\ a <= b /\ b <= Len(s)
  BY LenProperties
<1>2. View(s)[a] \in Seq(Symbol)
  BY ViewTyped
<1>3. Bad = {}
  <2> SUFFICES ASSUME Bad # {} PROVE FALSE
    OBVIOUS
  <2>1. Bad \subseteq Nat
    <3>1. Bad \subseteq a..b
      OBVIOUS
    <3> HIDE DEF Bad
    <3> QED
      BY <1>1, <3>1
  <2>2. PICK n \in Bad : \A k \in Bad : n <= k
    <3> HIDE DEF Bad
    <3> QED
      BY <2>1, LeastNat
  <2>3. /\ n \in Nat /\ a <= n /\ n <= b
        /\ View(s)[n] # View(s)[a] \o SubSeq(s, a + 1, n)
    <3>1. n \in a..b /\ View(s)[n] # View(s)[a] \o SubSeq(s, a + 1, n)
      OBVIOUS
    <3> HIDE DEF Bad
    <3>2. n \in a..b
      BY <3>1
    <3>3. n \in Nat /\ a <= n /\ n <= b
      BY <1>1, <3>2
    <3> QED
      BY <3>1, <3>3
  <2>4. CASE n = a
    <3>1. SubSeq(s, a + 1, n) = << >>
      BY <1>1, <2>4, SubSeqEmpty
    <3> QED
      BY <1>2, <2>3, <2>4, <3>1, ConcatEmptySeq
  <2>5. CASE n # a
    <3>1. /\ n - 1 \in a..b /\ n \in (a + 1)..b /\ n \in 1..Len(s) /\ ~(n <= n - 1)
          /\ a + 1 \in 1..Len(s) /\ n \in (a + 1)..Len(s)
      BY <1>1, <2>3, <2>5
    <3> DEFINE part == SubSeq(s, a + 1, n - 1)
    <3>2. View(s)[n - 1] = View(s)[a] \o part
      BY <2>2, <3>1
    <3>3. View(s)[n] = Append(View(s)[n - 1], s[n])
      BY <3>1, ViewGrows
    <3>4. SubSeq(s, a + 1, n) = part \o <<s[n]>>
      BY <3>1, SubSeqRecursiveSecond
    <3>5. s[n] \in Symbol
      BY <3>1, ElementOfSeq
    <3>6. part \in Seq(Symbol)
      <4>1. \A i \in (a + 1)..(n - 1) : s[i] \in Symbol
        <5>1. \A i \in (a + 1)..(n - 1) : i \in 1..Len(s)
          BY <1>1, <3>1
        <5> QED
          BY <5>1, ElementOfSeq
      <4>2. a + 1 \in Int /\ n - 1 \in Int
        BY <1>1, <2>3
      <4> QED
        BY <4>1, <4>2, SubSeqProperties
    <3> HIDE DEF part
    <3>7. View(s)[n - 1] \in Seq(Symbol)
      BY <1>2, <3>2, <3>6, ConcatProperties
    <3>8. Append(View(s)[n - 1], s[n]) = View(s)[n - 1] \o <<s[n]>>
      BY <3>5, <3>7, AppendIsConcat
    <3>9. <<s[n]>> \in Seq(Symbol)
      BY <3>5
    <3>10. (View(s)[a] \o part) \o <<s[n]>> = View(s)[a] \o (part \o <<s[n]>>)
      <4> DEFINE v == View(s)[a]
                 one == <<s[n]>>
      <4>1. v \in Seq(Symbol) /\ one \in Seq(Symbol)
        BY <1>2, <3>9
      <4> HIDE DEF v, one
      <4>2. (v \o part) \o one = v \o (part \o one)
        BY <3>6, <4>1, Reassociated, Zenon
      <4> QED
        BY <4>2 DEF v, one
    <3> QED
      BY <2>3, <3>2, <3>3, <3>4, <3>8, <3>10
  <2> QED
    BY <2>4, <2>5
<1>4. b \in a..b
  BY <1>1
<1> QED
  BY <1>3, <1>4

\* A prefix has the view of the text, as far as it hides what the text does.
LEMMA ViewOfPrefix ==
    ASSUME NEW s \in Seq(Symbol), NEW e \in 0..Len(s), NEW m \in 0..e,
           \A i \in 1..m : Hidden(SubSeq(s, 1, e), i) <=> Hidden(s, i)
    PROVE  View(SubSeq(s, 1, e))[m] = View(s)[m]
<1> DEFINE t == SubSeq(s, 1, e)
           Bad == {n \in 0..m : View(t)[n] # View(s)[n]}
<1>1. /\ Len(s) \in Nat /\ e \in Nat /\ m \in Nat /\ m <= e /\ e <= Len(s)
  BY LenProperties
<1>2. t \in Seq(Symbol) /\ Len(t) = e /\ \A i \in 1..e : t[i] = s[i]
  BY TagsOfPrefix
<1>3. \A i \in 1..m : Hidden(t, i) <=> Hidden(s, i)
  OBVIOUS
<1> HIDE DEF t
<1>4. Bad = {}
  <2> SUFFICES ASSUME Bad # {} PROVE FALSE
    OBVIOUS
  <2>1. Bad \subseteq Nat
    BY <1>1
  <2>2. PICK n \in Bad : \A k \in Bad : n <= k
    <3> HIDE DEF Bad
    <3> QED
      BY <2>1, LeastNat
  <2>3. n \in Nat /\ n <= m /\ View(t)[n] # View(s)[n]
    BY <1>1
  <2>4. View(t)[0] = View(s)[0]
    BY <1>2, ViewGrows
  <2>5. n # 0
    BY <2>3, <2>4
  <2>6. n - 1 \in 0..m /\ n \in 1..m /\ n \in 1..e /\ n \in 1..Len(s) /\ ~(n <= n - 1)
    BY <1>1, <2>3, <2>5
  <2>7. View(t)[n - 1] = View(s)[n - 1]
    BY <2>2, <2>6
  <2>8. View(t)[n] = IF Hidden(t, n) THEN View(t)[n - 1]
                     ELSE Append(View(t)[n - 1], t[n])
    BY <1>2, <2>6, ViewGrows
  <2>9. View(s)[n] = IF Hidden(s, n) THEN View(s)[n - 1]
                     ELSE Append(View(s)[n - 1], s[n])
    BY <2>6, ViewGrows
  <2>10. t[n] = s[n] /\ (Hidden(t, n) <=> Hidden(s, n))
    BY <1>2, <1>3, <2>6
  <2> QED
    BY <2>3, <2>7, <2>8, <2>9, <2>10
<1>5. m \in 0..m
  BY <1>1
<1> QED
  BY <1>4, <1>5 DEF t

\* What is visible of a prefix: what is certain, and a "<" at its end.
LEMMA VisibleOfPrefix ==
    ASSUME NEW s \in Seq(Symbol), NEW e \in 0..Len(s)
    PROVE  Visible(SubSeq(s, 1, e)) =
              View(s)[Certain(s, e)] \o
                 (IF Inside(s, e) THEN << >> ELSE Doubtful(s, e))
<1> DEFINE t == SubSeq(s, 1, e)
<1>1. Len(s) \in Nat /\ e \in Nat /\ e <= Len(s)
  BY LenProperties
<1>2. t \in Seq(Symbol) /\ Len(t) = e /\ \A i \in 1..e : t[i] = s[i]
  BY TagsOfPrefix
<1>3. Visible(t) = View(t)[e]
  BY <1>2, TheyAreChosen
<1>4. \A i \in 1..e : i < e \/ s[e] # "<" => (Hidden(t, i) <=> Hidden(s, i))
  BY HiddenInPrefix
<1>5. CASE ~(e > 0 /\ s[e] = "<")
  <2>1. \A i \in 1..e : Hidden(t, i) <=> Hidden(s, i)
    BY <1>1, <1>4, <1>5
  <2>2. View(t)[e] = View(s)[e]
    <3>1. e \in 0..e
      BY <1>1
    <3> QED
      BY <2>1, <3>1, ViewOfPrefix
  <2>3. View(s)[e] \in Seq(Symbol)
    BY ViewTyped
  <2>4. Certain(s, e) = e /\ Doubtful(s, e) = << >>
    BY <1>5 DEF Certain, Doubtful
  <2> HIDE DEF t
  <2>5. View(s)[e] \o << >> = View(s)[e]
    BY <2>3, ConcatEmptySeq
  <2> QED
    BY <1>3, <2>2, <2>4, <2>5 DEF t
<1>6. CASE e > 0 /\ s[e] = "<"
  <2>1. e - 1 \in 0..e /\ e - 1 \in 0..Len(s) /\ e \in 1..e
    BY <1>1, <1>6
  <2>2. \A i \in 1..(e - 1) : i \in 1..e /\ i < e
    BY <1>1
  <2>3. \A i \in 1..(e - 1) : Hidden(t, i) <=> Hidden(s, i)
    BY <1>4, <2>2
  <2>4. View(t)[e - 1] = View(s)[e - 1]
    BY <2>1, <2>3, ViewOfPrefix
  <2>5. View(t)[e] = IF Hidden(t, e) THEN View(t)[e - 1]
                     ELSE Append(View(t)[e - 1], t[e])
    BY <1>2, <2>1, ViewGrows
  <2>6. Hidden(t, e) <=> Inside(s, e)
    <3>1. Hidden(t, e) <=>
            \E k \in Opens(s) : /\ k <= e /\ k + 1 <= e
                                /\ \A c \in Closes(s) : k < c => c + 1 >= e
      BY <2>1, HiddenInPrefix
    <3>2. ASSUME NEW c \in Closes(s)
          PROVE  c \in Nat /\ (c + 1 >= e <=> c + 1 > e)
      <4>1. c \in Nat /\ s[c + 1] = "/thinking>"
        BY TagsOf
      <4>2. c + 1 # e
        BY <1>6, <4>1
      <4> QED
        BY <1>1, <4>1, <4>2
    <3>3. \A k \in Opens(s) : k \in Nat
      BY TagsOf
    <3> QED
      BY <1>1, <3>1, <3>2, <3>3 DEF Inside
  <2>7. t[e] = "<"
    BY <1>2, <1>6, <2>1
  <2>8. View(s)[e - 1] \in Seq(Symbol) /\ "<" \in Symbol
    BY <2>1, ViewTyped DEF Symbol
  <2>9. /\ Append(View(s)[e - 1], "<") = View(s)[e - 1] \o <<"<">>
        /\ View(s)[e - 1] \o << >> = View(s)[e - 1]
    BY <2>8, AppendIsConcat, ConcatEmptySeq
  <2>10. Certain(s, e) = e - 1 /\ Doubtful(s, e) = <<"<">>
    BY <1>6 DEF Certain, Doubtful
  <2> HIDE DEF t
  <2> QED
    BY <1>3, <2>4, <2>5, <2>6, <2>7, <2>9, <2>10 DEF t
<1> QED
  BY <1>5, <1>6

(***************************************************************************)
(* Reading a text from tag to tag.                                         *)
(***************************************************************************)

\* The reading may go on at b: no tag begins right before it.
Boundary(s, b) == b = 1 \/ s[b - 1] # "<" \/ (b <= Len(s) /\ s[b] = "<")

\* No tag stands across a boundary.
LEMMA NoTagAcross ==
    ASSUME NEW s \in Seq(Symbol), NEW b \in Nat, Boundary(s, b)
    PROVE  \A k \in Opens(s) \union Closes(s) : k + 1 # b
<1> SUFFICES ASSUME NEW k \in Opens(s) \union Closes(s), k + 1 = b PROVE FALSE
  OBVIOUS
<1>1. k \in Nat /\ k >= 1 /\ s[k] = "<" /\ s[k + 1] # "<"
  BY TagsOf
<1>2. b # 1 /\ b - 1 = k
  BY <1>1
<1> QED
  BY <1>1, <1>2 DEF Boundary

\* Outside the tags, all is visible up to the next opening one.
LEMMA OutsideStretch ==
    ASSUME NEW s \in Seq(Symbol), NEW b \in 1..(Len(s) + 1),
           NEW d \in (b - 1)..Len(s), Boundary(s, b), ~Inside(s, b - 1),
           \A k \in Opens(s) : b <= k => d < k
    PROVE  View(s)[b - 1] \o SubSeq(s, b, d) = View(s)[d]
<1>1. Len(s) \in Nat /\ b \in Nat /\ b >= 1 /\ d \in Nat /\ b - 1 <= d /\ d <= Len(s)
  BY LenProperties
<1>2. ASSUME NEW i \in b..d
      PROVE  ~Hidden(s, i)
  <2>1. i \in Nat /\ b <= i /\ i <= d
    BY <1>1
  <2> SUFFICES ASSUME NEW k \in Opens(s), k <= i,
                      \A c \in Closes(s) : k < c => c + 1 >= i
               PROVE  FALSE
    BY <2>1, HiddenMeans
  <2>2. k \in Nat /\ k + 1 # b
    BY <1>1, NoTagAcross, TagsOf
  <2>3. k + 1 <= b - 1
    BY <1>1, <2>1, <2>2
  <2>4. PICK c \in Closes(s) : k < c /\ ~(c + 1 > b - 1)
    BY <2>3 DEF Inside
  <2>5. c \in Nat
    BY TagsOf
  <2> QED
    BY <1>1, <2>1, <2>4, <2>5
<1>3. /\ b - 1 \in 0..Len(s) /\ (b - 1) + 1 = b
      /\ \A i \in ((b - 1) + 1)..d : i \in b..d
  BY <1>1
<1> QED
  BY <1>2, <1>3, VisibleStretch

\* Inside a thought, all is hidden up to the end of the next closing tag.
LEMMA InsideStretch ==
    ASSUME NEW s \in Seq(Symbol), NEW b \in 1..(Len(s) + 1),
           NEW d \in (b - 1)..Len(s), Boundary(s, b), Inside(s, b - 1),
           \A c \in Closes(s) : b <= c => d <= c + 1
    PROVE  View(s)[b - 1] = View(s)[d]
<1>1. Len(s) \in Nat /\ b \in Nat /\ b >= 1 /\ d \in Nat /\ b - 1 <= d /\ d <= Len(s)
  BY LenProperties
<1>2. PICK k \in Opens(s) : /\ k + 1 <= b - 1
                            /\ \A c \in Closes(s) : k < c => c + 1 > b - 1
  BY DEF Inside
<1>3. k \in Nat
  BY TagsOf
<1>4. ASSUME NEW i \in b..d
      PROVE  Hidden(s, i)
  <2>1. i \in Nat /\ b <= i /\ i <= d
    BY <1>1
  <2>2. ASSUME NEW c \in Closes(s), k < c
        PROVE  c + 1 >= i
    <3>1. c \in Nat /\ c + 1 # b /\ c + 1 > b - 1
      BY <1>1, <1>2, <2>2, NoTagAcross, TagsOf
    <3>2. b <= c
      BY <1>1, <3>1
    <3> QED
      BY <1>1, <2>1, <3>1, <3>2
  <2> QED
    BY <1>1, <1>2, <1>3, <2>1, <2>2, HiddenMeans
<1>5. /\ b - 1 \in 0..Len(s) /\ (b - 1) + 1 = b
      /\ \A i \in ((b - 1) + 1)..d : i \in b..d
  BY <1>1
<1> QED
  BY <1>4, <1>5, HiddenStretch

\* An opening tag is found: what is before it is visible, and the reading
\* goes on inside, behind it.
LEMMA ReadOpens ==
    ASSUME NEW s \in Seq(Symbol), NEW b \in 1..(Len(s) + 1),
           Boundary(s, b), ~Inside(s, b - 1),
           NEW o \in Opens(s), b <= o, \A k \in Opens(s) : b <= k => o <= k
    PROVE  /\ View(s)[b - 1] \o SubSeq(s, b, o - 1) = View(s)[o + 1]
           /\ Inside(s, o + 1) /\ Boundary(s, o + 2)
<1>1. /\ Len(s) \in Nat /\ b \in Nat /\ b >= 1 /\ o \in Nat /\ o + 1 <= Len(s)
      /\ s[o + 1] # "<"
  BY TagsOf
<1>2. o - 1 \in (b - 1)..Len(s) /\ \A k \in Opens(s) : b <= k => o - 1 < k
  BY <1>1, TagsOf
<1>3. View(s)[b - 1] \o SubSeq(s, b, o - 1) = View(s)[o - 1]
  BY <1>2, OutsideStretch
<1>4. \A c \in Closes(s) : o < c => c \in Nat /\ c >= o + 2
  BY <1>1, TagsOf
<1>5. ASSUME NEW i \in o..(o + 1)
      PROVE  Hidden(s, i)
  <2>1. i \in Nat /\ o <= i /\ i <= o + 1
    BY <1>1
  <2>2. \A c \in Closes(s) : o < c => c + 1 >= i
    BY <1>1, <1>4, <2>1
  <2> QED
    BY <2>1, <2>2, HiddenMeans
<1>6. View(s)[o + 1] = View(s)[o - 1]
  <2>1. /\ o - 1 \in 0..Len(s) /\ o + 1 \in (o - 1)..Len(s) /\ (o - 1) + 1 = o
        /\ \A i \in ((o - 1) + 1)..(o + 1) : i \in o..(o + 1)
    BY <1>1, <1>2
  <2> QED
    BY <1>5, <2>1, HiddenStretch
<1>7. Inside(s, o + 1)
  <2>1. o + 1 <= o + 1 /\ \A c \in Closes(s) : o < c => c + 1 > o + 1
    BY <1>1, <1>4
  <2> QED
    BY <2>1 DEF Inside
<1>8. Boundary(s, o + 2)
  <2>1. (o + 2) - 1 = o + 1
    BY <1>1
  <2> QED
    BY <1>1, <2>1 DEF Boundary
<1> QED
  BY <1>3, <1>6, <1>7, <1>8

\* A closing tag is found: all up to its end is hidden, and the reading goes
\* on outside.
LEMMA ReadCloses ==
    ASSUME NEW s \in Seq(Symbol), NEW b \in 1..(Len(s) + 1),
           Boundary(s, b), Inside(s, b - 1),
           NEW o \in Closes(s), b <= o, \A c \in Closes(s) : b <= c => o <= c
    PROVE  /\ View(s)[b - 1] = View(s)[o + 1]
           /\ ~Inside(s, o + 1) /\ Boundary(s, o + 2)
<1>1. /\ Len(s) \in Nat /\ b \in Nat /\ b >= 1 /\ o \in Nat /\ o + 1 <= Len(s)
      /\ s[o + 1] # "<"
  BY TagsOf
<1>2. o + 1 \in (b - 1)..Len(s) /\ \A c \in Closes(s) : b <= c => o + 1 <= c + 1
  BY <1>1, TagsOf
<1>3. View(s)[b - 1] = View(s)[o + 1]
  BY <1>2, InsideStretch
<1>4. ~Inside(s, o + 1)
  <2> SUFFICES ASSUME NEW k \in Opens(s), k + 1 <= o + 1,
                      \A c \in Closes(s) : k < c => c + 1 > o + 1
               PROVE  FALSE
    BY DEF Inside
  <2>1. k \in Nat /\ k # o
    BY TagsOf
  <2>2. k < o
    BY <1>1, <2>1
  <2> QED
    BY <1>1, <2>2
<1>5. Boundary(s, o + 2)
  <2>1. (o + 2) - 1 = o + 1
    BY <1>1
  <2> QED
    BY <1>1, <2>1 DEF Boundary
<1> QED
  BY <1>3, <1>4, <1>5

\* What is certain of the first e symbols ends inside a thought as they do.
LEMMA CertainEnd ==
    ASSUME NEW s \in Seq(Symbol), NEW e \in 0..Len(s)
    PROVE  /\ Certain(s, e) \in 0..e
           /\ Boundary(s, Certain(s, e) + 1)
           /\ Inside(s, Certain(s, e)) <=> Inside(s, e)
<1>1. Len(s) \in Nat /\ e \in Nat /\ e <= Len(s)
  BY LenProperties
<1>2. CASE ~(e > 0 /\ s[e] = "<")
  <2>1. Certain(s, e) = e
    BY <1>2 DEF Certain
  <2>2. e + 1 = 1 \/ s[(e + 1) - 1] # "<"
    <3>1. (e + 1) - 1 = e /\ (e = 0 \/ s[e] # "<")
      BY <1>1, <1>2
    <3> QED
      BY <1>1, <3>1
  <2> QED
    BY <1>1, <2>1, <2>2 DEF Boundary
<1>3. CASE e > 0 /\ s[e] = "<"
  <2>1. Certain(s, e) = e - 1 /\ e - 1 \in 0..e /\ (e - 1) + 1 = e
    BY <1>1, <1>3 DEF Certain
  <2>2. Boundary(s, e)
    BY <1>1, <1>3 DEF Boundary
  <2>3. ASSUME NEW k \in Opens(s)
        PROVE  k + 1 <= e - 1 <=> k + 1 <= e
    <3>1. k \in Nat /\ k + 1 # e
      BY <1>1, <2>2, NoTagAcross, TagsOf
    <3> QED
      BY <1>1, <3>1
  <2>4. ASSUME NEW c \in Closes(s)
        PROVE  c + 1 > e - 1 <=> c + 1 > e
    <3>1. c \in Nat /\ c + 1 # e
      BY <1>1, <2>2, NoTagAcross, TagsOf
    <3> QED
      BY <1>1, <3>1
  <2>5. Inside(s, e - 1) <=> Inside(s, e)
    BY <2>3, <2>4 DEF Inside
  <2> QED
    BY <2>1, <2>2, <2>5
<1> QED
  BY <1>2, <1>3

\* No more tag is found in the first e symbols, outside a thought.
LEMMA ReadEndsOutside ==
    ASSUME NEW s \in Seq(Symbol), NEW e \in 0..Len(s), NEW b \in 1..(e + 1),
           Boundary(s, b), b - 1 <= Certain(s, e), ~Inside(s, b - 1),
           \A k \in Opens(s) : b <= k => e < k + 1
    PROVE  /\ View(s)[b - 1] \o SubSeq(s, b, Certain(s, e)) = View(s)[Certain(s, e)]
           /\ ~Inside(s, e)
<1> DEFINE d == Certain(s, e)
<1>1. /\ Len(s) \in Nat /\ e \in Nat /\ e <= Len(s) /\ b \in Nat /\ b >= 1
      /\ b <= e + 1 /\ d \in 0..e /\ b - 1 <= d
  BY LenProperties, CertainEnd
<1>2. \A k \in Opens(s) : b <= k => d < k
  <2> SUFFICES ASSUME NEW k \in Opens(s), b <= k, ~(d < k) PROVE FALSE
    OBVIOUS
  <2>1. k \in Nat /\ e < k + 1 /\ s[k] = "<"
    BY TagsOf
  <2>2. k = e /\ d = e
    BY <1>1, <2>1
  <2>3. e > 0
    BY <1>1, <2>2
  <2> QED
    BY <1>1, <2>1, <2>2, <2>3 DEF Certain
<1>3. b \in 1..(Len(s) + 1) /\ d \in (b - 1)..Len(s)
  BY <1>1
<1>4. View(s)[b - 1] \o SubSeq(s, b, d) = View(s)[d]
  BY <1>2, <1>3, OutsideStretch
<1>5. ~Inside(s, e)
  <2> SUFFICES ASSUME NEW k \in Opens(s), k + 1 <= e,
                      \A c \in Closes(s) : k < c => c + 1 > e
               PROVE  FALSE
    BY DEF Inside
  <2>1. k \in Nat /\ k + 1 # b
    BY <1>1, NoTagAcross, TagsOf
  <2>2. k + 1 <= b - 1
    BY <1>1, <2>1
  <2>3. PICK c \in Closes(s) : k < c /\ ~(c + 1 > b - 1)
    BY <2>2 DEF Inside
  <2>4. c \in Nat
    BY TagsOf
  <2> QED
    BY <1>1, <2>3, <2>4
<1> QED
  BY <1>4, <1>5

\* So inside one.
LEMMA ReadEndsInside ==
    ASSUME NEW s \in Seq(Symbol), NEW e \in 0..Len(s), NEW b \in 1..(e + 1),
           Boundary(s, b), b - 1 <= Certain(s, e), Inside(s, b - 1),
           \A c \in Closes(s) : b <= c => e < c + 1
    PROVE  /\ View(s)[b - 1] = View(s)[Certain(s, e)]
           /\ Inside(s, e)
<1> DEFINE d == Certain(s, e)
<1>1. /\ Len(s) \in Nat /\ e \in Nat /\ e <= Len(s) /\ b \in Nat /\ b >= 1
      /\ b <= e + 1 /\ d \in 0..e /\ b - 1 <= d
  BY LenProperties, CertainEnd
<1>2. /\ b \in 1..(Len(s) + 1) /\ d \in (b - 1)..Len(s)
      /\ \A c \in Closes(s) : b <= c => d <= c + 1
  BY <1>1, TagsOf
<1>3. View(s)[b - 1] = View(s)[d]
  BY <1>2, InsideStretch
<1>4. PICK k \in Opens(s) : /\ k + 1 <= b - 1
                            /\ \A c \in Closes(s) : k < c => c + 1 > b - 1
  BY DEF Inside
<1>5. ASSUME NEW c \in Closes(s), k < c
      PROVE  c + 1 > e
  <2>1. c \in Nat /\ c + 1 # b /\ c + 1 > b - 1
    BY <1>1, <1>4, <1>5, NoTagAcross, TagsOf
  <2>2. b <= c
    BY <1>1, <2>1
  <2> QED
    BY <1>1, <2>1, <2>2
<1>6. k \in Nat /\ k + 1 <= e
  BY <1>1, <1>4, TagsOf
<1> QED
  BY <1>3, <1>5, <1>6 DEF Inside

\* There is a greatest of any positions.
LEMMA LastPosition ==
    ASSUME NEW n \in Nat, NEW T, T \subseteq 1..n, T # {}
    PROVE  \E b \in T : \A c \in T : c <= b
<1> DEFINE D == {d \in Nat : n - d \in T}
<1>1. \A b \in T : b \in Nat /\ b <= n /\ n - b \in Nat /\ n - (n - b) = b
  OBVIOUS
<1>2. \A b \in T : n - b \in D
  BY <1>1
<1>3. D \subseteq Nat /\ D # {}
  <2>1. PICK b \in T : TRUE
    OBVIOUS
  <2> QED
    BY <1>2, <2>1
<1>4. PICK d \in D : \A k \in D : d <= k
  <2> HIDE DEF D
  <2> QED
    BY <1>3, LeastNat
<1>5. d \in Nat /\ n - d \in T
  OBVIOUS
<1> HIDE DEF D
<1>6. ASSUME NEW c \in T
      PROVE  c <= n - d
  <2>1. d <= n - c /\ c \in Nat
    BY <1>1, <1>2, <1>4
  <2> QED
    BY <1>5, <2>1
<1> QED
  BY <1>5, <1>6

\* A stretch of a text is a text.
LEMMA Stretch ==
    ASSUME NEW s \in Seq(Symbol), NEW b \in 1..(Len(s) + 1),
           NEW d \in (b - 1)..Len(s)
    PROVE  /\ SubSeq(s, b, d) \in Seq(Symbol)
           /\ Len(SubSeq(s, b, d)) = d - b + 1
           /\ \A i \in 1..(d - b + 1) : SubSeq(s, b, d)[i] = s[b + i - 1]
<1>1. /\ Len(s) \in Nat /\ b \in Int /\ d \in Int /\ b >= 1
      /\ b - 1 <= d /\ d <= Len(s)
  BY LenProperties
<1>2. \A i \in b..d : i \in 1..Len(s)
  BY <1>1
<1>3. \A i \in b..d : s[i] \in Symbol
  BY <1>2, ElementOfSeq
<1>4. /\ SubSeq(s, b, d) \in Seq(Symbol)
      /\ Len(SubSeq(s, b, d)) = IF b <= d THEN d - b + 1 ELSE 0
      /\ \A i \in 1..(d - b + 1) : SubSeq(s, b, d)[i] = s[b + i - 1]
  BY <1>1, <1>3, SubSeqProperties
<1>5. ~(b <= d) => d - b + 1 = 0
  BY <1>1
<1> QED
  BY <1>4, <1>5

(***************************************************************************)
(* ThinkingFilter.clean, on the whole of a text.                           *)
(***************************************************************************)

\* What clean makes of the text from b on is what is visible of it.
CleanFrom(f, s, b) ==
    Boundary(s, b) /\ ~Inside(s, b - 1) =>
        /\ f[b] \in Seq(Symbol)
        /\ View(s)[b - 1] \o f[b] = View(s)[Len(s)]

\* If that is so further on, it is so here.
LEMMA CleanStep ==
    ASSUME NEW s \in Seq(Symbol), NEW f, Cleans(f, s, 1), ~Inside(s, Len(s)),
           NEW b \in 1..(Len(s) + 1),
           \A c \in 1..(Len(s) + 1) : c > b => CleanFrom(f, s, c)
    PROVE  CleanFrom(f, s, b)
<1> SUFFICES ASSUME Boundary(s, b), ~Inside(s, b - 1)
             PROVE  /\ f[b] \in Seq(Symbol)
                    /\ View(s)[b - 1] \o f[b] = View(s)[Len(s)]
  BY DEF CleanFrom
<1> DEFINE open == Find(s, OpenTag, b)
           close == Find(s, CloseTag, open + 2)
<1>1. Len(s) \in Nat /\ b \in Nat /\ b >= 1 /\ b <= Len(s) + 1
  BY LenProperties
<1>2. /\ open \in Nat
      /\ open = 0 => \A k \in Opens(s) : k < b
      /\ open # 0 => /\ open \in Opens(s) /\ open >= b
                     /\ \A k \in Opens(s) : k >= b => open <= k
  BY <1>1, FindFirst DEF Opens
<1>3. open + 2 \in Nat /\ open + 2 >= 1
  BY <1>2
<1>4. /\ close \in Nat
      /\ close = 0 => \A c \in Closes(s) : c < open + 2
      /\ close # 0 => /\ close \in Closes(s) /\ close >= open + 2
                      /\ \A c \in Closes(s) : c >= open + 2 => close <= c
  BY <1>3, FindFirst DEF Closes
<1>5. f[b] = IF open = 0 \/ close = 0 THEN SubSeq(s, b, Len(s))
             ELSE SubSeq(s, b, open - 1) \o f[close + 2]
  <2>1. f[b] = CleanBody(f, s, b)
    BY DEF Cleans
  <2> QED
    BY <2>1 DEF CleanBody
<1> HIDE DEF open, close
<1>6. CASE open = 0
  <2>1. Len(s) \in (b - 1)..Len(s) /\ \A k \in Opens(s) : b <= k => Len(s) < k
    BY <1>1, <1>2, <1>6, TagsOf
  <2>2. View(s)[b - 1] \o SubSeq(s, b, Len(s)) = View(s)[Len(s)]
    BY <2>1, OutsideStretch
  <2>3. SubSeq(s, b, Len(s)) \in Seq(Symbol)
    BY <2>1, Stretch
  <2> QED
    BY <1>5, <1>6, <2>2, <2>3
<1>7. CASE open # 0
  <2>1. /\ open \in Opens(s) /\ b <= open /\ \A k \in Opens(s) : b <= k => open <= k
        /\ open + 1 <= Len(s)
    BY <1>1, <1>2, <1>7, TagsOf
  <2>2. /\ View(s)[b - 1] \o SubSeq(s, b, open - 1) = View(s)[open + 1]
        /\ Inside(s, open + 1) /\ Boundary(s, open + 2)
    BY <2>1, ReadOpens
  <2>3. CASE close = 0
    <3>1. ASSUME NEW c \in Closes(s), open < c
          PROVE  FALSE
      <4>1. c \in Nat /\ c # open + 1 /\ c < open + 2
        BY <1>4, <2>1, <2>3, TagsOf
      <4> QED
        BY <1>2, <3>1, <4>1
    <3>2. Inside(s, Len(s))
      BY <2>1, <3>1 DEF Inside
    <3> QED
      BY <3>2
  <2>4. CASE close # 0
    <3>1. /\ close \in Closes(s) /\ open + 2 <= close /\ close + 1 <= Len(s)
          /\ \A c \in Closes(s) : open + 2 <= c => close <= c
      BY <1>2, <1>4, <2>4, TagsOf
    <3>2. (open + 2) - 1 = open + 1 /\ open + 2 \in 1..(Len(s) + 1)
      BY <1>1, <1>2, <2>1
    <3>3. /\ View(s)[open + 1] = View(s)[close + 1]
          /\ ~Inside(s, close + 1) /\ Boundary(s, close + 2)
      BY <2>2, <3>1, <3>2, ReadCloses
    <3>4. /\ (close + 2) - 1 = close + 1 /\ close + 2 \in 1..(Len(s) + 1)
          /\ close + 2 > b /\ close + 1 \in 0..Len(s) /\ b - 1 \in 0..Len(s)
          /\ open - 1 \in (b - 1)..Len(s)
      BY <1>1, <1>2, <1>4, <2>1, <3>1
    <3>5. /\ f[close + 2] \in Seq(Symbol)
          /\ View(s)[close + 1] \o f[close + 2] = View(s)[Len(s)]
      <4>1. CleanFrom(f, s, close + 2)
        BY <3>4
      <4> QED
        BY <3>3, <3>4, <4>1 DEF CleanFrom
    <3> DEFINE part == SubSeq(s, b, open - 1)
               rest == f[close + 2]
               v == View(s)[b - 1]
    <3>6. part \in Seq(Symbol) /\ rest \in Seq(Symbol) /\ v \in Seq(Symbol)
      BY <3>4, <3>5, Stretch, ViewTyped
    <3>7. f[b] = part \o rest
      BY <1>5, <1>7, <2>4
    <3>8. v \o part = View(s)[close + 1]
      BY <2>2, <3>3
    <3>9. View(s)[close + 1] \o rest = View(s)[Len(s)]
      BY <3>5
    <3> SUFFICES f[b] \in Seq(Symbol) /\ v \o f[b] = View(s)[Len(s)]
      OBVIOUS
    <3> HIDE DEF part, rest, v
    <3>10. part \o rest \in Seq(Symbol)
      BY <3>6, ConcatProperties
    <3>11. (v \o part) \o rest = v \o (part \o rest)
      BY <3>6, Reassociated, Zenon
    <3> QED
      BY <3>7, <3>8, <3>9, <3>10, <3>11
  <2> QED
    BY <2>3, <2>4
<1> QED
  BY <1>6, <1>7

\* The whole text is cleaned to what is visible of it, unless it ends inside
\* a thought.
LEMMA CleanIsVisible ==
    ASSUME NEW s \in Seq(Symbol), ~Inside(s, Len(s))
    PROVE  Clean(s) = View(s)[Len(s)]
<1> DEFINE f == CHOOSE g : Cleans(g, s, 1)
           Bad == {b \in 1..(Len(s) + 1) : ~CleanFrom(f, s, b)}
<1>1. Cleans(f, s, 1)
  BY CleanExists
<1>2. Clean(s) = f[1]
  BY TheyAreChosen
<1> HIDE DEF f
<1>3. Len(s) \in Nat /\ Len(s) + 1 \in Nat /\ 1 \in 1..(Len(s) + 1) /\ 1 - 1 = 0
  BY LenProperties
<1>4. Bad = {}
  <2> SUFFICES ASSUME Bad # {} PROVE FALSE
    OBVIOUS
  <2>1. Bad \subseteq 1..(Len(s) + 1)
    OBVIOUS
  <2>2. PICK b \in Bad : \A c \in Bad : c <= b
    <3> HIDE DEF Bad
    <3> QED
      BY <1>3, <2>1, LastPosition
  <2>3. b \in 1..(Len(s) + 1) /\ ~CleanFrom(f, s, b)
    OBVIOUS
  <2>4. \A c \in 1..(Len(s) + 1) : c > b => CleanFrom(f, s, c)
    <3> SUFFICES ASSUME NEW c \in 1..(Len(s) + 1), c > b PROVE c \notin Bad
      OBVIOUS
    <3> HIDE DEF Bad
    <3> QED
      BY <1>3, <2>2, <2>3
  <2> QED
    BY <1>1, <2>3, <2>4, CleanStep
<1>5. CleanFrom(f, s, 1)
  BY <1>3, <1>4
<1>6. Boundary(s, 1)
  BY DEF Boundary
<1>7. ~Inside(s, 1 - 1)
  <2>1. \A k \in Opens(s) : ~(k + 1 <= 0)
    BY TagsOf
  <2> QED
    BY <1>3, <2>1 DEF Inside
<1>8. f[1] \in Seq(Symbol) /\ View(s)[0] \o f[1] = View(s)[Len(s)]
  BY <1>3, <1>5, <1>6, <1>7 DEF CleanFrom
<1>9. View(s)[0] = << >>
  BY ViewGrows
<1> QED
  BY <1>2, <1>8, <1>9, ConcatEmptySeq

(***************************************************************************)
(* ThinkingFilter.delta, on any cut of a text.                             *)
(***************************************************************************)

\* A stretch of a stretch.
LEMMA StretchOfStretch ==
    ASSUME NEW s \in Seq(Symbol), NEW a \in 1..(Len(s) + 1), NEW e \in (a - 1)..Len(s),
           NEW b \in a..(e + 1), NEW d \in (b - 1)..e
    PROVE  SubSeq(SubSeq(s, a, e), b - a + 1, d - a + 1) = SubSeq(s, b, d)
<1> DEFINE t == SubSeq(s, a, e)
           u == SubSeq(t, b - a + 1, d - a + 1)
           v == SubSeq(s, b, d)
<1>1. /\ Len(s) \in Nat /\ a \in Nat /\ b \in Nat /\ e \in Nat /\ d \in Nat
      /\ 1 <= a /\ a - 1 <= e /\ e <= Len(s) /\ a <= b /\ b <= e + 1
      /\ b - 1 <= d /\ d <= e
  BY LenProperties
<1>2. /\ t \in Seq(Symbol) /\ Len(t) = e - a + 1
      /\ \A i \in 1..(e - a + 1) : t[i] = s[a + i - 1]
  BY Stretch
<1>3. /\ b \in 1..(Len(s) + 1) /\ d \in (b - 1)..Len(s)
      /\ b - a + 1 \in 1..(Len(t) + 1) /\ d - a + 1 \in ((b - a + 1) - 1)..Len(t)
  BY <1>1, <1>2
<1>4. /\ v \in Seq(Symbol) /\ Len(v) = d - b + 1
      /\ \A i \in 1..(d - b + 1) : v[i] = s[b + i - 1]
  BY <1>3, Stretch
<1> HIDE DEF t
<1>5. /\ u \in Seq(Symbol) /\ Len(u) = (d - a + 1) - (b - a + 1) + 1
      /\ \A i \in 1..((d - a + 1) - (b - a + 1) + 1) : u[i] = t[(b - a + 1) + i - 1]
  BY <1>2, <1>3, Stretch
<1> HIDE DEF u, v
<1>6. (d - a + 1) - (b - a + 1) + 1 = d - b + 1
  BY <1>1
<1>7. ASSUME NEW i \in 1..(d - b + 1)
      PROVE  u[i] = v[i]
  <2>1. /\ (b - a + 1) + i - 1 \in 1..(e - a + 1)
        /\ a + ((b - a + 1) + i - 1) - 1 = b + i - 1
    BY <1>1
  <2> QED
    BY <1>2, <1>4, <1>5, <1>6, <2>1
<1>8. u = v
  BY <1>4, <1>5, <1>6, <1>7, SeqEqual
<1> QED
  BY <1>8 DEF t, u, v

\* What Find finds in the stretch a..e of a text, in terms of the text.
LEMMA FindInStretch ==
    ASSUME NEW s \in Seq(Symbol), NEW a \in 1..(Len(s) + 1), NEW e \in (a - 1)..Len(s),
           NEW b \in a..(e + 1), NEW tag
    PROVE  LET at == Find(SubSeq(s, a, e), tag, b - a + 1)
               o == at + a - 1
           IN  /\ at \in Nat
               /\ at = 0 => \A k \in Places(s, tag) : b <= k => e < k + 1
               /\ at # 0 => /\ o \in Places(s, tag) /\ b <= o /\ o + 1 <= e
                            /\ \A k \in Places(s, tag) : b <= k => o <= k
<1> DEFINE t == SubSeq(s, a, e)
           at == Find(t, tag, b - a + 1)
           o == at + a - 1
<1>1. /\ Len(s) \in Nat /\ a \in Nat /\ b \in Nat /\ e \in Nat
      /\ 1 <= a /\ a - 1 <= e /\ e <= Len(s) /\ a <= b /\ b <= e + 1
  BY LenProperties
<1>2. t \in Seq(Symbol) /\ Len(t) = e - a + 1
  BY Stretch
<1>3. ASSUME NEW k \in 1..(Len(s) - 1), a <= k, k + 1 <= e
      PROVE  SubSeq(t, k - a + 1, k - a + 2) = SubSeq(s, k, k + 1)
  <2>1. /\ k \in a..(e + 1) /\ k + 1 \in (k - 1)..e /\ (k + 1) - a + 1 = k - a + 2
    BY <1>1, <1>3
  <2>2. SubSeq(SubSeq(s, a, e), k - a + 1, (k + 1) - a + 1) = SubSeq(s, k, k + 1)
    BY <2>1, StretchOfStretch
  <2> QED
    BY <2>1, <2>2
<1> HIDE DEF t
<1>4. ASSUME NEW k \in 1..(Len(s) - 1), a <= k, k + 1 <= e, k \in Places(s, tag)
      PROVE  k - a + 1 \in Places(t, tag)
  <2>1. k - a + 1 \in 1..(Len(t) - 1) /\ (k - a + 1) + 1 = k - a + 2
    BY <1>1, <1>2, <1>4
  <2> QED
    BY <1>3, <1>4, <2>1 DEF Places
<1>5. ASSUME NEW i \in Places(t, tag)
      PROVE  i + a - 1 \in Places(s, tag) /\ i \in Nat
  <2>1. i \in 1..(Len(t) - 1) /\ SubSeq(t, i, i + 1) = tag
    BY <1>5 DEF Places
  <2>2. /\ i + a - 1 \in 1..(Len(s) - 1) /\ a <= i + a - 1 /\ (i + a - 1) + 1 <= e
        /\ (i + a - 1) - a + 1 = i /\ (i + a - 1) - a + 2 = i + 1
    BY <1>1, <1>2, <2>1
  <2>3. SubSeq(t, i, i + 1) = SubSeq(s, i + a - 1, (i + a - 1) + 1)
    BY <1>3, <2>2
  <2> QED
    BY <2>1, <2>2, <2>3 DEF Places
<1>6. b - a + 1 \in Nat /\ b - a + 1 >= 1
  BY <1>1
<1>7. /\ at \in Nat
      /\ at = 0 => \A k \in Places(t, tag) : k < b - a + 1
      /\ at # 0 => /\ at \in Places(t, tag) /\ at >= b - a + 1
                   /\ at >= 1 /\ at + 1 <= Len(t)
                   /\ \A k \in Places(t, tag) : k >= b - a + 1 => at <= k
  BY <1>2, <1>6, FindFirst
<1> HIDE DEF at
<1>8. Places(s, tag) \subseteq 1..(Len(s) - 1)
  BY DEF Places
<1>9. CASE at = 0
  <2> SUFFICES ASSUME NEW k \in Places(s, tag), b <= k, ~(e < k + 1) PROVE FALSE
    BY <1>7, <1>9 DEF at, t
  <2>1. k \in 1..(Len(s) - 1) /\ a <= k /\ k + 1 <= e /\ k \in Nat
    BY <1>1, <1>8
  <2>2. k - a + 1 \in Places(t, tag)
    BY <1>4, <2>1
  <2>3. k - a + 1 < b - a + 1
    BY <1>7, <1>9, <2>2
  <2> QED
    BY <1>1, <2>1, <2>3
<1>10. CASE at # 0
  <2>1. o \in Places(s, tag)
    BY <1>5, <1>7, <1>10
  <2>2. b <= o /\ o + 1 <= e
    BY <1>1, <1>2, <1>7, <1>10
  <2>3. ASSUME NEW k \in Places(s, tag), b <= k
        PROVE  o <= k
    <3>1. k \in 1..(Len(s) - 1) /\ k \in Nat
      BY <1>1, <1>8
    <3>2. CASE k + 1 <= e
      <4>1. k - a + 1 \in Places(t, tag)
        BY <1>1, <1>4, <2>3, <3>1, <3>2
      <4>2. k - a + 1 >= b - a + 1
        BY <1>1, <2>3, <3>1
      <4>3. at <= k - a + 1
        BY <1>7, <1>10, <4>1, <4>2
      <4> QED
        BY <1>1, <1>7, <3>1, <4>3
    <3>3. CASE ~(k + 1 <= e)
      BY <1>1, <1>7, <2>2, <3>1, <3>3
    <3> QED
      BY <3>2, <3>3
  <2> QED
    BY <1>7, <1>10, <2>1, <2>2, <2>3 DEF at, t
<1> QED
  BY <1>9, <1>10

\* What the filter holds back of the stretch b..e of a text: a "<" at its end.
LEMMA HeldBack ==
    ASSUME NEW s \in Seq(Symbol), NEW e \in 0..Len(s), NEW b \in 1..(e + 1),
           b - 1 <= Certain(s, e), NEW tag \in Tag
    PROVE  /\ PartialSuffix(SubSeq(s, b, e), tag) = Doubtful(s, e)
           /\ Len(Doubtful(s, e)) = e - Certain(s, e)
<1> DEFINE t == SubSeq(s, b, e)
<1>1. /\ Len(s) \in Nat /\ e \in Nat /\ b \in Nat /\ 1 <= b /\ b <= e + 1
      /\ e <= Len(s)
  BY LenProperties
<1>2. b \in 1..(Len(s) + 1) /\ e \in (b - 1)..Len(s)
  BY <1>1
<1>3. /\ t \in Seq(Symbol) /\ Len(t) = e - b + 1
      /\ \A i \in 1..(e - b + 1) : t[i] = s[b + i - 1]
  BY <1>2, Stretch
<1>4. tag[1] = "<"
  BY DEF Tag, OpenTag, CloseTag
<1> HIDE DEF t
<1>5. CASE b = e + 1
  <2>1. t = << >>
    <3>1. Len(t) = 0
      BY <1>1, <1>3, <1>5
    <3> QED
      BY <1>3, <3>1, EmptySeq
  <2>2. ~(e > 0 /\ s[e] = "<")
    BY <1>1, <1>5 DEF Certain
  <2>3. Doubtful(s, e) = << >> /\ Certain(s, e) = e
    BY <2>2 DEF Doubtful, Certain
  <2> QED
    BY <1>1, <2>1, <2>3 DEF PartialSuffix, t
<1>6. CASE b # e + 1
  <2>1. Len(t) \in 1..(e - b + 1) /\ b + Len(t) - 1 = e /\ e > 0 /\ Len(t) # 0
    BY <1>1, <1>3, <1>6
  <2>2. t[Len(t)] = s[e] /\ t # << >>
    BY <1>3, <2>1
  <2>3. PartialSuffix(t, tag) = IF s[e] = "<" THEN <<"<">> ELSE << >>
    BY <1>4, <2>2 DEF PartialSuffix
  <2> QED
    BY <1>1, <2>1, <2>3 DEF Doubtful, Certain, t
<1> QED
  BY <1>5, <1>6

\* A step of the scan, outside a thought.
LEMMA ScanOutside ==
    ASSUME NEW f, NEW buf, NEW j \in 1..(Len(buf) + 1), Scans(f, buf, 1)
    PROVE  LET at == Find(buf, OpenTag, j)
               kept == PartialSuffix(SubSeq(buf, j, Len(buf)), OpenTag)
           IN  f[j][FALSE] =
                  IF at = 0
                  THEN [inside |-> FALSE, pending |-> kept,
                        out |-> SubSeq(buf, j, Len(buf) - Len(kept))]
                  ELSE Before(SubSeq(buf, j, at - 1), f[at + 2][TRUE])
<1>1. f[j] = ScanBody(f, buf, j)
  BY DEF Scans
<1>2. f[j][FALSE] = ScanBody(f, buf, j)[FALSE]
  BY <1>1
<1>3. (~FALSE) = TRUE /\ FALSE \in BOOLEAN
  OBVIOUS
<1> QED
  BY <1>2, <1>3 DEF ScanBody

\* A step of it inside one.
LEMMA ScanInside ==
    ASSUME NEW f, NEW buf, NEW j \in 1..(Len(buf) + 1), Scans(f, buf, 1)
    PROVE  LET at == Find(buf, CloseTag, j)
               kept == PartialSuffix(SubSeq(buf, j, Len(buf)), CloseTag)
           IN  f[j][TRUE] =
                  IF at = 0
                  THEN [inside |-> TRUE, pending |-> kept, out |-> << >>]
                  ELSE Before(<< >>, f[at + 2][FALSE])
<1>1. f[j] = ScanBody(f, buf, j)
  BY DEF Scans
<1>2. f[j][TRUE] = ScanBody(f, buf, j)[TRUE]
  BY <1>1
<1>3. (~TRUE) = FALSE /\ TRUE \in BOOLEAN
  OBVIOUS
<1> QED
  BY <1>2, <1>3 DEF ScanBody

\* A scan that goes on at b, in the state the text before it gives, lets out
\* what is visible of the text up to e, as far as that is certain.
Fits(r, s, e, b) ==
    /\ r \in [inside : BOOLEAN, pending : Seq(Symbol), out : Seq(Symbol)]
    /\ r.inside <=> Inside(s, e)
    /\ r.pending = Doubtful(s, e)
    /\ View(s)[b - 1] \o r.out = View(s)[Certain(s, e)]

ScanFrom(f, s, a, e, b) ==
    Boundary(s, b) /\ b - 1 <= Certain(s, e) =>
        /\ Inside(s, b - 1) => Fits(f[b - a + 1][TRUE], s, e, b)
        /\ ~Inside(s, b - 1) => Fits(f[b - a + 1][FALSE], s, e, b)

\* Letting out more in front fits further back.
LEMMA FitsBack ==
    ASSUME NEW s \in Seq(Symbol), NEW e, NEW c, NEW b, NEW r, Fits(r, s, e, c),
           NEW part \in Seq(Symbol), View(s)[b - 1] \in Seq(Symbol),
           View(s)[b - 1] \o part = View(s)[c - 1]
    PROVE  Fits(Before(part, r), s, e, b)
<1> DEFINE new == Before(part, r)
           v == View(s)[b - 1]
           out == r.out
<1>1. r \in [inside : BOOLEAN, pending : Seq(Symbol), out : Seq(Symbol)]
  BY DEF Fits
<1>2. out \in Seq(Symbol) /\ v \in Seq(Symbol)
  BY <1>1
<1>3. /\ new.inside = r.inside /\ new.pending = r.pending /\ new.out = part \o r.out
      /\ part \o r.out \in Seq(Symbol) =>
            new \in [inside : BOOLEAN, pending : Seq(Symbol), out : Seq(Symbol)]
  <2> DEFINE P == Seq(Symbol)
  <2>1. r \in [inside : BOOLEAN, pending : P, out : P]
    BY <1>1
  <2> HIDE DEF P, out, v
  <2>2. new.inside = r.inside /\ new.pending = r.pending /\ new.out = part \o r.out
    BY <2>1 DEF Before
  <2>3. part \o r.out \in P => new \in [inside : BOOLEAN, pending : P, out : P]
    BY <2>1 DEF Before
  <2> QED
    BY <2>2, <2>3 DEF P
<1>4. new.inside = r.inside /\ new.pending = r.pending /\ new.out = part \o out
  BY <1>3
<1> HIDE DEF new, out
<1>5. part \o out \in Seq(Symbol)
  BY <1>2, Joined
<1>6. v \o (part \o out) = View(s)[Certain(s, e)]
  <2>1. View(s)[c - 1] \o out = View(s)[Certain(s, e)]
    BY DEF Fits, out
  <2>2. v \o part = View(s)[c - 1]
    OBVIOUS
  <2> HIDE DEF v
  <2>3. \A w \in Seq(Symbol) : (v \o part) \o w = v \o (part \o w)
    BY <1>2, Reassociated, Zenon
  <2>4. (v \o part) \o out = v \o (part \o out)
    BY <1>2, <2>3
  <2> QED
    BY <2>1, <2>2, <2>4
<1>7. new \in [inside : BOOLEAN, pending : Seq(Symbol), out : Seq(Symbol)]
  BY <1>3, <1>5 DEF out
<1>8. new.inside <=> Inside(s, e)
  <2>1. r.inside <=> Inside(s, e)
    BY DEF Fits
  <2> QED
    BY <1>4, <2>1
<1>9. new.pending = Doubtful(s, e)
  BY <1>4 DEF Fits
<1>10. View(s)[b - 1] \o new.out = View(s)[Certain(s, e)]
  BY <1>4, <1>6 DEF v
<1>11. Fits(new, s, e, b)
  BY <1>7, <1>8, <1>9, <1>10 DEF Fits
<1> QED
  BY <1>11 DEF new

\* If a scan does so further on, it does so here.
LEMMA ScanStep ==
    ASSUME NEW s \in Seq(Symbol), NEW a \in 1..Len(s), NEW e \in a..Len(s),
           NEW f, Scans(f, SubSeq(s, a, e), 1), NEW b \in a..(e + 1),
           \A c \in a..(e + 1) : c > b => ScanFrom(f, s, a, e, c)
    PROVE  ScanFrom(f, s, a, e, b)
<1> SUFFICES ASSUME Boundary(s, b), b - 1 <= Certain(s, e)
             PROVE  /\ Inside(s, b - 1) => Fits(f[b - a + 1][TRUE], s, e, b)
                    /\ ~Inside(s, b - 1) => Fits(f[b - a + 1][FALSE], s, e, b)
  BY DEF ScanFrom
<1> DEFINE buf == SubSeq(s, a, e)
           j == b - a + 1
           n == Len(buf)
<1>1. /\ Len(s) \in Nat /\ a \in Nat /\ b \in Nat /\ e \in Nat
      /\ 1 <= a /\ a <= e /\ e <= Len(s) /\ a <= b /\ b <= e + 1
  BY LenProperties
<1>2. /\ a \in 1..(Len(s) + 1) /\ e \in (a - 1)..Len(s) /\ e \in 0..Len(s)
      /\ b \in 1..(e + 1) /\ b \in 1..(Len(s) + 1) /\ b - 1 \in 0..Len(s)
      /\ e \in (b - 1)..e
  BY <1>1
<1>3. n = e - a + 1
  BY <1>2, Stretch
<1>4. Certain(s, e) \in Nat /\ Certain(s, e) <= e
  BY <1>1, <1>2, CertainEnd
<1>5. View(s)[b - 1] \in Seq(Symbol)
  BY <1>2, ViewTyped
<1>6. /\ PartialSuffix(SubSeq(s, b, e), OpenTag) = Doubtful(s, e)
      /\ PartialSuffix(SubSeq(s, b, e), CloseTag) = Doubtful(s, e)
      /\ Len(Doubtful(s, e)) = e - Certain(s, e)
  BY <1>2, HeldBack DEF Tag
<1>7. SubSeq(buf, j, n) = SubSeq(s, b, e)
  BY <1>2, <1>3, StretchOfStretch
<1>8. SubSeq(buf, j, n - Len(Doubtful(s, e))) = SubSeq(s, b, Certain(s, e))
  <2>1. /\ Certain(s, e) \in (b - 1)..e
        /\ n - (e - Certain(s, e)) = Certain(s, e) - a + 1
    BY <1>1, <1>3, <1>4
  <2>2. SubSeq(buf, j, Certain(s, e) - a + 1) = SubSeq(s, b, Certain(s, e))
    BY <1>2, <2>1, StretchOfStretch
  <2> QED
    BY <1>6, <2>1, <2>2
<1>9. Scans(f, buf, 1)
  OBVIOUS
<1>10. Doubtful(s, e) \in Seq(Symbol)
  <2>1. "<" \in Symbol
    BY DEF Symbol
  <2>2. <<"<">> \in Seq(Symbol) /\ << >> \in Seq(Symbol)
    BY <2>1
  <2> QED
    BY <2>2 DEF Doubtful
<1>11. ASSUME ~Inside(s, b - 1)
       PROVE  Fits(f[j][FALSE], s, e, b)
  <2> DEFINE at == Find(buf, OpenTag, j)
             o == at + a - 1
  <2>1. /\ at \in Nat
        /\ at = 0 => \A k \in Opens(s) : b <= k => e < k + 1
        /\ at # 0 => /\ o \in Opens(s) /\ b <= o /\ o + 1 <= e
                     /\ \A k \in Opens(s) : b <= k => o <= k
    BY <1>2, FindInStretch DEF Opens
  <2>2. j \in 1..(n + 1)
    BY <1>1, <1>3
  <2>3. f[j][FALSE] = IF at = 0
                      THEN [inside |-> FALSE, pending |-> Doubtful(s, e),
                            out |-> SubSeq(s, b, Certain(s, e))]
                      ELSE Before(SubSeq(buf, j, at - 1), f[at + 2][TRUE])
    <3> DEFINE kept == PartialSuffix(SubSeq(buf, j, n), OpenTag)
    <3> HIDE DEF buf, j
    <3>1. f[j][FALSE] = IF at = 0
                        THEN [inside |-> FALSE, pending |-> kept,
                              out |-> SubSeq(buf, j, n - Len(kept))]
                        ELSE Before(SubSeq(buf, j, at - 1), f[at + 2][TRUE])
      BY <1>9, <2>2, ScanOutside
    <3>2. kept = Doubtful(s, e)
      BY <1>6, <1>7
    <3>3. SubSeq(buf, j, n - Len(kept)) = SubSeq(s, b, Certain(s, e))
      BY <1>8, <3>2
    <3> HIDE DEF kept, at, n
    <3> QED
      BY <3>1, <3>2, <3>3
  <2> HIDE DEF at
  <2>4. CASE at = 0
    <3>1. /\ View(s)[b - 1] \o SubSeq(s, b, Certain(s, e)) = View(s)[Certain(s, e)]
          /\ ~Inside(s, e)
      BY <1>2, <1>11, <2>1, <2>4, ReadEndsOutside
    <3>2. SubSeq(s, b, Certain(s, e)) \in Seq(Symbol)
      <4>1. Certain(s, e) \in (b - 1)..Len(s)
        BY <1>1, <1>4
      <4> QED
        BY <1>2, <4>1, Stretch
    <3> DEFINE let == SubSeq(s, b, Certain(s, e))
               r == [inside |-> FALSE, pending |-> Doubtful(s, e), out |-> let]
    <3>3. f[j][FALSE] = r
      BY <2>3, <2>4
    <3>4. r \in [inside : BOOLEAN, pending : Seq(Symbol), out : Seq(Symbol)]
      <4> HIDE DEF let
      <4> QED
        BY <1>10, <3>2 DEF let
    <3>5. Fits(r, s, e, b)
      BY <3>1, <3>4 DEF Fits
    <3> QED
      BY <3>3, <3>5
  <2>5. CASE at # 0
    <3>1. /\ o \in Opens(s) /\ b <= o /\ o + 1 <= e /\ o \in Nat
          /\ \A k \in Opens(s) : b <= k => o <= k
      BY <1>1, <2>1, <2>5
    <3>2. /\ View(s)[b - 1] \o SubSeq(s, b, o - 1) = View(s)[o + 1]
          /\ Inside(s, o + 1) /\ Boundary(s, o + 2)
      BY <1>2, <1>11, <3>1, ReadOpens
    <3>3. /\ o - 1 \in (b - 1)..e /\ o - 1 \in (b - 1)..Len(s)
          /\ (o - 1) - a + 1 = at - 1 /\ (o + 2) - a + 1 = at + 2
          /\ (o + 2) - 1 = o + 1 /\ o + 2 \in a..(e + 1) /\ o + 2 > b
      BY <1>1, <2>1, <3>1
    <3>4. SubSeq(buf, j, at - 1) = SubSeq(s, b, o - 1)
      BY <1>2, <3>3, StretchOfStretch
    <3>5. SubSeq(s, b, o - 1) \in Seq(Symbol)
      BY <1>2, <3>3, Stretch
    <3>6. o + 1 <= Certain(s, e)
      <4>1. s[o + 1] # "<"
        BY <3>1, TagsOf
      <4> QED
        BY <1>1, <3>1, <4>1 DEF Certain
    <3>7. Fits(f[at + 2][TRUE], s, e, o + 2)
      <4>1. ScanFrom(f, s, a, e, o + 2)
        BY <3>3
      <4> QED
        BY <3>2, <3>3, <3>6, <4>1 DEF ScanFrom
    <3> DEFINE part == SubSeq(s, b, o - 1)
               rest == f[at + 2][TRUE]
    <3>8. f[j][FALSE] = Before(part, rest)
      BY <2>3, <2>5, <3>4
    <3>9. View(s)[b - 1] \o part = View(s)[(o + 2) - 1]
      BY <3>2, <3>3
    <3>10. part \in Seq(Symbol) /\ Fits(rest, s, e, o + 2)
      BY <3>5, <3>7
    <3> HIDE DEF part, rest, o
    <3>11. Fits(Before(part, rest), s, e, b)
      BY <1>5, <3>9, <3>10, FitsBack
    <3> QED
      BY <3>8, <3>11
  <2> QED
    BY <2>4, <2>5
<1>12. ASSUME Inside(s, b - 1)
       PROVE  Fits(f[j][TRUE], s, e, b)
  <2> DEFINE at == Find(buf, CloseTag, j)
             o == at + a - 1
  <2>1. /\ at \in Nat
        /\ at = 0 => \A c \in Closes(s) : b <= c => e < c + 1
        /\ at # 0 => /\ o \in Closes(s) /\ b <= o /\ o + 1 <= e
                     /\ \A c \in Closes(s) : b <= c => o <= c
    BY <1>2, FindInStretch DEF Closes
  <2>2. j \in 1..(n + 1)
    BY <1>1, <1>3
  <2>3. f[j][TRUE] = IF at = 0
                     THEN [inside |-> TRUE, pending |-> Doubtful(s, e), out |-> << >>]
                     ELSE Before(<< >>, f[at + 2][FALSE])
    <3> DEFINE kept == PartialSuffix(SubSeq(buf, j, n), CloseTag)
    <3> HIDE DEF buf, j
    <3>1. f[j][TRUE] = IF at = 0
                       THEN [inside |-> TRUE, pending |-> kept, out |-> << >>]
                       ELSE Before(<< >>, f[at + 2][FALSE])
      BY <1>9, <2>2, ScanInside
    <3>2. kept = Doubtful(s, e)
      BY <1>6, <1>7
    <3> HIDE DEF kept, at, n
    <3> QED
      BY <3>1, <3>2
  <2> HIDE DEF at
  <2>4. CASE at = 0
    <3>1. View(s)[b - 1] = View(s)[Certain(s, e)] /\ Inside(s, e)
      BY <1>2, <1>12, <2>1, <2>4, ReadEndsInside
    <3>2. View(s)[b - 1] \o << >> = View(s)[b - 1] /\ << >> \in Seq(Symbol)
      BY <1>5, Joined
    <3> QED
      BY <1>10, <2>3, <2>4, <3>1, <3>2 DEF Fits
  <2>5. CASE at # 0
    <3>1. /\ o \in Closes(s) /\ b <= o /\ o + 1 <= e /\ o \in Nat
          /\ \A c \in Closes(s) : b <= c => o <= c
      BY <1>1, <2>1, <2>5
    <3>2. /\ View(s)[b - 1] = View(s)[o + 1]
          /\ ~Inside(s, o + 1) /\ Boundary(s, o + 2)
      BY <1>2, <1>12, <3>1, ReadCloses
    <3>3. /\ (o + 2) - a + 1 = at + 2 /\ (o + 2) - 1 = o + 1
          /\ o + 2 \in a..(e + 1) /\ o + 2 > b
      BY <1>1, <2>1, <3>1
    <3>4. o + 1 <= Certain(s, e)
      <4>1. s[o + 1] # "<"
        BY <3>1, TagsOf
      <4> QED
        BY <1>1, <3>1, <4>1 DEF Certain
    <3>5. Fits(f[at + 2][FALSE], s, e, o + 2)
      <4>1. ScanFrom(f, s, a, e, o + 2)
        BY <3>3
      <4> QED
        BY <3>2, <3>3, <3>4, <4>1 DEF ScanFrom
    <3> DEFINE rest == f[at + 2][FALSE]
    <3>6. f[j][TRUE] = Before(<< >>, rest)
      BY <2>3, <2>5
    <3>7. View(s)[b - 1] \o << >> = View(s)[(o + 2) - 1] /\ << >> \in Seq(Symbol)
      BY <1>5, <3>2, <3>3, Joined
    <3>8. Fits(rest, s, e, o + 2)
      BY <3>5
    <3> HIDE DEF rest, o
    <3>9. Fits(Before(<< >>, rest), s, e, b)
      BY <1>5, <3>7, <3>8, FitsBack
    <3> QED
      BY <3>6, <3>9
  <2> QED
    BY <2>4, <2>5
<1> QED
  BY <1>11, <1>12

\* One call of delta: if the filter stands as the first p symbols of the text
\* leave it, it lets out what the next ones, up to e, make certain, and stands
\* as they leave it.
LEMMA ScanFilters ==
    ASSUME NEW s \in Seq(Symbol), NEW p \in 0..Len(s), NEW e \in (p + 1)..Len(s),
           NEW inside \in BOOLEAN, inside <=> Inside(s, p)
    PROVE  LET r == Scan(Doubtful(s, p) \o SubSeq(s, p + 1, e), inside)
           IN  /\ r \in [inside : BOOLEAN, pending : Seq(Symbol), out : Seq(Symbol)]
               /\ r.inside <=> Inside(s, e)
               /\ r.pending = Doubtful(s, e)
               /\ View(s)[Certain(s, p)] \o r.out = View(s)[Certain(s, e)]
<1> DEFINE a == Certain(s, p) + 1
           buf == SubSeq(s, a, e)
           f == CHOOSE g : Scans(g, buf, 1)
           Bad == {b \in a..(e + 1) : ~ScanFrom(f, s, a, e, b)}
<1>1. /\ Len(s) \in Nat /\ p \in Nat /\ e \in Nat /\ p + 1 <= e /\ e <= Len(s)
      /\ Certain(s, p) \in Nat /\ Certain(s, p) <= p
  BY LenProperties, CertainEnd
<1>2. a \in Nat /\ a - 1 = Certain(s, p) /\ 1 <= a /\ a <= p + 1
  BY <1>1
<1>3. Boundary(s, a) /\ (Inside(s, Certain(s, p)) <=> Inside(s, p))
  BY CertainEnd
<1> HIDE DEF a
<1>4. /\ a \in 1..Len(s) /\ e \in a..Len(s) /\ a \in a..(e + 1)
      /\ a \in 1..(Len(s) + 1) /\ e \in (a - 1)..Len(s) /\ a \in Nat
      /\ a - 1 = Certain(s, p) /\ a - a + 1 = 1 /\ p + 1 \in 1..(Len(s) + 1)
      /\ e \in ((p + 1) - 1)..Len(s) /\ e + 1 \in Nat
      /\ a..(e + 1) \subseteq 1..(e + 1)
  BY <1>1, <1>2
<1>5. Doubtful(s, p) \o SubSeq(s, p + 1, e) = buf
  <2>1. CASE p > 0 /\ s[p] = "<"
    <3>1. Doubtful(s, p) = <<s[p]>> /\ a = p
      BY <1>1, <2>1 DEF Doubtful, Certain, a
    <3>2. p \in 1..Len(s) /\ e \in p..Len(s)
      BY <1>1, <2>1
    <3>3. SubSeq(s, p, e) = <<s[p]>> \o SubSeq(s, p + 1, e)
      BY <3>2, SubSeqRecursiveFirst
    <3> QED
      BY <3>1, <3>3
  <2>2. CASE ~(p > 0 /\ s[p] = "<")
    <3>1. Doubtful(s, p) = << >> /\ a = p + 1
      BY <1>1, <2>2 DEF Doubtful, Certain, a
    <3>2. SubSeq(s, p + 1, e) \in Seq(Symbol)
      BY <1>4, Stretch
    <3>3. << >> \o SubSeq(s, p + 1, e) = SubSeq(s, p + 1, e)
      BY <3>2, ConcatEmptySeq
    <3> QED
      BY <3>1, <3>3
  <2> QED
    BY <2>1, <2>2
<1>6. buf \in Seq(Symbol)
  BY <1>4, Stretch
<1>7. Scans(f, buf, 1)
  BY <1>6, ScanExists
<1>8. Scan(buf, inside) = f[1][inside]
  BY TheyAreChosen
<1>9. Boundary(s, a) /\ (Inside(s, a - 1) <=> Inside(s, p))
  BY <1>4, <1>3
<1>10. a - 1 <= Certain(s, e)
  BY <1>1, <1>4 DEF Certain
<1> HIDE DEF f
<1>11. Bad = {}
  <2> SUFFICES ASSUME Bad # {} PROVE FALSE
    OBVIOUS
  <2>1. Bad \subseteq a..(e + 1)
    OBVIOUS
  <2>2. Bad \subseteq 1..(e + 1)
    BY <1>4, <2>1
  <2>3. PICK b \in Bad : \A c \in Bad : c <= b
    <3> HIDE DEF Bad
    <3> QED
      BY <1>4, <2>2, LastPosition
  <2>4. b \in a..(e + 1) /\ ~ScanFrom(f, s, a, e, b)
    OBVIOUS
  <2>5. \A c \in a..(e + 1) : c > b => ScanFrom(f, s, a, e, c)
    <3> SUFFICES ASSUME NEW c \in a..(e + 1), c > b PROVE c \notin Bad
      OBVIOUS
    <3> HIDE DEF Bad
    <3> QED
      BY <1>4, <2>3, <2>4
  <2> QED
    BY <1>4, <1>7, <2>4, <2>5, ScanStep
<1>12. ScanFrom(f, s, a, e, a)
  BY <1>4, <1>11
<1>13. Fits(f[1][inside], s, e, a)
  <2>1. /\ Inside(s, a - 1) => Fits(f[1][TRUE], s, e, a)
        /\ ~Inside(s, a - 1) => Fits(f[1][FALSE], s, e, a)
    BY <1>4, <1>9, <1>10, <1>12 DEF ScanFrom
  <2>2. CASE inside = TRUE
    BY <1>9, <2>1, <2>2
  <2>3. CASE inside = FALSE
    BY <1>9, <2>1, <2>3
  <2> QED
    BY <2>2, <2>3
<1> DEFINE r == f[1][inside]
<1>14. r = Scan(Doubtful(s, p) \o SubSeq(s, p + 1, e), inside)
  BY <1>5, <1>8
<1>15. Fits(r, s, e, a)
  BY <1>13
<1> HIDE DEF r
<1>16. /\ r \in [inside : BOOLEAN, pending : Seq(Symbol), out : Seq(Symbol)]
       /\ r.inside <=> Inside(s, e)
       /\ r.pending = Doubtful(s, e)
       /\ View(s)[Certain(s, p)] \o r.out = View(s)[Certain(s, e)]
  BY <1>4, <1>15 DEF Fits
<1> QED
  BY <1>14, <1>16

(***************************************************************************)
(* The events on the wire.                                                 *)
(***************************************************************************)

\* If the page goes on to read all of q with from already on it, its text ends
\* in text; after one call of the model, it is text.
LiveOn(from, q, text, n) ==
    \E pre \in Seq(Symbol), acc \in [0..Len(q) -> Seq(Symbol)] :
        /\ acc[0] = from
        /\ acc[Len(q)] = pre \o text
        /\ \A i \in 1..Len(q) :
               acc[i] = IF q[i].type = "delta" THEN acc[i - 1] \o q[i].text
                        ELSE acc[i - 1]
        /\ n = 1 => pre = << >>

\* What the events of the queue q say is so, at the stage st.
Wired(q, st) ==
    \A i \in 1..Len(q) :
        /\ q[i].type \in {"done", "error"} => i = Len(q)
        /\ q[i].type = "done" => st = "committed"
        /\ q[i].type = "error" => st \in {"failed", "unheard"}

\* The texts on the page while it reads the queue show it.
LEMMA LiveIf ==
    ASSUME NEW q, NEW from, NEW text, NEW n, NEW pre \in Seq(Symbol),
           NEW acc \in [0..Len(q) -> Seq(Symbol)],
           acc[0] = from, acc[Len(q)] = pre \o text,
           \A i \in 1..Len(q) : acc[i] = IF q[i].type = "delta"
                                       THEN acc[i - 1] \o q[i].text ELSE acc[i - 1],
           n = 1 => pre = << >>
    PROVE  LiveOn(from, q, text, n)
BY DEF LiveOn

\* An event goes out, of a piece of text or of anything else.
LEMMA LiveAppend ==
    ASSUME NEW from, NEW q \in Seq(Event), NEW text \in Seq(Symbol), NEW n,
           LiveOn(from, q, text, n), NEW e \in Event
    PROVE  /\ e.type = "delta" => LiveOn(from, Append(q, e), text \o e.text, n)
           /\ e.type # "delta" => LiveOn(from, Append(q, e), text, n)
<1> DEFINE m == Len(q)
           r == Append(q, e)
<1>1. PICK pre \in Seq(Symbol), acc \in [0..m -> Seq(Symbol)] :
        /\ acc[0] = from
        /\ acc[m] = pre \o text
        /\ \A i \in 1..m : acc[i] = IF q[i].type = "delta" THEN acc[i - 1] \o q[i].text
                                    ELSE acc[i - 1]
        /\ n = 1 => pre = << >>
  BY DEF LiveOn
<1>2. m \in Nat
  BY LenProperties
<1>3. /\ Len(r) = m + 1 /\ r[m + 1] = e
      /\ \A i \in 1..m : r[i] = q[i]
  BY AppendProperties
<1> HIDE DEF m, r
<1>4. ASSUME NEW end \in Seq(Symbol), NEW new \in Seq(Symbol), end = pre \o new,
             end = IF e.type = "delta" THEN acc[m] \o e.text ELSE acc[m]
      PROVE  LiveOn(from, r, new, n)
  <2> DEFINE more == [i \in 0..(m + 1) |-> IF i = m + 1 THEN end ELSE acc[i]]
  <2>1. more \in [0..(m + 1) -> Seq(Symbol)]
    BY <1>2, <1>4
  <2>2. more[m + 1] = end /\ \A i \in 0..m : more[i] = acc[i]
    BY <1>2
  <2> HIDE DEF more
  <2>3. ASSUME NEW i \in 1..(m + 1)
        PROVE  more[i] = IF r[i].type = "delta" THEN more[i - 1] \o r[i].text
                         ELSE more[i - 1]
    <3>1. CASE i = m + 1
      <4>1. i - 1 = m /\ m \in 0..m
        BY <1>2, <3>1
      <4> QED
        BY <1>3, <1>4, <2>2, <3>1, <4>1
    <3>2. CASE i # m + 1
      <4>1. i \in 1..m /\ i \in 0..m /\ i - 1 \in 0..m
        BY <1>2, <3>2
      <4> QED
        BY <1>1, <1>3, <2>2, <4>1
    <3> QED
      BY <3>1, <3>2
  <2>4. more[0] = from
    <3>1. 0 \in 0..m
      BY <1>2
    <3> QED
      BY <1>1, <2>2, <3>1
  <2>5. /\ more \in [0..Len(r) -> Seq(Symbol)]
        /\ more[0] = from /\ more[Len(r)] = pre \o new
        /\ n = 1 => pre = << >>
        /\ \A i \in 1..Len(r) :
               more[i] = IF r[i].type = "delta" THEN more[i - 1] \o r[i].text
                         ELSE more[i - 1]
    BY <1>1, <1>3, <1>4, <2>1, <2>2, <2>3, <2>4
  <2> QED
    BY <2>5, LiveIf
<1>5. CASE e.type = "delta"
  <2>1. e.text \in Seq(Symbol)
    BY <1>5 DEF Event
  <2> DEFINE piece == e.text
             new == text \o piece
             end == (pre \o text) \o piece
  <2>2. piece \in Seq(Symbol)
    BY <2>1
  <2>3. end = acc[m] \o e.text
    BY <1>1
  <2> HIDE DEF piece
  <2>4. new \in Seq(Symbol) /\ end \in Seq(Symbol) /\ end = pre \o new
    <3>1. new \in Seq(Symbol) /\ end = pre \o new
      <4>1. text \o piece \in Seq(Symbol)
        BY <2>2, ConcatProperties
      <4>2. (pre \o text) \o piece = pre \o (text \o piece)
        BY <2>2, Reassociated, Zenon
      <4> QED
        BY <4>1, <4>2
    <3> HIDE DEF new, end
    <3>2. pre \o new \in Seq(Symbol)
      BY <3>1, ConcatProperties
    <3> QED
      BY <3>1, <3>2
  <2> HIDE DEF new, end
  <2>5. LiveOn(from, r, new, n)
    BY <1>4, <1>5, <2>3, <2>4
  <2> QED
    BY <1>5, <2>5 DEF new, piece, r
<1>6. CASE e.type # "delta"
  <2>1. acc[m] \in Seq(Symbol)
    BY <1>2
  <2>2. LiveOn(from, r, text, n)
    BY <1>1, <1>4, <1>6, <2>1
  <2> QED
    BY <1>6, <2>2 DEF r
<1> QED
  BY <1>5, <1>6

\* The page takes the first event off.
LEMMA LiveTail ==
    ASSUME NEW from, NEW q \in Seq(Event), q # << >>, NEW text, NEW n,
           LiveOn(from, q, text, n)
    PROVE  LiveOn(IF Head(q).type = "delta" THEN from \o Head(q).text ELSE from,
                  Tail(q), text, n)
<1> DEFINE m == Len(q)
           r == Tail(q)
           on == IF Head(q).type = "delta" THEN from \o Head(q).text ELSE from
<1>1. PICK pre \in Seq(Symbol), acc \in [0..m -> Seq(Symbol)] :
        /\ acc[0] = from
        /\ acc[m] = pre \o text
        /\ \A i \in 1..m : acc[i] = IF q[i].type = "delta" THEN acc[i - 1] \o q[i].text
                                    ELSE acc[i - 1]
        /\ n = 1 => pre = << >>
  BY DEF LiveOn
<1>2. m \in Nat /\ m # 0
  BY EmptySeq, LenProperties
<1>3. /\ Len(r) = m - 1 /\ \A i \in 1..(m - 1) : r[i] = q[i + 1]
      /\ Head(q) = q[1]
  BY HeadTailProperties
<1> HIDE DEF m, r
<1> DEFINE less == [i \in 0..(m - 1) |-> acc[i + 1]]
<1>4. less \in [0..(m - 1) -> Seq(Symbol)]
  BY <1>2
<1>5. \A i \in 0..(m - 1) : less[i] = acc[i + 1]
  OBVIOUS
<1> HIDE DEF less
<1>6. less[0] = on
  <2>1. 0 \in 0..(m - 1) /\ 1 \in 1..m /\ 0 + 1 = 1 /\ 1 - 1 = 0
    BY <1>2
  <2>2. less[0] = acc[1]
    BY <1>5, <2>1
  <2>3. acc[1] = IF q[1].type = "delta" THEN acc[0] \o q[1].text ELSE acc[0]
    BY <1>1, <2>1
  <2> QED
    BY <1>1, <1>3, <2>2, <2>3
<1>7. less[m - 1] = pre \o text
  <2>1. m - 1 \in 0..(m - 1) /\ (m - 1) + 1 = m
    BY <1>2
  <2> QED
    BY <1>1, <1>5, <2>1
<1>8. ASSUME NEW i \in 1..(m - 1)
      PROVE  less[i] = IF r[i].type = "delta" THEN less[i - 1] \o r[i].text
                       ELSE less[i - 1]
  <2>1. /\ i \in 0..(m - 1) /\ i - 1 \in 0..(m - 1) /\ i + 1 \in 1..m
        /\ (i - 1) + 1 = i /\ (i + 1) - 1 = i
    BY <1>2
  <2>2. less[i] = acc[i + 1] /\ less[i - 1] = acc[i] /\ r[i] = q[i + 1]
    BY <1>3, <1>5, <2>1
  <2>3. acc[i + 1] = IF q[i + 1].type = "delta" THEN acc[i] \o q[i + 1].text ELSE acc[i]
    BY <1>1, <2>1
  <2> QED
    BY <2>2, <2>3
<1> HIDE DEF on
<1>9. LiveOn(on, r, text, n)
  BY <1>1, <1>3, <1>4, <1>6, <1>7, <1>8 DEF LiveOn
<1> QED
  BY <1>9 DEF on, r

\* The last event that tells the page anything has been read.
LEMMA LiveEnd ==
    ASSUME NEW q \in Seq(Event), Len(q) = 1, q[1].type # "delta"
    PROVE  \A from, text, n : LiveOn(from, q, text, n) =>
              \E pre \in Seq(Symbol) : from = pre \o text /\ (n = 1 => pre = << >>)
<1> SUFFICES ASSUME NEW from, NEW text, NEW n, LiveOn(from, q, text, n)
             PROVE  \E pre \in Seq(Symbol) :
                       from = pre \o text /\ (n = 1 => pre = << >>)
  OBVIOUS
<1>1. PICK pre \in Seq(Symbol), acc \in [0..Len(q) -> Seq(Symbol)] :
        /\ acc[0] = from
        /\ acc[Len(q)] = pre \o text
        /\ \A i \in 1..Len(q) : acc[i] = IF q[i].type = "delta" THEN acc[i - 1] \o q[i].text
                                         ELSE acc[i - 1]
        /\ n = 1 => pre = << >>
  BY DEF LiveOn
<1>2. 1 \in 1..1 /\ 1 - 1 = 0
  OBVIOUS
<1>3. acc[1] = acc[0]
  BY <1>1, <1>2
<1> QED
  BY <1>1, <1>3

\* A new attempt starts: what is on its way belongs to what came before.
LEMMA LiveAnew ==
    ASSUME NEW from, NEW q, NEW text \in Seq(Symbol), NEW n,
           LiveOn(from, q, text, n), n = 1 => text = << >>
    PROVE  LiveOn(from, q, << >>, n)
<1>1. PICK pre \in Seq(Symbol), acc \in [0..Len(q) -> Seq(Symbol)] :
        /\ acc[0] = from
        /\ acc[Len(q)] = pre \o text
        /\ \A i \in 1..Len(q) : acc[i] = IF q[i].type = "delta" THEN acc[i - 1] \o q[i].text
                                         ELSE acc[i - 1]
        /\ n = 1 => pre = << >>
  BY DEF LiveOn
<1> DEFINE all == pre \o text
<1>2. all \in Seq(Symbol)
  BY ConcatProperties
<1>3. n = 1 => all = << >>
  <2>1. << >> \o << >> = << >>
    BY EmptySeq, ConcatEmptySeq
  <2> QED
    BY <1>1, <2>1
<1>4. acc[Len(q)] = all
  BY <1>1
<1> HIDE DEF all
<1>5. all \o << >> = all
  BY <1>2, ConcatEmptySeq
<1> QED
  BY <1>1, <1>2, <1>3, <1>4, <1>5 DEF LiveOn

\* The model is called again.
LEMMA LiveAgain ==
    ASSUME NEW from, NEW q, NEW text, NEW n, LiveOn(from, q, text, n), NEW m, m # 1
    PROVE  LiveOn(from, q, text, m)
BY DEF LiveOn

\* An event goes out before the turn has ended; then it may have.
LEMMA WiredAppend ==
    ASSUME NEW q \in Seq(Event), NEW st, Wired(q, st), st \notin Over,
           NEW e \in Event, NEW st2,
           e.type = "done" => st2 = "committed", e.type = "error" => st2 \in {"failed", "unheard"}
    PROVE  Wired(Append(q, e), st2) /\ Wired(q, st2)
<1> DEFINE m == Len(q)
           r == Append(q, e)
<1>1. m \in Nat
  BY LenProperties
<1>2. /\ Len(r) = m + 1 /\ r[m + 1] = e
      /\ \A i \in 1..m : r[i] = q[i]
  BY AppendProperties
<1>3. \A i \in 1..m : q[i].type \notin {"done", "error"}
  BY DEF Wired, Over
<1> HIDE DEF m, r
<1>4. ASSUME NEW i \in 1..(m + 1)
      PROVE  /\ r[i].type \in {"done", "error"} => i = m + 1
             /\ r[i].type = "done" => st2 = "committed"
             /\ r[i].type = "error" => st2 \in {"failed", "unheard"}
  <2>1. CASE i = m + 1
    BY <1>2, <2>1
  <2>2. CASE i # m + 1
    <3>1. i \in 1..m
      BY <1>1, <2>2
    <3> QED
      BY <1>2, <1>3, <3>1
  <2> QED
    BY <2>1, <2>2
<1>5. Wired(r, st2)
  BY <1>2, <1>4 DEF Wired
<1>6. Wired(q, st2)
  BY <1>3 DEF Wired, m
<1> QED
  BY <1>5, <1>6 DEF r

\* One is taken off; an end is the last.
LEMMA WiredTail ==
    ASSUME NEW q \in Seq(Event), q # << >>, NEW st, Wired(q, st)
    PROVE  /\ Wired(Tail(q), st)
           /\ Head(q) = q[1] /\ 1 \in 1..Len(q) /\ q[1] \in Event
           /\ Head(q).type \in {"done", "error"} => Len(q) = 1
           /\ Head(q).type = "done" => st = "committed"
           /\ Head(q).type = "error" => st \in {"failed", "unheard"}
<1> DEFINE m == Len(q)
           r == Tail(q)
<1>1. m \in Nat /\ m # 0 /\ 1 \in 1..m
  BY EmptySeq, LenProperties
<1>2. /\ Len(r) = m - 1 /\ \A i \in 1..(m - 1) : r[i] = q[i + 1]
      /\ Head(q) = q[1]
  BY HeadTailProperties
<1>3. \A i \in 1..m : /\ q[i].type \in {"done", "error"} => i = m
                      /\ q[i].type = "done" => st = "committed"
                      /\ q[i].type = "error" => st \in {"failed", "unheard"}
  BY DEF Wired
<1>4. q[1] \in Event
  BY <1>1, ElementOfSeq
<1> HIDE DEF m, r
<1>5. ASSUME NEW i \in 1..(m - 1)
      PROVE  /\ r[i].type \in {"done", "error"} => i = m - 1
             /\ r[i].type = "done" => st = "committed"
             /\ r[i].type = "error" => st \in {"failed", "unheard"}
  <2>1. i + 1 \in 1..m /\ (i + 1 = m => i = m - 1)
    BY <1>1
  <2> QED
    BY <1>2, <1>3, <2>1
<1>6. Wired(r, st)
  BY <1>2, <1>5 DEF Wired
<1>7. q[1].type \in {"done", "error"} => m = 1
  BY <1>1, <1>3
<1> QED
  BY <1>1, <1>2, <1>3, <1>4, <1>6, <1>7 DEF m, r

\* The end of a joined text.
LEMMA EndOf ==
    ASSUME NEW u \in Seq(Symbol), NEW v \in Seq(Symbol)
    PROVE  IsSuffix(v, u \o v)
<1> DEFINE w == u \o v
           n == Len(v)
           rv == Reverse(v)
           rw == Reverse(w)
<1>1. /\ Len(u) \in Nat /\ n \in Nat /\ w \in Seq(Symbol)
      /\ Len(w) = Len(u) + n
      /\ \A i \in 1..(Len(u) + n) : w[i] = IF i <= Len(u) THEN u[i] ELSE v[i - Len(u)]
  BY LenProperties, ConcatProperties
<1> HIDE DEF w
<1>2. ASSUME NEW s \in Seq(Symbol)
      PROVE  /\ Reverse(s) \in Seq(Symbol) /\ Len(Reverse(s)) = Len(s)
             /\ \A i \in 1..Len(s) : Reverse(s)[i] = s[Len(s) - i + 1]
  <2> DEFINE l == Len(s)
             r == [i \in 1..l |-> s[(l - i) + 1]]
  <2>1. l \in Nat
    BY LenProperties
  <2>2. \A i \in 1..l : s[(l - i) + 1] \in Symbol
    <3>1. \A i \in 1..l : (l - i) + 1 \in 1..l
      BY <2>1
    <3> QED
      BY <3>1, ElementOfSeq
  <2>3. r \in [1..l -> Symbol]
    BY <2>2
  <2>4. r \in Seq(Symbol)
    BY <2>1, <2>3, SeqDef
  <2>5. DOMAIN r = 1..l /\ DOMAIN r = 1..Len(r) /\ Len(r) \in Nat
    BY <2>4, LenProperties
  <2> HIDE DEF l
  <2>6. Len(r) = l
    <3> HIDE DEF r
    <3> QED
      BY <2>1, <2>5
  <2>7. \A i \in 1..l : r[i] = s[l - i + 1]
    OBVIOUS
  <2>8. Reverse(s) = r
    BY DEF Reverse, l
  <2> QED
    BY <2>4, <2>6, <2>7, <2>8 DEF l
<1>3. /\ rv \in Seq(Symbol) /\ Len(rv) = n
      /\ \A i \in 1..n : rv[i] = v[n - i + 1]
  BY <1>2
<1>4. /\ rw \in Seq(Symbol) /\ Len(rw) = Len(u) + n
      /\ \A i \in 1..(Len(u) + n) : rw[i] = w[Len(u) + n - i + 1]
  <2>1. /\ rw \in Seq(Symbol) /\ Len(rw) = Len(w)
        /\ \A i \in 1..Len(w) : rw[i] = w[Len(w) - i + 1]
    BY <1>1, <1>2
  <2> HIDE DEF rw
  <2> QED
    BY <1>1, <2>1
<1> HIDE DEF rv, rw, n
<1>5. ASSUME NEW i \in 1..n
      PROVE  rv[i] = rw[i]
  <2>1. /\ i \in 1..(Len(u) + n) /\ Len(u) + n - i + 1 \in 1..(Len(u) + n)
        /\ ~(Len(u) + n - i + 1 <= Len(u))
        /\ (Len(u) + n - i + 1) - Len(u) = n - i + 1
    BY <1>1
  <2> QED
    BY <1>1, <1>3, <1>4, <2>1
<1>6. SubSeq(rv, 1, n) \in Seq(Symbol) /\ Len(SubSeq(rv, 1, n)) = n
      /\ \A i \in 1..n : SubSeq(rv, 1, n)[i] = rv[i]
  <2>1. 1 \in 1..(Len(rv) + 1) /\ n \in (1 - 1)..Len(rv)
    BY <1>1, <1>3
  <2>2. /\ SubSeq(rv, 1, n) \in Seq(Symbol) /\ Len(SubSeq(rv, 1, n)) = n - 1 + 1
        /\ \A i \in 1..(n - 1 + 1) : SubSeq(rv, 1, n)[i] = rv[1 + i - 1]
    BY <1>3, <2>1, Stretch
  <2>3. n - 1 + 1 = n /\ \A i \in 1..n : 1 + i - 1 = i
    BY <1>1
  <2> QED
    BY <2>2, <2>3
<1>7. SubSeq(rw, 1, n) \in Seq(Symbol) /\ Len(SubSeq(rw, 1, n)) = n
      /\ \A i \in 1..n : SubSeq(rw, 1, n)[i] = rw[i]
  <2>1. 1 \in 1..(Len(rw) + 1) /\ n \in (1 - 1)..Len(rw)
    BY <1>1, <1>4
  <2>2. /\ SubSeq(rw, 1, n) \in Seq(Symbol) /\ Len(SubSeq(rw, 1, n)) = n - 1 + 1
        /\ \A i \in 1..(n - 1 + 1) : SubSeq(rw, 1, n)[i] = rw[1 + i - 1]
    BY <1>4, <2>1, Stretch
  <2>3. n - 1 + 1 = n /\ \A i \in 1..n : 1 + i - 1 = i
    BY <1>1
  <2> QED
    BY <2>2, <2>3
<1>8. SubSeq(rv, 1, n) = SubSeq(rw, 1, n)
  BY <1>5, <1>6, <1>7, SeqEqual
<1>9. Len(rv) <= Len(rw)
  BY <1>1, <1>3, <1>4
<1>10. IsPrefix(rv, rw)
  BY <1>3, <1>8, <1>9 DEF IsPrefix
<1> QED
  BY <1>10 DEF IsSuffix, rv, rw, w

(***************************************************************************)
(* The invariant.                                                          *)
(***************************************************************************)

Client == [phase : {"reading", "ended"}, streamed : Seq(Symbol), proposal : BOOLEAN,
           saw : {"nothing", "done", "error", "failure"}, thread : Seq(Symbol),
           card : BOOLEAN]

Typed ==
    /\ stage \in {"calling", "streaming", "committing"} \union Over
    /\ calls \in 1..LastCall /\ attempt \in 0..MaxRetries
    /\ reply \in Reply \union {NoReply}
    /\ sent \in 0..Len(reply.text)
    /\ announced \in BOOLEAN /\ yielded \in BOOLEAN
    /\ filter \in [inside : BOOLEAN, pending : {<< >>, <<"<">>}]
    /\ shown \in Seq(Symbol)
    /\ brief \in BOOLEAN /\ proposed \in BOOLEAN /\ nudged \in BOOLEAN
    /\ stored.kind \in {"none", "reply", "refusal", "fallback"}
    /\ queue \in Seq(Event)
    /\ connected \in BOOLEAN
    /\ client \in Client

\* The filter stands as what has arrived leaves it, and has let out what that
\* makes certain.
Filtered ==
    /\ filter.inside <=> Inside(reply.text, sent)
    /\ filter.pending = Doubtful(reply.text, sent)
    /\ shown = View(reply.text)[Certain(reply.text, sent)]

\* An attempt that is made again has shown nothing.
Attempt ==
    /\ ~yielded => shown = << >>
    /\ stage = "calling" /\ calls = 1 => shown = << >>
    /\ stage = "streaming" => reply \in Reply

\* The reply that is stored is all that arrived, cleaned.
Kept ==
    /\ stage \in {"calling", "streaming"} => stored.kind = "none"
    /\ stage = "failed" => stored = NotStored
    /\ stored.kind = "reply" =>
          /\ stage \in {"committing", "committed", "unheard"}
          /\ reply \in Reply /\ sent = Len(reply.text)
          /\ stored.text = Cleaned[reply.text]

\* What is on the wire is so.
OnWire ==
    /\ Wired(queue, stage)
    /\ \A i \in 1..Len(queue) : queue[i].type = "proposal" => brief

\* What the page was told is so.
Told ==
    /\ client.saw = "done" => stage = "committed"
    /\ client.saw = "error" => stage \in {"failed", "unheard"}
    /\ client.proposal => brief
    /\ client.card => brief

\* The page will have read the text of this attempt when it has read the queue.
Live == connected => LiveOn(client.streamed, queue, shown, calls)

\* It has, once it was told that the turn is done.
Heard ==
    client.saw = "done" =>
        \E pre \in Seq(Symbol) : client.thread = pre \o shown /\ (calls = 1 => pre = << >>)

StreamInv ==
    /\ Typed /\ Filtered /\ Attempt /\ Kept
    /\ OnWire /\ Told /\ Live /\ Heard

\* The text of a reply.
LEMMA ReplyTyped ==
    ASSUME NEW r \in Reply \union {NoReply}
    PROVE  r.text \in Seq(Symbol) /\ (r \in Reply => r.text \in Text)
<1>1. r \in Reply => r.text \in Text
  BY DEF Reply
<1>2. r = NoReply => r.text = << >>
  BY DEF NoReply
<1>3. << >> \in Seq(Symbol)
  BY EmptySeq
<1> QED
  BY StreamAssumption, <1>1, <1>2, <1>3

\* An event other than a piece of text goes out before the turn is over.
LEMMA EventOut ==
    ASSUME Typed, OnWire, Live, stage \notin Over,
           NEW e \in Event, e.type # "delta", Emit(e),
           e.type = "done" => stage' = "committed",
           e.type = "error" => stage' \in {"failed", "unheard"},
           e.type = "proposal" => brief', brief => brief',
           shown' = shown, client' = client, connected' = connected,
           calls' = calls \/ calls' # 1
    PROVE  queue' \in Seq(Event) /\ OnWire' /\ Live'
<1>1. queue \in Seq(Event) /\ shown \in Seq(Symbol)
  BY DEF Typed
<1>2. queue' = Append(queue, e)
  BY DEF Emit
<1>3. /\ queue' \in Seq(Event) /\ Len(queue) \in Nat
      /\ Len(queue') = Len(queue) + 1 /\ queue'[Len(queue) + 1] = e
      /\ \A i \in 1..Len(queue) : queue'[i] = queue[i]
  BY <1>1, <1>2, LenProperties, AppendProperties
<1>4. Wired(queue', stage')
  <2>1. stage \notin Over /\ Wired(queue, stage)
    BY DEF Over, OnWire
  <2> QED
    BY <1>1, <1>2, <2>1, WiredAppend
<1>5. \A i \in 1..Len(queue') : queue'[i].type = "proposal" => brief'
  <2> SUFFICES ASSUME NEW i \in 1..Len(queue'), queue'[i].type = "proposal" PROVE brief'
    OBVIOUS
  <2>1. CASE i = Len(queue) + 1
    BY <1>3, <2>1
  <2>2. CASE i # Len(queue) + 1
    <3>1. i \in 1..Len(queue)
      BY <1>3, <2>2
    <3> QED
      BY <1>3, <3>1 DEF OnWire
  <2> QED
    BY <2>1, <2>2
<1>6. ASSUME connected
      PROVE  LiveOn(client.streamed, queue', shown, calls')
  <2>1. LiveOn(client.streamed, queue, shown, calls)
    BY <1>6 DEF Live
  <2>2. LiveOn(client.streamed, queue', shown, calls)
    BY <1>1, <1>2, <2>1, LiveAppend
  <2> QED
    BY <2>2, LiveAgain
<1> QED
  BY <1>3, <1>4, <1>5, <1>6 DEF OnWire, Live

\* No event goes out.
LEMMA NoEventOut ==
    ASSUME Typed, OnWire, Live, stage \notin Over, queue' = queue,
           brief => brief',
           shown' = shown, client' = client, connected' = connected,
           calls' = calls \/ calls' # 1
    PROVE  queue' \in Seq(Event) /\ OnWire' /\ Live'
<1>1. queue \in Seq(Event)
  BY DEF Typed
<1>2. Wired(queue', stage')
  <2>1. \A i \in 1..Len(queue) : queue[i].type \notin {"done", "error"}
    BY DEF OnWire, Wired, Over
  <2> QED
    BY <2>1 DEF Wired
<1>3. \A i \in 1..Len(queue') : queue'[i].type = "proposal" => brief'
  BY DEF OnWire
<1>4. ASSUME connected
      PROVE  LiveOn(client.streamed, queue, shown, calls')
  <2>1. LiveOn(client.streamed, queue, shown, calls)
    BY <1>4 DEF Live
  <2> QED
    BY <2>1, LiveAgain
<1> QED
  BY <1>1, <1>2, <1>3, <1>4 DEF OnWire, Live

\* The page has not been told the end before there is one.
LEMMA PageWaits ==
    ASSUME Told, stage \notin Over, client' = client, brief => brief'
    PROVE  Told' /\ Heard'
BY DEF Told, Heard, Over

\* The filter and what it has let out stay as they are.
LEMMA FilterStays ==
    ASSUME Filtered, UNCHANGED <<reply, sent, filter, shown>>
    PROVE  Filtered'
BY DEF Filtered

\* Initially.
LEMMA StreamInitInv == StreamInit => StreamInv
<1> SUFFICES ASSUME StreamInit PROVE StreamInv
  OBVIOUS
<1> USE DEF StreamInit
<1>1. << >> \in Seq(Symbol) /\ Len(<< >>) = 0 /\ << >> \in Seq(Event)
  BY EmptySeq
<1>2. client \in Client /\ client.streamed = << >>
  BY <1>1 DEF Client
<1>3. reply.text = << >>
  BY DEF NoReply
<1>4. Typed
  <2>1. sent \in 0..Len(reply.text)
    BY <1>1, <1>3
  <2>2. filter \in [inside : BOOLEAN, pending : {<< >>, <<"<">>}]
    BY DEF FreshFilter
  <2>3. 1 \in 1..LastCall /\ 0 \in 0..MaxRetries
    BY StreamAssumption DEF LastCall
  <2> QED
    BY <1>1, <1>2, <2>1, <2>2, <2>3 DEF Typed, NotStored
<1>5. Filtered
  <2>1. ~Inside(reply.text, 0)
    <3>1. \A k \in Opens(reply.text) : ~(k + 1 <= 0)
      <4>1. \A k \in Opens(<< >>) : k \in Nat /\ ~(k + 1 <= 0)
        BY <1>1 DEF Opens, Places
      <4> QED
        BY <1>3, <4>1
    <3> QED
      BY <3>1 DEF Inside
  <2>2. Doubtful(reply.text, 0) = << >> /\ Certain(reply.text, 0) = 0
    BY DEF Doubtful, Certain
  <2>3. View(reply.text)[0] = << >>
    BY <1>1, <1>3, ViewGrows
  <2> QED
    BY <2>1, <2>2, <2>3 DEF Filtered, FreshFilter
<1>6. Attempt
  BY DEF Attempt
<1>7. Kept
  BY DEF Kept, NotStored
<1>8. OnWire
  BY <1>1 DEF OnWire, Wired
<1>9. Told /\ Heard
  BY DEF Told, Heard
<1>10. Live
  <2> DEFINE acc == [i \in 0..0 |-> << >>]
  <2>1. acc \in [0..0 -> Seq(Symbol)] /\ acc[0] = << >>
    BY <1>1
  <2> HIDE DEF acc
  <2>2. << >> = << >> \o << >>
    BY <1>1, ConcatEmptySeq
  <2>3. LiveOn(<< >>, << >>, << >>, 1)
    BY <1>1, <2>1, <2>2 DEF LiveOn
  <2> QED
    BY <1>2, <2>3 DEF Live
<1> QED
  BY <1>4, <1>5, <1>6, <1>7, <1>8, <1>9, <1>10 DEF StreamInv

(***************************************************************************)
(* The steps of the turn.                                                  *)
(***************************************************************************)

\* stream_turn opens an attempt.
LEMMA CallStep ==
    ASSUME StreamInv, Call
    PROVE  StreamInv'
<1>1. Typed /\ Filtered /\ Attempt /\ Kept /\ OnWire /\ Told /\ Live /\ Heard
  BY DEF StreamInv
<1>2. PICK r \in Reply : reply' = r
  BY DEF Call
<1>3. /\ stage = "calling" /\ stage' = "streaming" /\ sent' = 0 /\ announced' = FALSE
      /\ yielded' = FALSE /\ filter' = FreshFilter /\ shown' = << >>
      /\ UNCHANGED <<calls, attempt, brief, proposed, nudged, stored, queue,
                     connected, client>>
  BY DEF Call
<1>4. r.text \in Seq(Symbol) /\ Len(r.text) \in Nat
  <2>1. r.text \in Seq(Symbol)
    BY ReplyTyped
  <2> QED
    BY <2>1, LenProperties
<1>5. << >> \in Seq(Symbol) /\ stage \notin Over
  BY <1>3, EmptySeq DEF Over
<1>6. Typed'
  <2>1. filter' \in [inside : BOOLEAN, pending : {<< >>, <<"<">>}]
    BY <1>3 DEF FreshFilter
  <2>2. reply' \in Reply \union {NoReply} /\ sent' \in 0..Len(reply'.text)
    BY <1>2, <1>3, <1>4
  <2> QED
    BY <1>1, <1>3, <1>5, <2>1, <2>2 DEF Typed
<1>7. Filtered'
  <2>1. ~Inside(r.text, 0)
    <3>1. \A k \in Opens(r.text) : k \in Nat /\ ~(k + 1 <= 0)
      BY <1>4, TagsOf
    <3> QED
      BY <3>1 DEF Inside
  <2>2. Doubtful(r.text, 0) = << >> /\ Certain(r.text, 0) = 0
    BY DEF Doubtful, Certain
  <2>3. View(r.text)[0] = << >>
    BY <1>4, ViewGrows
  <2> QED
    BY <1>2, <1>3, <2>1, <2>2, <2>3 DEF Filtered, FreshFilter
<1>8. Attempt'
  BY <1>2, <1>3 DEF Attempt
<1>9. Kept'
  BY <1>1, <1>3 DEF Kept
<1>10. OnWire'
  <2>1. \A i \in 1..Len(queue) : queue[i].type \notin {"done", "error"}
    BY <1>1, <1>5 DEF OnWire, Wired, Over
  <2>2. Wired(queue, "streaming")
    BY <2>1 DEF Wired
  <2> QED
    BY <1>1, <1>3, <2>2 DEF OnWire
<1>11. Told' /\ Heard'
  <2>1. client' = client /\ (brief => brief')
    BY <1>3
  <2> QED
    BY <1>1, <1>5, <2>1, PageWaits
<1>12. Live'
  <2>1. shown \in Seq(Symbol) /\ (calls = 1 => shown = << >>)
    BY <1>1, <1>3 DEF Typed, Attempt
  <2>2. connected => LiveOn(client.streamed, queue, << >>, calls)
    BY <1>1, <2>1, LiveAnew DEF Live
  <2> QED
    BY <1>3, <2>2 DEF Live
<1> QED
  BY <1>6, <1>7, <1>8, <1>9, <1>10, <1>11, <1>12 DEF StreamInv

\* A text delta arrives.
LEMMA DeltaStep ==
    ASSUME StreamInv, NEW n \in {1, 2}, Delta(n)
    PROVE  StreamInv'
<1>1. Typed /\ Filtered /\ Attempt /\ Kept /\ OnWire /\ Told /\ Live /\ Heard
  BY DEF StreamInv
<1> DEFINE s == reply.text
           p == sent
           e == sent + n
           in == filter.inside
           scan == Scan(filter.pending \o SubSeq(reply.text, sent + 1, sent + n),
                        filter.inside)
<1>2. /\ stage = "streaming" /\ e <= Len(s)
      /\ filter' = [inside |-> scan.inside, pending |-> scan.pending]
      /\ shown' = shown \o scan.out
      /\ yielded' = (yielded \/ scan.out # << >>)
      /\ IF scan.out = << >> THEN UNCHANGED queue
         ELSE Emit([type |-> "delta", text |-> scan.out])
      /\ sent' = e
  BY DEF Delta
<1>3. UNCHANGED <<stage, calls, attempt, reply, announced, brief, proposed,
                  nudged, stored, connected, client>>
  BY DEF Delta
<1>4. /\ s \in Seq(Symbol) /\ Len(s) \in Nat /\ p \in 0..Len(s) /\ e \in (p + 1)..Len(s)
      /\ in \in BOOLEAN
  <2>1. s \in Seq(Symbol) /\ p \in 0..Len(s) /\ in \in BOOLEAN
    BY <1>1, ReplyTyped DEF Typed
  <2>2. Len(s) \in Nat
    BY <2>1, LenProperties
  <2> QED
    BY <1>2, <2>1, <2>2
<1>5. /\ scan \in [inside : BOOLEAN, pending : Seq(Symbol), out : Seq(Symbol)]
      /\ scan.inside <=> Inside(s, e)
      /\ scan.pending = Doubtful(s, e)
      /\ View(s)[Certain(s, p)] \o scan.out = View(s)[Certain(s, e)]
  <2> DEFINE whole == Scan(Doubtful(s, p) \o SubSeq(s, p + 1, e), in)
  <2>1. in <=> Inside(s, p)
    BY <1>1 DEF Filtered
  <2>2. scan = whole
    BY <1>1 DEF Filtered
  <2>3. /\ whole \in [inside : BOOLEAN, pending : Seq(Symbol), out : Seq(Symbol)]
        /\ whole.inside <=> Inside(s, e)
        /\ whole.pending = Doubtful(s, e)
        /\ View(s)[Certain(s, p)] \o whole.out = View(s)[Certain(s, e)]
    <3> HIDE DEF s, p, e, in
    <3> QED
      BY <1>4, <2>1, ScanFilters
  <2> HIDE DEF whole, scan
  <2> QED
    BY <2>2, <2>3
<1>6. scan.out \in Seq(Symbol) /\ scan.inside \in BOOLEAN
  BY <1>5
<1>7. shown = View(s)[Certain(s, p)] /\ shown \in Seq(Symbol)
  BY <1>1 DEF Filtered, Typed
<1>8. shown' = View(s)[Certain(s, e)] /\ shown' \in Seq(Symbol)
  <2>1. shown' = View(s)[Certain(s, e)]
    BY <1>2, <1>5, <1>7
  <2>2. shown' \in Seq(Symbol)
    BY <1>2, <1>6, <1>7, ConcatProperties
  <2> QED
    BY <2>1, <2>2
<1>9. s' = s /\ stage \notin Over
  BY <1>2, <1>3 DEF Over
<1> HIDE DEF scan, s, e
<1>10. filter'.inside = scan.inside /\ filter'.pending = scan.pending
  BY <1>2
<1>11. Filtered'
  <2>1. filter'.inside <=> Inside(s, e)
    BY <1>5, <1>10
  <2>2. filter'.pending = Doubtful(s, e)
    BY <1>5, <1>10
  <2>3. sent' = e /\ reply'.text = s
    BY <1>2, <1>9 DEF s
  <2> QED
    BY <1>8, <2>1, <2>2, <2>3 DEF Filtered
<1>12. queue' \in Seq(Event) /\ OnWire' /\ Live'
  <2>1. calls' = calls /\ client' = client /\ connected' = connected /\ stage' = stage
        /\ brief' = brief
    BY <1>3
  <2>2. CASE scan.out = << >>
    <3>1. queue' = queue
      BY <1>2, <2>2
    <3>2. shown' = shown
      <4>1. shown \o << >> = shown
        BY <1>7, ConcatEmptySeq
      <4> QED
        BY <1>2, <2>2, <4>1
    <3> QED
      BY <1>1, <1>9, <2>1, <3>1, <3>2, NoEventOut
  <2>3. CASE scan.out # << >>
    <3> DEFINE d == [type |-> "delta", text |-> scan.out]
    <3>1. d \in Event /\ d.type = "delta" /\ d.text = scan.out
      BY <1>6 DEF Event
    <3>2. queue' = Append(queue, d)
      BY <1>2, <2>3 DEF Emit
    <3> HIDE DEF d
    <3>3. queue \in Seq(Event)
      BY <1>1 DEF Typed
    <3>4. /\ queue' \in Seq(Event) /\ Len(queue) \in Nat
          /\ Len(queue') = Len(queue) + 1 /\ queue'[Len(queue) + 1] = d
          /\ \A i \in 1..Len(queue) : queue'[i] = queue[i]
      BY <3>1, <3>2, <3>3, LenProperties, AppendProperties
    <3>5. Wired(queue', stage')
      <4>1. /\ Wired(queue, stage) /\ stage \notin Over
            /\ d.type # "done" /\ d.type # "error"
        BY <1>1, <1>9, <3>1 DEF OnWire, Over
      <4> QED
        BY <2>1, <3>1, <3>2, <3>3, <4>1, WiredAppend
    <3>6. \A i \in 1..Len(queue') : queue'[i].type = "proposal" => brief'
      <4> SUFFICES ASSUME NEW i \in 1..Len(queue'), queue'[i].type = "proposal"
                   PROVE  brief'
        OBVIOUS
      <4>1. i # Len(queue) + 1
        BY <3>1, <3>4
      <4>2. i \in 1..Len(queue)
        BY <3>4, <4>1
      <4> QED
        BY <1>1, <2>1, <3>4, <4>2 DEF OnWire
    <3>7. connected => LiveOn(client.streamed, queue', shown', calls)
      <4> SUFFICES ASSUME connected PROVE LiveOn(client.streamed, queue', shown', calls)
        OBVIOUS
      <4>1. LiveOn(client.streamed, queue, shown, calls)
        BY <1>1 DEF Live
      <4>2. LiveOn(client.streamed, Append(queue, d), shown \o d.text, calls)
        BY <1>7, <3>1, <3>3, <4>1, LiveAppend
      <4> QED
        BY <1>2, <3>1, <3>2, <4>2
    <3> QED
      BY <2>1, <3>4, <3>5, <3>6, <3>7 DEF OnWire, Live
  <2> QED
    BY <2>2, <2>3
<1>13. Typed'
  <2>1. Doubtful(s, e) \in {<< >>, <<"<">>}
    BY DEF Doubtful
  <2>2. filter' \in [inside : BOOLEAN, pending : {<< >>, <<"<">>}]
    BY <1>2, <1>5, <1>6, <2>1
  <2>3. sent' \in 0..Len(reply'.text)
    BY <1>2, <1>4, <1>9 DEF s, e
  <2>4. yielded' \in BOOLEAN
    BY <1>2
  <2> QED
    BY <1>1, <1>3, <1>8, <1>12, <2>2, <2>3, <2>4 DEF Typed
<1>14. Attempt'
  <2>1. ~yielded' => shown' = << >>
    <3> SUFFICES ASSUME ~yielded' PROVE shown' = << >>
      OBVIOUS
    <3>1. ~yielded /\ scan.out = << >>
      BY <1>2
    <3>2. shown = << >> /\ << >> \o << >> = << >>
      BY <1>1, <3>1, EmptySeq, ConcatEmptySeq DEF Attempt
    <3> QED
      BY <1>2, <3>1, <3>2
  <2> QED
    BY <1>1, <1>2, <1>3, <2>1 DEF Attempt
<1>15. Kept'
  BY <1>1, <1>2, <1>3 DEF Kept
<1>16. Told' /\ Heard'
  <2>1. client' = client /\ (brief => brief')
    BY <1>3
  <2> QED
    BY <1>1, <1>9, <2>1, PageWaits
<1> QED
  BY <1>11, <1>12, <1>13, <1>14, <1>15, <1>16 DEF StreamInv

\* The block of a tool call starts.
LEMMA ToolStartStep ==
    ASSUME StreamInv, ToolStart
    PROVE  StreamInv'
<1>1. Typed /\ Filtered /\ Attempt /\ Kept /\ OnWire /\ Told /\ Live /\ Heard
  BY DEF StreamInv
<1>2. /\ stage = "streaming" /\ announced' = TRUE /\ yielded' = TRUE
      /\ Emit([type |-> "tool"])
      /\ UNCHANGED <<stage, calls, attempt, reply, sent, filter, shown, brief,
                     proposed, nudged, stored, connected, client>>
  BY DEF ToolStart
<1>3. stage \notin Over
  BY <1>2 DEF Over
<1>4. queue' \in Seq(Event) /\ OnWire' /\ Live'
  <2> DEFINE e == [type |-> "tool"]
  <2>1. e \in Event /\ e.type = "tool"
    BY DEF Event
  <2>2. Emit(e)
    BY <1>2
  <2> HIDE DEF e
  <2>3. shown' = shown /\ client' = client /\ connected' = connected /\ calls' = calls
        /\ brief' = brief
    BY <1>2
  <2> QED
    BY <1>1, <1>3, <2>1, <2>2, <2>3, EventOut
<1>5. Typed'
  BY <1>1, <1>2, <1>4 DEF Typed
<1>6. Filtered'
  BY <1>1, <1>2, FilterStays
<1>7. Attempt' /\ Kept'
  BY <1>1, <1>2 DEF Attempt, Kept
<1>8. Told' /\ Heard'
  <2>1. client' = client /\ (brief => brief')
    BY <1>2
  <2> QED
    BY <1>1, <1>3, <2>1, PageWaits
<1> QED
  BY <1>4, <1>5, <1>6, <1>7, <1>8 DEF StreamInv

\* The turn is told to have failed, with nothing of its speech changed.
LEMMA ErrorStep ==
    ASSUME StreamInv, stage \notin Over, Emit([type |-> "error"]),
           \/ stage' = "failed" /\ stored' = NotStored
           \/ stage = "committing" /\ stage' = "unheard" /\ stored' = stored,
           UNCHANGED <<calls, attempt, spoken, brief, proposed, nudged, connected, client>>
    PROVE  StreamInv'
<1>1. Typed /\ Filtered /\ Attempt /\ Kept /\ OnWire /\ Told /\ Live /\ Heard
  BY DEF StreamInv
<1>2. stage' \in {"failed", "unheard"}
  OBVIOUS
<1>3. /\ UNCHANGED <<calls, attempt, brief, proposed, nudged, connected, client>>
      /\ UNCHANGED <<reply, sent, announced, yielded, filter, shown>>
  BY DEF spoken
<1>4. queue' \in Seq(Event) /\ OnWire' /\ Live'
  <2> DEFINE e == [type |-> "error"]
  <2>1. e \in Event /\ e.type = "error"
    BY DEF Event
  <2>2. Emit(e)
    OBVIOUS
  <2> HIDE DEF e
  <2>3. shown' = shown /\ client' = client /\ connected' = connected /\ calls' = calls
        /\ brief' = brief
    BY <1>3
  <2> QED
    BY <1>1, <1>2, <2>1, <2>2, <2>3, EventOut
<1>5. Typed'
  <2>1. stored'.kind \in {"none", "reply", "refusal", "fallback"}
    BY <1>1 DEF Typed, NotStored
  <2> QED
    BY <1>1, <1>2, <1>3, <1>4, <2>1 DEF Typed, Over
<1>6. Filtered'
  BY <1>1, <1>3, FilterStays
<1>7. Attempt' /\ Kept'
  <2>1. Attempt'
    BY <1>1, <1>2, <1>3 DEF Attempt
  <2>2. Kept'
    BY <1>1, <1>3 DEF Kept, NotStored
  <2> QED
    BY <2>1, <2>2
<1>8. Told' /\ Heard'
  <2>1. client' = client /\ (brief => brief')
    BY <1>3
  <2> QED
    BY <1>1, <2>1, PageWaits
<1> QED
  BY <1>4, <1>5, <1>6, <1>7, <1>8 DEF StreamInv

\* A transient failure: another attempt if nothing went out, or the end.
LEMMA TransientFailureStep ==
    ASSUME StreamInv, TransientFailure
    PROVE  StreamInv'
<1>1. Typed /\ Filtered /\ Attempt /\ Kept /\ OnWire /\ Told /\ Live /\ Heard
  BY DEF StreamInv
<1>2. /\ stage = "streaming"
      /\ UNCHANGED <<calls, reply, sent, announced, yielded, filter, shown, brief,
                     proposed, nudged, connected, client>>
  BY DEF TransientFailure
<1>3. stage \notin Over
  BY <1>2 DEF Over
<1>4. CASE MayRetry
  <2>1. /\ attempt' = attempt + 1 /\ stage' = "calling" /\ UNCHANGED <<stored, queue>>
        /\ ~yielded /\ attempt < MaxRetries
    BY <1>4 DEF TransientFailure, MayRetry
  <2>2. queue' \in Seq(Event) /\ OnWire' /\ Live'
    <3>1. queue' = queue /\ shown' = shown /\ client' = client /\ connected' = connected
          /\ calls' = calls /\ brief' = brief
      BY <1>2, <2>1
    <3> QED
      BY <1>1, <1>3, <3>1, NoEventOut
  <2>3. Typed'
    <3>1. attempt' \in 0..MaxRetries
      BY <1>1, <2>1, StreamAssumption DEF Typed
    <3> QED
      BY <1>1, <1>2, <2>1, <2>2, <3>1 DEF Typed
  <2>4. Filtered'
    BY <1>1, <1>2, FilterStays
  <2>5. Attempt' /\ Kept'
    BY <1>1, <1>2, <2>1 DEF Attempt, Kept
  <2>6. Told' /\ Heard'
    <3>1. client' = client /\ (brief => brief')
      BY <1>2
    <3> QED
      BY <1>1, <1>3, <3>1, PageWaits
  <2> QED
    BY <2>2, <2>3, <2>4, <2>5, <2>6 DEF StreamInv
<1>5. CASE ~MayRetry
  <2>1. Fail /\ attempt' = attempt
    BY <1>5 DEF TransientFailure
  <2>2. UNCHANGED <<calls, attempt, spoken, brief, proposed, nudged, connected, client>>
    BY <1>2, <2>1 DEF spoken
  <2> QED
    BY <1>3, <2>1, <2>2, ErrorStep DEF Fail
<1> QED
  BY <1>4, <1>5

\* Any other failure, of the call or of the commit.
LEMMA OtherFailureStep ==
    ASSUME StreamInv, OtherFailure \/ CommitFails
    PROVE  StreamInv'
<1>1. /\ stage \notin Over /\ Emit([type |-> "error"])
      /\ \/ stage' = "failed" /\ stored' = NotStored
         \/ stage = "committing" /\ stage' = "unheard" /\ stored' = stored
  BY DEF OtherFailure, CommitFails, Fail, Over
<1>2. UNCHANGED <<calls, attempt, spoken, brief, proposed, nudged, connected, client>>
  BY DEF OtherFailure, CommitFails, turn, spoken
<1> QED
  BY <1>1, <1>2, ErrorStep

\* The turn has an answer: a stored reply is all that arrived, cleaned.
LEMMA AnswerStep ==
    ASSUME StreamInv, stage = "streaming", NEW kind \in {"reply", "refusal", "fallback"},
           NEW text, Answer(kind, text),
           kind = "reply" => sent = Len(reply.text) /\ text = Cleaned[reply.text],
           UNCHANGED <<spoken, brief, queue, connected, client>>,
           proposed' \in BOOLEAN, nudged' \in BOOLEAN
    PROVE  StreamInv'
<1>1. Typed /\ Filtered /\ Attempt /\ Kept /\ OnWire /\ Told /\ Live /\ Heard
  BY DEF StreamInv
<1>2. /\ stage' = "committing" /\ stored' = [kind |-> kind, text |-> text]
      /\ UNCHANGED <<calls, attempt>>
  BY DEF Answer
<1>3. /\ UNCHANGED <<brief, queue, connected, client>>
      /\ UNCHANGED <<reply, sent, announced, yielded, filter, shown>>
  BY DEF spoken
<1>4. stage \notin Over /\ reply \in Reply
  BY <1>1 DEF Over, Attempt
<1>5. queue' \in Seq(Event) /\ OnWire' /\ Live'
  <2>1. queue' = queue /\ shown' = shown /\ client' = client /\ connected' = connected
        /\ calls' = calls /\ brief' = brief
    BY <1>2, <1>3
  <2> QED
    BY <1>1, <1>4, <2>1, NoEventOut
<1>6. stored'.kind = kind /\ stored'.text = text
  BY <1>2
<1>7. Typed'
  BY <1>1, <1>2, <1>3, <1>5, <1>6 DEF Typed
<1>8. Filtered'
  BY <1>1, <1>3, FilterStays
<1>9. Attempt' /\ Kept'
  BY <1>1, <1>2, <1>3, <1>4, <1>6 DEF Attempt, Kept
<1>10. Told' /\ Heard'
  <2>1. client' = client /\ (brief => brief')
    BY <1>3
  <2> QED
    BY <1>1, <1>4, <2>1, PageWaits
<1> QED
  BY <1>5, <1>7, <1>8, <1>9, <1>10 DEF StreamInv

\* A refusal is the answer.
LEMMA ModelRefusesStep ==
    ASSUME StreamInv, ModelRefuses
    PROVE  StreamInv'
<1>1. stage = "streaming" /\ Answer("refusal", RefusalText) /\ proposed' = FALSE
  BY DEF ModelRefuses, Finished
<1>2. UNCHANGED <<spoken, brief, queue, connected, client>> /\ nudged' = nudged
  BY DEF ModelRefuses
<1>3. nudged \in BOOLEAN
  BY DEF StreamInv, Typed
<1> QED
  BY <1>1, <1>2, <1>3, AnswerStep

\* The model is called again.
LEMMA NextCallStep ==
    ASSUME StreamInv, stage = "streaming", calls < LastCall, NextCall,
           queue' = queue \/ (Emit([type |-> "proposal"]) /\ brief' = TRUE),
           brief => brief', brief' \in BOOLEAN,
           proposed' \in BOOLEAN, nudged' \in BOOLEAN,
           UNCHANGED <<spoken, stored, connected, client>>
    PROVE  StreamInv'
<1>1. Typed /\ Filtered /\ Attempt /\ Kept /\ OnWire /\ Told /\ Live /\ Heard
  BY DEF StreamInv
<1>2. stage' = "calling" /\ calls' = calls + 1 /\ attempt' = 0
  BY DEF NextCall
<1>3. /\ UNCHANGED <<stored, connected, client>>
      /\ UNCHANGED <<reply, sent, announced, yielded, filter, shown>>
  BY DEF spoken
<1>4. stage \notin Over
  BY DEF Over
<1>5. calls' \in 1..LastCall /\ calls' # 1 /\ attempt' \in 0..MaxRetries
  BY <1>1, <1>2, StreamAssumption DEF Typed, LastCall
<1>6. shown' = shown /\ client' = client /\ connected' = connected
  BY <1>3
<1>7. queue' \in Seq(Event) /\ OnWire' /\ Live'
  <2>1. CASE queue' = queue
    BY <1>1, <1>4, <1>5, <1>6, <2>1, NoEventOut
  <2>2. CASE Emit([type |-> "proposal"]) /\ brief' = TRUE
    <3> DEFINE e == [type |-> "proposal"]
    <3>1. e \in Event /\ e.type = "proposal"
      BY DEF Event
    <3>2. Emit(e)
      BY <2>2
    <3> HIDE DEF e
    <3> QED
      BY <1>1, <1>4, <1>5, <1>6, <2>2, <3>1, <3>2, EventOut
  <2> QED
    BY <2>1, <2>2
<1>8. Typed'
  BY <1>1, <1>2, <1>3, <1>5, <1>7 DEF Typed
<1>9. Filtered'
  BY <1>1, <1>3, FilterStays
<1>10. Attempt' /\ Kept'
  BY <1>1, <1>2, <1>3, <1>5 DEF Attempt, Kept
<1>11. Told' /\ Heard'
  BY <1>1, <1>4, <1>6, PageWaits
<1> QED
  BY <1>7, <1>8, <1>9, <1>10, <1>11 DEF StreamInv

\* The tool runs, and the model is called again.
LEMMA RunToolStep ==
    ASSUME StreamInv, RunTool
    PROVE  StreamInv'
<1>1. /\ stage = "streaming" /\ calls < LastCall /\ NextCall
      /\ UNCHANGED <<spoken, stored, connected, client>> /\ nudged' = nudged
  BY DEF RunTool, Finished
<1>2. brief \in BOOLEAN /\ proposed \in BOOLEAN /\ nudged \in BOOLEAN
  BY DEF StreamInv, Typed
<1>3. \/ brief' = TRUE /\ proposed' = TRUE /\ Emit([type |-> "proposal"])
      \/ brief' = brief /\ proposed' = proposed /\ queue' = queue
  BY DEF RunTool
<1>4. /\ queue' = queue \/ (Emit([type |-> "proposal"]) /\ brief' = TRUE)
      /\ brief => brief'
  <2>1. CASE brief' = TRUE /\ Emit([type |-> "proposal"])
    BY <2>1
  <2>2. CASE brief' = brief /\ queue' = queue
    BY <2>2
  <2> QED
    BY <1>3, <2>1, <2>2
<1>5. brief' \in BOOLEAN /\ proposed' \in BOOLEAN /\ nudged' \in BOOLEAN
  BY <1>1, <1>2, <1>3
<1> QED
  BY <1>1, <1>4, <1>5, NextCallStep

\* The engine makes an answer of the reply, or asks again.
LEMMA SettleStep ==
    ASSUME StreamInv, Settle
    PROVE  StreamInv'
<1> DEFINE text == Cleaned[reply.text]
<1>1. /\ stage = "streaming" /\ sent = Len(reply.text)
      /\ UNCHANGED <<spoken, brief, proposed, queue, connected, client>>
  BY DEF Settle, Finished
<1>2. brief \in BOOLEAN /\ proposed \in BOOLEAN /\ nudged \in BOOLEAN
  BY DEF StreamInv, Typed
<1>3. \/ Answer("reply", text) /\ nudged' = nudged
      \/ calls < LastCall /\ NextCall /\ nudged' = TRUE /\ stored' = stored
      \/ Answer("fallback", FallbackText) /\ nudged' = nudged
  BY DEF Settle
<1>4. /\ UNCHANGED <<spoken, brief, queue, connected, client>>
      /\ proposed' \in BOOLEAN /\ nudged' \in BOOLEAN
  <2>1. UNCHANGED <<spoken, brief, queue, connected, client>> /\ proposed' = proposed
    BY <1>1
  <2>2. nudged' \in BOOLEAN
    BY <1>2, <1>3
  <2> QED
    BY <1>2, <2>1, <2>2
<1> HIDE DEF text
<1>5. CASE Answer("reply", text)
  <2>1. sent = Len(reply.text) /\ text = Cleaned[reply.text]
    BY <1>1 DEF text
  <2> QED
    BY <1>1, <1>4, <1>5, <2>1, AnswerStep
<1>6. CASE calls < LastCall /\ NextCall /\ stored' = stored
  <2>1. /\ UNCHANGED <<spoken, stored, connected, client>> /\ queue' = queue
        /\ brief' = brief
    BY <1>4, <1>6
  <2>2. brief => brief'
    BY <2>1
  <2>3. brief' \in BOOLEAN
    BY <1>2, <2>1
  <2>4. proposed' \in BOOLEAN /\ nudged' \in BOOLEAN
    BY <1>4
  <2>5. queue' = queue \/ (Emit([type |-> "proposal"]) /\ brief' = TRUE)
    BY <2>1
  <2>6. UNCHANGED <<spoken, stored, connected, client>>
    BY <2>1
  <2>7. stage = "streaming" /\ calls < LastCall /\ NextCall
    BY <1>1, <1>6
  <2> QED
    BY <2>2, <2>3, <2>4, <2>5, <2>6, <2>7, NextCallStep
<1>7. CASE Answer("fallback", FallbackText)
  BY <1>1, <1>4, <1>7, AnswerStep
<1> QED
  BY <1>3, <1>5, <1>6, <1>7

\* commit_turn, and done.
LEMMA CommitStep ==
    ASSUME StreamInv, Commit
    PROVE  StreamInv'
<1>1. Typed /\ Filtered /\ Attempt /\ Kept /\ OnWire /\ Told /\ Live /\ Heard
  BY DEF StreamInv
<1>2. /\ stage = "committing" /\ stage' = "committed"
      /\ Emit([type |-> "done", awaiting |-> proposed])
      /\ UNCHANGED <<stored, connected, client>>
      /\ UNCHANGED <<calls, attempt, brief, proposed, nudged>>
      /\ UNCHANGED <<reply, sent, announced, yielded, filter, shown>>
  BY DEF Commit, turn, spoken
<1>3. stage \notin Over
  BY <1>2 DEF Over
<1>4. queue' \in Seq(Event) /\ OnWire' /\ Live'
  <2> DEFINE e == [type |-> "done", awaiting |-> proposed]
  <2>1. e \in Event /\ e.type = "done"
    <3>1. proposed \in BOOLEAN
      BY <1>1 DEF Typed
    <3> QED
      BY <3>1 DEF Event
  <2>2. Emit(e)
    BY <1>2
  <2> HIDE DEF e
  <2>3. shown' = shown /\ client' = client /\ connected' = connected /\ calls' = calls
        /\ brief' = brief
    BY <1>2
  <2> QED
    BY <1>1, <1>2, <1>3, <2>1, <2>2, <2>3, EventOut
<1>5. Typed'
  BY <1>1, <1>2, <1>4 DEF Typed, Over
<1>6. Filtered'
  BY <1>1, <1>2, FilterStays
<1>7. Attempt' /\ Kept'
  BY <1>1, <1>2 DEF Attempt, Kept
<1>8. Told' /\ Heard'
  <2>1. client' = client /\ (brief => brief')
    BY <1>2
  <2> QED
    BY <1>1, <1>3, <2>1, PageWaits
<1> QED
  BY <1>4, <1>5, <1>6, <1>7, <1>8 DEF StreamInv

(***************************************************************************)
(* The steps of the page.                                                  *)
(***************************************************************************)

\* The hook handles the next event.
LEMMA PumpStep ==
    ASSUME StreamInv, Pump
    PROVE  StreamInv'
<1>1. Typed /\ Filtered /\ Attempt /\ Kept /\ OnWire /\ Told /\ Live /\ Heard
  BY DEF StreamInv
<1> DEFINE e == Head(queue)
<1>2. /\ queue # << >> /\ connected /\ queue' = Tail(queue) /\ client' = Handled(e)
      /\ connected' = (client'.phase = "reading")
  BY DEF Pump
<1>3. /\ UNCHANGED <<stage, calls, attempt, brief, proposed, nudged, stored>>
      /\ UNCHANGED <<reply, sent, announced, yielded, filter, shown>>
  BY DEF Pump, server
<1>4. queue \in Seq(Event) /\ client \in Client /\ proposed \in BOOLEAN
  BY <1>1 DEF Typed
<1>5. /\ Wired(Tail(queue), stage)
      /\ e = queue[1] /\ 1 \in 1..Len(queue) /\ queue[1] \in Event
      /\ e.type \in {"done", "error"} => Len(queue) = 1
      /\ e.type = "done" => stage = "committed"
      /\ e.type = "error" => stage \in {"failed", "unheard"}
  <2>1. Wired(queue, stage)
    BY <1>1 DEF OnWire
  <2> QED
    BY <1>2, <1>4, <2>1, WiredTail
<1>6. /\ queue' \in Seq(Event) /\ Len(queue) \in Nat
      /\ Len(queue') = Len(queue) - 1
      /\ \A i \in 1..Len(queue') : queue'[i] = queue[i + 1]
  BY <1>2, <1>4, HeadTailProperties, LenProperties
<1>7. /\ e.type \in {"delta", "tool", "proposal", "error", "done"}
      /\ e.type = "delta" => e.text \in Seq(Symbol)
      /\ e.type = "done" => e.awaiting \in BOOLEAN
      /\ e.type = "proposal" => brief
  <2>1. e \in Event /\ (e.type = "proposal" => brief)
    BY <1>1, <1>5 DEF OnWire
  <2> HIDE DEF e
  <2> QED
    BY <2>1 DEF Event
<1> HIDE DEF e
<1>8. /\ client.streamed \in Seq(Symbol) /\ client.thread \in Seq(Symbol)
      /\ client.proposal \in BOOLEAN /\ client.card \in BOOLEAN
  BY <1>4 DEF Client
<1>9. LiveOn(IF e.type = "delta" THEN client.streamed \o e.text ELSE client.streamed,
             queue', shown, calls)
  <2>1. LiveOn(client.streamed, queue, shown, calls)
    BY <1>1, <1>2 DEF Live
  <2> QED
    BY <1>2, <1>4, <2>1, LiveTail DEF e
<1>10. OnWire'
  <2>1. ASSUME NEW i \in 1..Len(queue'), queue'[i].type = "proposal"
        PROVE  brief'
    <3>1. i + 1 \in 1..Len(queue)
      BY <1>6
    <3> QED
      BY <1>1, <1>3, <1>6, <2>1, <3>1 DEF OnWire
  <2>2. Wired(queue', stage')
    BY <1>2, <1>3, <1>5
  <2> QED
    BY <2>1, <2>2 DEF OnWire
<1>11. Filtered'
  BY <1>1, <1>3, FilterStays
<1>12. Attempt' /\ Kept'
  BY <1>1, <1>3 DEF Attempt, Kept
<1>13. client' \in Client
  <2>1. CASE e.type = "delta"
    <3>1. client' = [client EXCEPT !.streamed = @ \o e.text]
      BY <1>2, <2>1 DEF Handled
    <3>2. client.streamed \o e.text \in Seq(Symbol)
      BY <1>7, <1>8, <2>1, ConcatProperties
    <3> QED
      BY <1>4, <3>1, <3>2 DEF Client
  <2>2. CASE e.type = "tool"
    BY <1>2, <1>4, <2>2 DEF Handled
  <2>3. CASE e.type = "proposal"
    BY <1>2, <1>4, <2>3 DEF Handled, Client
  <2>4. CASE e.type = "error"
    BY <1>2, <1>4, <2>4 DEF Handled, Client
  <2>5. CASE e.type = "done"
    <3>1. client' = [client EXCEPT !.phase = "ended", !.saw = "done",
                                   !.thread = client.streamed,
                                   !.card = e.awaiting /\ client.proposal]
      BY <1>2, <2>5 DEF Handled
    <3> DEFINE card == e.awaiting /\ client.proposal
    <3>2. card \in BOOLEAN
      BY <1>7, <1>8, <2>5
    <3> HIDE DEF card
    <3>3. [client EXCEPT !.phase = "ended", !.saw = "done",
                         !.thread = client.streamed, !.card = card] \in Client
      BY <1>4, <1>8, <3>2 DEF Client
    <3> QED
      BY <3>1, <3>3 DEF card
  <2> QED
    BY <1>7, <2>1, <2>2, <2>3, <2>4, <2>5
<1>14. Typed'
  <2>1. connected' \in BOOLEAN
    BY <1>2
  <2> QED
    BY <1>1, <1>3, <1>6, <1>13, <2>1 DEF Typed
<1>15. Told' /\ Live' /\ Heard'
  <2>1. CASE e.type = "delta"
    <3>1. /\ client'.streamed = client.streamed \o e.text /\ client'.saw = client.saw
          /\ client'.proposal = client.proposal /\ client'.card = client.card
          /\ client'.thread = client.thread
      BY <1>2, <1>4, <2>1 DEF Handled, Client
    <3> QED
      BY <1>1, <1>3, <1>9, <2>1, <3>1 DEF Told, Live, Heard
  <2>2. CASE e.type \in {"tool", "proposal"}
    <3>1. /\ client'.streamed = client.streamed /\ client'.saw = client.saw
          /\ client'.card = client.card /\ client'.thread = client.thread
          /\ client'.proposal => client.proposal \/ brief
      BY <1>2, <1>4, <1>7, <2>2 DEF Handled, Client
    <3> QED
      BY <1>1, <1>3, <1>9, <2>2, <3>1 DEF Told, Live, Heard
  <2>3. CASE e.type = "error"
    <3>1. /\ client'.phase = "ended" /\ client'.saw = "error"
          /\ client'.proposal = client.proposal /\ client'.card = client.card
      BY <1>2, <1>4, <2>3 DEF Handled, Client
    <3>2. ~connected'
      BY <1>2, <3>1
    <3> QED
      BY <1>1, <1>3, <1>5, <2>3, <3>1, <3>2 DEF Told, Live, Heard
  <2>4. CASE e.type = "done"
    <3>1. /\ client'.phase = "ended" /\ client'.saw = "done"
          /\ client'.proposal = client.proposal
          /\ client'.thread = client.streamed
      BY <1>2, <1>4, <2>4 DEF Handled, Client
    <3>2. client'.card => client.proposal
      BY <1>2, <1>4, <2>4 DEF Handled, Client
    <3>3. ~connected'
      BY <1>2, <3>1
    <3>4. \E pre \in Seq(Symbol) : /\ client.streamed = pre \o shown
                                   /\ calls = 1 => pre = << >>
      <4>1. LiveOn(client.streamed, queue, shown, calls)
        BY <1>1, <1>2 DEF Live
      <4>2. Len(queue) = 1 /\ queue[1].type # "delta"
        BY <1>5, <2>4
      <4>3. \A from, text, n : LiveOn(from, queue, text, n) =>
               \E pre \in Seq(Symbol) : from = pre \o text /\ (n = 1 => pre = << >>)
        BY <1>4, <4>2, LiveEnd
      <4> QED
        BY <4>1, <4>3
    <3>5. Told'
      BY <1>1, <1>3, <1>5, <2>4, <3>1, <3>2 DEF Told
    <3>6. Heard'
      BY <1>3, <3>1, <3>4 DEF Heard
    <3> QED
      BY <3>3, <3>5, <3>6 DEF Live
  <2> QED
    BY <1>7, <2>1, <2>2, <2>3, <2>4
<1> QED
  BY <1>10, <1>11, <1>12, <1>14, <1>15 DEF StreamInv

\* The connection breaks, or the listener leaves.
LEMMA DisconnectStep ==
    ASSUME StreamInv, Disconnect
    PROVE  StreamInv'
<1>1. Typed /\ Filtered /\ Attempt /\ Kept /\ OnWire /\ Told /\ Live /\ Heard
  BY DEF StreamInv
<1>2. connected' = FALSE
  BY DEF Disconnect
<1>3. PICK saw \in {"failure", "nothing"} :
        client' = [client EXCEPT !.phase = "ended", !.saw = saw]
  BY DEF Disconnect
<1>4. /\ UNCHANGED <<stage, calls, attempt, brief, proposed, nudged, stored, queue>>
      /\ UNCHANGED <<reply, sent, announced, yielded, filter, shown>>
  BY DEF Disconnect, server
<1>5. client \in Client
  BY <1>1 DEF Typed
<1>6. /\ client' \in Client /\ client'.saw = saw
      /\ client'.proposal = client.proposal /\ client'.card = client.card
  BY <1>3, <1>5 DEF Client
<1>7. Typed'
  <2>1. connected' \in BOOLEAN /\ client' \in Client
    BY <1>2, <1>6
  <2> QED
    BY <1>1, <1>4, <2>1 DEF Typed
<1>8. Filtered'
  BY <1>1, <1>4, FilterStays
<1>9. Attempt' /\ Kept'
  BY <1>1, <1>4 DEF Attempt, Kept
<1>10. OnWire'
  BY <1>1, <1>4 DEF OnWire
<1>11. Told' /\ Live' /\ Heard'
  BY <1>1, <1>2, <1>4, <1>6 DEF Told, Live, Heard
<1> QED
  BY <1>7, <1>8, <1>9, <1>10, <1>11 DEF StreamInv

(***************************************************************************)
(* The theorems.                                                           *)
(***************************************************************************)

\* Every step keeps the invariant.
LEMMA StreamStep == StreamInv /\ [StreamNext]_vars => StreamInv'
<1> SUFFICES ASSUME StreamInv, [StreamNext]_vars PROVE StreamInv'
  OBVIOUS
<1>1. CASE Call
  BY <1>1, CallStep
<1>2. CASE Delta(1) \/ Delta(2)
  BY <1>2, DeltaStep
<1>3. CASE ToolStart
  BY <1>3, ToolStartStep
<1>4. CASE ModelRefuses
  BY <1>4, ModelRefusesStep
<1>5. CASE RunTool
  BY <1>5, RunToolStep
<1>6. CASE Settle
  BY <1>6, SettleStep
<1>7. CASE Commit
  BY <1>7, CommitStep
<1>8. CASE TransientFailure
  BY <1>8, TransientFailureStep
<1>9. CASE OtherFailure \/ CommitFails
  BY <1>9, OtherFailureStep
<1>10. CASE Pump
  BY <1>10, PumpStep
<1>11. CASE Disconnect
  BY <1>11, DisconnectStep
<1>12. CASE UNCHANGED vars
  <2>1. /\ UNCHANGED <<stage, calls, attempt, brief, proposed, nudged, stored>>
        /\ UNCHANGED <<reply, sent, announced, yielded, filter, shown>>
        /\ UNCHANGED <<queue, connected, client>>
    BY <1>12 DEF vars, server
  <2>2. Typed' /\ Kept'
    BY <2>1 DEF StreamInv, Typed, Kept
  <2>3. Filtered'
    BY <2>1, FilterStays DEF StreamInv
  <2>4. Attempt' /\ OnWire'
    BY <2>1 DEF StreamInv, Attempt, OnWire
  <2>5. Told' /\ Live' /\ Heard'
    BY <2>1 DEF StreamInv, Told, Live, Heard
  <2> QED
    BY <2>2, <2>3, <2>4, <2>5 DEF StreamInv
<1> QED
  BY <1>1, <1>2, <1>3, <1>4, <1>5, <1>6, <1>7, <1>8, <1>9, <1>10, <1>11, <1>12
     DEF StreamNext, Provider, Engine, Failure

\* The invariant holds: the filter has let out what the text that arrived
\* makes certain, an attempt made again has shown nothing, and what is on the
\* wire, on the page and in the store is so.
THEOREM StreamInvariant == StreamSpec => []StreamInv
<1> QED
  BY StreamInitInv, StreamStep, PTL DEF StreamSpec

\* agent/thinking.py: whatever the texts, and however they are cut into
\* deltas, what has been shown is what is outside the thinking tags.
THEOREM NothingHidden == StreamSpec => []NothingHiddenIsShown
<1>1. StreamInv => NothingHiddenIsShown
  <2> SUFFICES ASSUME StreamInv PROVE NothingHiddenIsShown
    OBVIOUS
  <2>1. Typed /\ Filtered
    BY DEF StreamInv
  <2>2. reply.text \in Seq(Symbol) /\ sent \in 0..Len(reply.text)
    BY <2>1, ReplyTyped DEF Typed
  <2> DEFINE s == reply.text
             held == IF Inside(s, sent) THEN << >> ELSE Doubtful(s, sent)
  <2>3. Visible(SubSeq(s, 1, sent)) = View(s)[Certain(s, sent)] \o held
    BY <2>2, VisibleOfPrefix
  <2>4. held = IF filter.inside THEN << >> ELSE filter.pending
    BY <2>1 DEF Filtered
  <2>5. shown = View(s)[Certain(s, sent)]
    BY <2>1 DEF Filtered
  <2> HIDE DEF held
  <2> QED
    BY <2>3, <2>4, <2>5 DEF NothingHiddenIsShown
<1> QED
  BY StreamInvariant, <1>1, PTL

\* What the listener watched being written is the end of it, or all of it,
\* that the transcript keeps.
THEOREM LiveAsStored == StreamSpec => []LiveIsStored
<1>1. StreamInv => LiveIsStored
  <2> SUFFICES ASSUME StreamInv, client.saw = "done", stored.kind = "reply",
                      filter = FreshFilter
               PROVE  /\ IsSuffix(stored.text, client.thread)
                      /\ calls = 1 => client.thread = stored.text
    BY DEF LiveIsStored
  <2>1. Typed /\ Filtered /\ Kept /\ Heard
    BY DEF StreamInv
  <2> DEFINE s == reply.text
  <2>2. reply \in Reply /\ sent = Len(s) /\ stored.text = Cleaned[s]
    BY <2>1 DEF Kept
  <2>3. s \in Text /\ s \in Seq(Symbol) /\ Len(s) \in Nat
    <3>1. s \in Text /\ s \in Seq(Symbol)
      BY <2>2, ReplyTyped
    <3> QED
      BY <3>1, LenProperties
  <2> HIDE DEF s
  <2>4. filter.inside = FALSE /\ filter.pending = << >>
    BY DEF FreshFilter
  <2>5. ~Inside(s, Len(s))
    BY <2>1, <2>2, <2>4 DEF Filtered, s
  <2>6. Certain(s, Len(s)) = Len(s)
    <3>1. Doubtful(s, Len(s)) = << >>
      BY <2>1, <2>2, <2>4 DEF Filtered, s
    <3>2. <<"<">> # << >>
      OBVIOUS
    <3> QED
      BY <3>1, <3>2 DEF Doubtful, Certain
  <2>7. shown = View(s)[Len(s)]
    BY <2>1, <2>2, <2>6 DEF Filtered, s
  <2>8. stored.text = shown
    <3>1. Cleaned[s] = Clean(s)
      BY <2>3 DEF Cleaned
    <3> QED
      BY <2>2, <2>3, <2>5, <2>7, <3>1, CleanIsVisible
  <2>9. shown \in Seq(Symbol)
    BY <2>1 DEF Typed
  <2>10. PICK pre \in Seq(Symbol) : /\ client.thread = pre \o shown
                                    /\ calls = 1 => pre = << >>
    BY <2>1 DEF Heard
  <2>11. IsSuffix(shown, pre \o shown)
    BY <2>9, EndOf
  <2>12. << >> \o shown = shown
    BY <2>9, ConcatEmptySeq
  <2> QED
    BY <2>8, <2>10, <2>11, <2>12
<1> QED
  BY StreamInvariant, <1>1, PTL

\* agent_runner/sse.py: the page is told that a turn is done only when it is
\* committed, and of an error only when nothing is stored or the commit's answer
\* was lost; its card stands on a brief.
THEOREM ToldTheTruth == StreamSpec => []ToldWhatHappened
<1>1. StreamInv => ToldWhatHappened
  <2> SUFFICES ASSUME StreamInv PROVE ToldWhatHappened
    OBVIOUS
  <2>1. Typed /\ OnWire /\ Told /\ Kept
    BY DEF StreamInv
  <2>2. /\ filter.inside \in BOOLEAN /\ filter.pending \in {<< >>, <<"<">>}
        /\ client.phase \in {"reading", "ended"}
        /\ client.saw \in {"nothing", "done", "error", "failure"}
    BY <2>1 DEF Typed, Client
  <2>3. DOMAIN queue = 1..Len(queue)
    <3>1. queue \in Seq(Event)
      BY <2>1 DEF Typed
    <3> QED
      BY <3>1, LenProperties
  <2>4. \A i \in DOMAIN queue :
           queue[i].type \in {"done", "error"} =>
               i = Len(queue) /\ stage \in Over
    BY <2>1, <2>3 DEF OnWire, Wired, Over
  <2>5. {announced, yielded, brief, proposed, nudged, connected} \subseteq BOOLEAN
    BY <2>1 DEF Typed
  <2>6. StreamTypeOK
    BY <2>1, <2>2, <2>4, <2>5 DEF StreamTypeOK, Typed
  <2> QED
    BY <2>1, <2>6 DEF ToldWhatHappened, Told, Kept
<1> QED
  BY StreamInvariant, <1>1, PTL

=============================================================================
