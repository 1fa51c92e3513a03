----------------------- MODULE RequestHandling_proofs -----------------------
(* Theorems about RequestHandling, for all values of its constants. *)
EXTENDS RequestHandling, SequenceTheorems, TLAPS

(* Texts and their fragments *)

\* What a callback is given, what came before it, and what they make together.
LEMMA Fragments ==
    ASSUME NEW t \in Text, NEW i \in 0 .. Len(t), NEW n \in 0 .. Len(t) - i
    PROVE  /\ SubSeq(t, i + 1, i + n) \in Text
           /\ SubSeq(t, 1, i) \in Text
           /\ SubSeq(t, 1, i) \o SubSeq(t, i + 1, i + n) = SubSeq(t, 1, i + n)
           /\ i + n \in 0 .. Len(t)
  <1>1. /\ SubSeq(t, i + 1, i + n) \in Seq(Symbol) /\ SubSeq(t, 1, i) \in Seq(Symbol)
        /\ i + n \in 0 .. Len(t)
    BY DEF Text
  <1>2. SubSeq(t, 1, i) \o SubSeq(t, i + 1, i + n) = SubSeq(t, 1, i + n)
    BY ConcatAdjacentSubSeq, t \in Seq(Symbol), 1 \in 1 .. Len(t) + 1,
       i \in 1 - 1 .. Len(t), i + n \in i .. Len(t) DEF Text
  <1> QED BY <1>1, <1>2 DEF Text

\* The whole of a text, and nothing of it.
LEMMA WholeText ==
    ASSUME NEW t \in Text
    PROVE  /\ SubSeq(t, 1, Len(t)) = t /\ SubSeq(t, 1, 0) = <<>>
           /\ Len(t) \in Nat /\ <<>> \in Text
           /\ t # <<>> <=> Len(t) > 0
  BY DEF Text

\* Two texts put together are a text.
LEMMA ConcatText ==
    ASSUME NEW s \in Text, NEW t \in Text
    PROVE  s \o t \in Text /\ (t = <<>> => s \o t = s) /\ (s = <<>> => s \o t = t)
  BY DEF Text

\* A fragment that reaches the end of a text is an end of it.
LEMMA LastFragment ==
    ASSUME NEW t \in Text, NEW i \in 0 .. Len(t)
    PROVE  EndsWith(t, SubSeq(t, i + 1, i + (Len(t) - i)))
  <1>1. i + (Len(t) - i) = Len(t)
    BY DEF Text
  <1> QED BY <1>1 DEF EndsWith

(* Requests *)

\* The shape of a request, as the steps use it.
LEMMA Shape ==
    ASSUME NEW r \in Requests
    PROVE  /\ r # <<>> /\ Len(r) \in Nat \ {0} /\ r[1].kind = "url"
           /\ \A i \in 1 .. Len(r) :
                 /\ r[i].kind \in Kind /\ r[i].text \in Text
                 /\ r[i].kind = "url" <=> i = 1
                 /\ r[i].kind = "value" <=> i > 1 /\ r[i - 1].kind = "field"
                 /\ r[i].kind # "value" => r[i].text # <<>>
                 /\ r[i].kind = "field" => i < Len(r) /\ r[i + 1].kind = "value"
                 /\ \A j \in 1 .. Len(r) : r[i].kind = "body" /\ r[j].kind = "body" => i = j
  <1>1. WellFormed(r)
    BY RequestsAssumption
  <1>2. r \in Seq(Span) /\ r # <<>>
    BY <1>1 DEF WellFormed
  <1>3. Len(r) \in Nat \ {0}
    BY <1>2
  <1>4. \A i \in 1 .. Len(r) : r[i] \in Span
    BY <1>2
  <1>5. \A i \in 1 .. Len(r) : r[i].kind \in Kind /\ r[i].text \in Text
    BY <1>4 DEF Span
  <1>6. \A i \in 1 .. Len(r) :
           r[i].kind = "field" => i < Len(r) /\ r[i + 1].kind = "value"
    <2> SUFFICES ASSUME NEW i \in 1 .. Len(r), r[i].kind = "field"
                 PROVE  i < Len(r) /\ r[i + 1].kind = "value"
      OBVIOUS
    <2>1. i < Len(r)
      BY <1>1 DEF WellFormed
    <2>2. i + 1 \in 1 .. Len(r) /\ i + 1 > 1 /\ (i + 1) - 1 = i
      BY <1>3, <2>1
    <2> QED BY <1>1, <2>1, <2>2 DEF WellFormed
  <1> QED BY <1>1, <1>2, <1>3, <1>5, <1>6 DEF WellFormed

\* A callback moves the position; only its own span has been delivered further.
LEMMA FragmentEffect ==
    ASSUME TypeOK, NEW kind, NEW n, NEW over \in BOOLEAN, Fragment(kind, n, over)
    PROVE  /\ req \in Requests /\ req' = req /\ at \in 1 .. Len(req) /\ req[at].kind = kind
           /\ at' \in 1 .. Len(req) + 1 /\ at' = IF over THEN at + 1 ELSE at
           /\ seen' \in IF at' <= Len(req) THEN 0 .. Len(req[at'].text) ELSE {0}
           /\ cut' \in BOOLEAN /\ (~cut' => ~cut)
           /\ Delivered(n) \in Text
           /\ \A i \in 1 .. Len(req) :
                 SoFar(i)' = IF i = at THEN SoFar(i) \o Delivered(n) ELSE SoFar(i)
           /\ ~cut' /\ kind \in {"field", "value"} => over
           /\ over /\ seen = 0 => Delivered(n) = req[at].text
           /\ over => EndsWith(req[at].text, Delivered(n))
  <1>1. req \in Requests /\ req' = req /\ at \in 1 .. Len(req) /\ req[at].kind = kind
    BY DEF TypeOK, Fragment
  <1>2. \A i \in 1 .. Len(req) : req[i].text \in Text /\ Len(req) \in Nat
    BY <1>1, Shape
  <1> DEFINE t == req[at].text
  <1>3. t \in Text /\ Len(t) \in Nat /\ seen \in 0 .. Len(t)
    BY <1>1, <1>2, WholeText DEF TypeOK
  <1>4. /\ n \in 0 .. Len(t) - seen /\ (over => n = Len(t) - seen)
        /\ at' = (IF over THEN at + 1 ELSE at) /\ seen' = (IF over THEN 0 ELSE seen + n)
        /\ cut' = (cut \/ (~over /\ kind \in {"field", "value"}))
    BY DEF Fragment
  <1>5. at \in Nat /\ at' \in 1 .. Len(req) + 1
    BY <1>1, <1>2, <1>4
  <1>6. seen' \in IF at' <= Len(req) THEN 0 .. Len(req[at'].text) ELSE {0}
    <2>1. CASE over
      <3>1. seen' = 0 /\ at' = at + 1
        BY <1>4, <2>1
      <3>2. CASE at' <= Len(req)
        <4>1. at' \in 1 .. Len(req)
          BY <1>2, <1>5, <3>2
        <4>2. Len(req[at'].text) \in Nat
          BY <1>2, <4>1, WholeText
        <4> QED BY <3>1, <3>2, <4>2
      <3> QED BY <3>1, <3>2
    <2>2. CASE ~over
      BY <1>1, <1>2, <1>3, <1>4, <2>2
    <2> QED BY <2>1, <2>2
  <1>7. /\ SubSeq(t, seen + 1, seen + n) \in Text
        /\ SubSeq(t, 1, seen) \o SubSeq(t, seen + 1, seen + n) = SubSeq(t, 1, seen + n)
    BY <1>3, <1>4, Fragments
  <1>8. ASSUME NEW i \in 1 .. Len(req), i = at
        PROVE  SoFar(i)' = SoFar(i) \o Delivered(n)
    <2>1. SoFar(i) = SubSeq(t, 1, seen) /\ Delivered(n) = SubSeq(t, seen + 1, seen + n)
      <3>1. ~(i < at)
        BY <1>5, <1>8
      <3>2. SoFar(i) = SubSeq(req[i].text, 1, seen)
        BY <1>8, <3>1 DEF SoFar
      <3> QED BY <1>8, <3>2 DEF Delivered
    <2>2. CASE over
      <3>1. seen + n = Len(t) /\ SubSeq(t, 1, Len(t)) = t
        BY <1>3, <1>4, <2>2, WholeText
      <3>2. i < at' /\ req' = req
        BY <1>1, <1>4, <1>5, <1>8, <2>2
      <3>3. SoFar(i)' = req[i].text
        BY <3>2 DEF SoFar
      <3> QED BY <1>7, <1>8, <2>1, <3>1, <3>3
    <2>3. CASE ~over
      <3>1. at' = i /\ req' = req /\ seen' = seen + n
        BY <1>1, <1>4, <1>8, <2>3
      <3>2. ~(i < at')
        BY <1>5, <1>8, <3>1
      <3>3. SoFar(i)' = SubSeq(req[i].text, 1, seen + n)
        BY <3>1, <3>2 DEF SoFar
      <3> QED BY <1>7, <1>8, <2>1, <3>3
    <2> QED BY <2>2, <2>3
  <1>9. ASSUME NEW i \in 1 .. Len(req), i # at PROVE SoFar(i)' = SoFar(i)
    <2>1. SubSeq(req[i].text, 1, 0) = <<>>
      BY <1>2, WholeText
    <2>2. i \in Nat /\ (i < at \/ i > at)
      BY <1>2, <1>5, <1>9
    <2>3. CASE i < at
      <3>1. i < at'
        BY <1>4, <1>5, <2>2, <2>3
      <3> QED BY <1>1, <2>3, <3>1 DEF SoFar
    <2>4. CASE i > at
      <3>1. ~(i < at) /\ ~(i < at') /\ (i = at' => over)
        BY <1>4, <1>5, <2>2, <2>4
      <3>2. SoFar(i) = <<>>
        BY <1>9, <3>1 DEF SoFar
      <3>3. SoFar(i)' = IF i = at' THEN SubSeq(req[i].text, 1, seen') ELSE <<>>
        BY <1>1, <3>1 DEF SoFar
      <3> QED BY <1>4, <2>1, <3>1, <3>2, <3>3
    <2> QED BY <2>2, <2>3, <2>4
  <1>10. over /\ seen = 0 => Delivered(n) = req[at].text
    BY <1>3, <1>4, WholeText DEF Delivered
  <1>11. over => EndsWith(req[at].text, Delivered(n))
    BY <1>3, <1>4, LastFragment DEF Delivered
  <1> QED BY <1>1, <1>4, <1>5, <1>6, <1>7, <1>8, <1>9, <1>10, <1>11 DEF TypeOK, Delivered

(* The invariant *)

\* A fresh connection.
LEMMA RequestInit == Init => RequestInvariant
  <1> SUFFICES ASSUME Init PROVE RequestInvariant
    OBVIOUS
  <1>1. hasAuth \in BOOLEAN /\ authValid \in BOOLEAN
    BY DEF Init
  <1>2. acceptLz4 \in BOOLEAN /\ acceptDeflate \in BOOLEAN /\ cut \in BOOLEAN
    BY DEF Init
  <1>3. url \in Text /\ body \in Text /\ field \in Text
    BY DEF Init, Text
  <1>4. req = <<>> /\ at = 1 /\ seen = 0 /\ total = 0 /\ drops = 0 /\ Len(<<>>) = 0
    BY DEF Init
  <1>5. TypeOK
    BY <1>1, <1>2, <1>3, <1>4 DEF TypeOK
  <1> QED BY <1>4, <1>5 DEF RequestInvariant

\* The callbacks leave the parser's position where FragmentEffect says.
LEMMA CallbackType ==
    ASSUME TypeOK, NEW kind, NEW n, NEW over \in BOOLEAN, Fragment(kind, n, over),
           url' \in Text, body' \in Text, field' \in Text,
           hasAuth' \in BOOLEAN, authValid' \in BOOLEAN,
           acceptLz4' \in BOOLEAN, acceptDeflate' \in BOOLEAN
    PROVE  TypeOK'
  <1>1. total' = total /\ drops' = drops
    BY DEF Fragment
  <1> QED BY <1>1, FragmentEffect DEF TypeOK

\* on_message_begin leaves nothing of the request before.
LEMMA BeginStep == RequestInvariant /\ OnMessageBegin => RequestInvariant'
  <1> SUFFICES ASSUME RequestInvariant, OnMessageBegin PROVE RequestInvariant'
    OBVIOUS
  <1>1. req' \in Requests /\ at' = 1 /\ seen' = 0 /\ total' = total /\ drops' = drops
    BY DEF OnMessageBegin
  <1>2. url' = <<>> /\ body' = <<>> /\ field' = <<>> /\ <<>> \in Text
    BY DEF OnMessageBegin, Forget, Text
  <1>3. hasAuth' = FALSE /\ authValid' = FALSE
    BY DEF OnMessageBegin, Forget
  <1>4. acceptLz4' = FALSE /\ acceptDeflate' = FALSE /\ cut' = FALSE
    BY DEF OnMessageBegin, Forget
  <1>5. \A r \in Requests : /\ r # <<>> /\ Len(r) \in Nat \ {0} /\ r[1].kind = "url"
                            /\ Len(r[1].text) \in Nat
                            /\ SubSeq(r[1].text, 1, 0) = <<>>
    BY Shape, WholeText
  <1>6. /\ at' \in 1 .. Len(req') + 1
        /\ seen' \in IF at' <= Len(req') THEN 0 .. Len(req'[at'].text) ELSE {0}
    BY <1>1, <1>5
  <1>7. TypeOK'
    <2>1. hasAuth' \in BOOLEAN /\ authValid' \in BOOLEAN
      BY <1>3
    <2>2. acceptLz4' \in BOOLEAN /\ acceptDeflate' \in BOOLEAN /\ cut' \in BOOLEAN
      BY <1>4
    <2> QED BY <1>1, <1>2, <1>6, <2>1, <2>2 DEF RequestInvariant, TypeOK
  <1>8. Contents'
    <2>1. SoFar(1)' = <<>>
      BY <1>1, <1>5 DEF SoFar
    <2>2. ASSUME NEW i \in 1 .. Len(req'), req'[i].kind = "body" PROVE SoFar(i)' = <<>>
      BY <1>1, <1>5, <2>2 DEF SoFar
    <2> QED BY <1>2, <2>1, <2>2 DEF Contents
  <1>9. FieldRight' /\ HeadersWhole'
    BY <1>1 DEF FieldRight, HeadersWhole
  <1>10. FlagsRight'
    <2>1. \A name : Before(name)' = {}
      BY <1>1, <1>5 DEF Before, Headers
    <2> QED BY <1>3, <1>4, <2>1 DEF FlagsRight
  <1> QED BY <1>3, <1>7, <1>8, <1>9, <1>10 DEF RequestInvariant

\* Every fragment goes to the end of what it belongs to, and nowhere else.
LEMMA ContentsStep ==
    ASSUME TypeOK, Contents, NEW kind, NEW n, NEW over \in BOOLEAN,
           Fragment(kind, n, over),
           url' = IF kind = "url" THEN url \o Delivered(n) ELSE url,
           body' = IF kind = "body" THEN body \o Delivered(n) ELSE body
    PROVE  Contents'
  <1>1. /\ req \in Requests /\ req' = req /\ at \in 1 .. Len(req) /\ req[at].kind = kind
        /\ \A i \in 1 .. Len(req) :
              SoFar(i)' = IF i = at THEN SoFar(i) \o Delivered(n) ELSE SoFar(i)
    BY FragmentEffect
  <1>2. /\ 1 \in 1 .. Len(req)
        /\ \A i \in 1 .. Len(req) : req[i].kind = "url" <=> i = 1
        /\ \A i, j \in 1 .. Len(req) : req[i].kind = "body" /\ req[j].kind = "body" => i = j
    BY <1>1, Shape
  <1>3. url' = SoFar(1)'
    <2>1. kind = "url" <=> at = 1
      BY <1>1, <1>2
    <2>2. SoFar(1)' = IF 1 = at THEN SoFar(1) \o Delivered(n) ELSE SoFar(1)
      BY <1>1, <1>2
    <2> QED BY <2>1, <2>2 DEF Contents
  <1>4. ASSUME NEW i \in 1 .. Len(req), req[i].kind = "body" PROVE body' = SoFar(i)'
    <2>1. kind = "body" <=> at = i
      BY <1>1, <1>2, <1>4
    <2>2. body = SoFar(i)
      BY <1>4 DEF Contents
    <2>3. SoFar(i)' = IF i = at THEN SoFar(i) \o Delivered(n) ELSE SoFar(i)
      BY <1>1, <1>4
    <2> QED BY <2>1, <2>2, <2>3
  <1>5. (\A i \in 1 .. Len(req) : req[i].kind # "body") => body' = <<>>
    BY <1>1 DEF Contents
  <1> QED BY <1>1, <1>3, <1>4, <1>5 DEF Contents

\* The header name in hand stays the end, or the whole, of the one sent.
LEMMA FieldStep ==
    ASSUME TypeOK, FieldRight, HeadersWhole, NEW kind, NEW n, NEW over \in BOOLEAN,
           Fragment(kind, n, over),
           field' = IF kind = "field" THEN Delivered(n) ELSE field
    PROVE  FieldRight' /\ HeadersWhole'
  <1>1. /\ req \in Requests /\ req' = req /\ at \in 1 .. Len(req) /\ req[at].kind = kind
        /\ at' = (IF over THEN at + 1 ELSE at) /\ (~cut' => ~cut)
        /\ ~cut' /\ kind \in {"field", "value"} => over
        /\ over /\ seen = 0 => Delivered(n) = req[at].text
        /\ over => EndsWith(req[at].text, Delivered(n))
        /\ over => seen' = 0
    BY FragmentEffect DEF Fragment
  <1>2. at \in Nat /\ Len(req) \in Nat /\ (at > 1 /\ req[at - 1].kind = "field" => kind = "value")
    BY <1>1, Shape
  <1>3. HeadersWhole'
    BY <1>1 DEF HeadersWhole
  <1>4. CASE over
    <2>1. at' - 1 = at /\ req'[at' - 1] = req[at]
      BY <1>1, <1>2, <1>4
    <2>2. CASE kind = "field"
      <3>1. ~cut' => seen = 0
        BY <1>1, <1>2, <2>2 DEF HeadersWhole
      <3>2. EndsWith(req[at].text, field') /\ (~cut' => field' = req[at].text)
        BY <1>1, <1>4, <2>2, <3>1
      <3>3. EndsWith(req'[at' - 1].text, field') /\ (~cut' => field' = req'[at' - 1].text)
        BY <2>1, <3>2
      <3> QED BY <1>3, <3>3 DEF FieldRight
    <2>3. CASE kind # "field"
      <3>1. req'[at' - 1].kind # "field"
        BY <1>1, <2>1, <2>3
      <3> QED BY <1>3, <3>1 DEF FieldRight
    <2> QED BY <1>3, <2>2, <2>3
  <1>5. CASE ~over
    <2>1. at' = at /\ req' = req
      BY <1>1, <1>5
    <2>2. at > 1 /\ req[at - 1].kind = "field" => kind = "value" /\ field' = field /\ cut'
      BY <1>1, <1>2, <1>5
    <2> QED BY <1>3, <2>1, <2>2 DEF FieldRight
  <1> QED BY <1>3, <1>4, <1>5

\* The other callbacks leave what the flags say true.
LEMMA FlagsKept ==
    ASSUME TypeOK, ~cut => FlagsRight, authValid => Granted,
           NEW kind, NEW n, NEW over \in BOOLEAN,
           Fragment(kind, n, over), kind # "value", UNCHANGED flags
    PROVE  (~cut' => FlagsRight') /\ (authValid' => Granted')
  <1>1. /\ req \in Requests /\ req' = req /\ at \in 1 .. Len(req) /\ req[at].kind = kind
        /\ at' = (IF over THEN at + 1 ELSE at) /\ (~cut' => ~cut)
    BY FragmentEffect
  <1>2. /\ at \in Nat /\ Len(req) \in Nat
        /\ \A i \in 1 .. Len(req) : req[i].kind = "field" => i + 1 # at
    BY <1>1, Shape
  <1>3. \A name : Before(name)' = Before(name)
    <2> SUFFICES ASSUME NEW name PROVE Before(name)' = Before(name)
      OBVIOUS
    <2>1. ASSUME NEW i \in 1 .. Len(req), req[i].kind = "field"
          PROVE  i + 1 < at' <=> i + 1 < at
      BY <1>1, <1>2, <2>1
    <2> QED BY <1>1, <2>1 DEF Before, Headers
  <1>4. UNCHANGED <<hasAuth, authValid, acceptLz4, acceptDeflate>>
    BY DEF flags
  <1>5. ~cut' => FlagsRight'
    <2> SUFFICES ASSUME ~cut' PROVE FlagsRight'
      OBVIOUS
    <2>1. FlagsRight
      BY <1>1
    <2> QED BY <1>1, <1>3, <1>4, <2>1 DEF FlagsRight
  <1>6. authValid' => Granted'
    <2> SUFFICES ASSUME authValid' PROVE Granted'
      OBVIOUS
    <2>1. PICK i \in 1 .. at - 2 : /\ req[i].kind = "field"
                                  /\ EndsWith(req[i].text, Authorization)
                                  /\ EndsWith(req[i + 1].text, Token)
      BY <1>1, <1>4 DEF Granted
    <2>2. i \in 1 .. at' - 2
      BY <1>1, <1>2, <2>1
    <2> QED BY <1>1, <2>1, <2>2 DEF Granted
  <1> QED BY <1>5, <1>6

\* Where a value is delivered, and what of it.
LEMMA ValueEffect ==
    ASSUME TypeOK, FieldRight, HeadersWhole, NEW n, NEW over \in BOOLEAN,
           Fragment("value", n, over)
    PROVE  /\ req \in Requests /\ req' = req /\ Len(req) \in Nat
           /\ at \in Nat /\ at - 1 \in 1 .. Len(req) /\ at <= Len(req)
           /\ req[at].kind = "value" /\ req[at - 1].kind = "field"
           /\ EndsWith(req[at - 1].text, field)
           /\ over => at' = at + 1 /\ EndsWith(req[at].text, Delivered(n))
           /\ ~over => at' = at
           /\ ~cut' => /\ ~cut /\ over
                       /\ field = req[at - 1].text /\ Delivered(n) = req[at].text
  <1>1. /\ req \in Requests /\ req' = req /\ at \in 1 .. Len(req) /\ req[at].kind = "value"
        /\ at' = (IF over THEN at + 1 ELSE at) /\ (~cut' => ~cut)
        /\ ~cut' => over
        /\ over /\ seen = 0 => Delivered(n) = req[at].text
        /\ over => EndsWith(req[at].text, Delivered(n))
    BY FragmentEffect
  <1>2. Len(req) \in Nat /\ at > 1 /\ req[at - 1].kind = "field"
    BY <1>1, Shape
  <1>3. ~cut => seen = 0
    BY <1>1, <1>2 DEF HeadersWhole
  <1>4. EndsWith(req[at - 1].text, field) /\ (~cut => field = req[at - 1].text)
    BY <1>2 DEF FieldRight
  <1> QED BY <1>1, <1>2, <1>3, <1>4

\* The flags follow the headers that came unbroken.
LEMMA ValueFlags ==
    ASSUME TypeOK, FieldRight, HeadersWhole, ~cut => FlagsRight,
           NEW n, NEW over \in BOOLEAN, Fragment("value", n, over),
           SetFlags(Delivered(n)), ~cut'
    PROVE  FlagsRight'
  <1> DEFINE D == Delivered(n)
  <1>1. /\ req' = req /\ Len(req) \in Nat /\ at \in Nat /\ at - 1 \in 1 .. Len(req)
        /\ req[at - 1].kind = "field" /\ at' = at + 1
        /\ ~cut /\ field = req[at - 1].text /\ D = req[at].text
    BY ValueEffect
  <1>2. FlagsRight
    BY <1>1
  <1>3. ASSUME NEW name
        PROVE  Before(name)' = IF field = name THEN Before(name) \cup {at - 1} ELSE Before(name)
    <2>1. \A i \in 1 .. Len(req) : i + 1 < at' <=> i + 1 < at \/ i = at - 1
      BY <1>1
    <2> QED BY <1>1, <2>1 DEF Before, Headers
  <1>4. \A name : Before(name) \subseteq 1 .. at - 2
    BY <1>1 DEF Before, Headers
  <1>5. req'[(at - 1) + 1] = req[at]
    BY <1>1
  <1>6. hasAuth' <=> Before(Authorization)' # {}
    <2>1. hasAuth' <=> hasAuth \/ field = Authorization
      BY DEF SetFlags
    <2>2. hasAuth <=> Before(Authorization) # {}
      BY <1>2 DEF FlagsRight
    <2> QED BY <1>3, <2>1, <2>2
  <1>7. authValid' <=> \E i \in Before(Authorization)' :
                          /\ req'[i + 1].text = Token
                          /\ \A j \in Before(Authorization)' : j <= i
    <2>1. CASE field = Authorization
      <3>1. authValid' <=> req[at].text = Token
        BY <1>1, <2>1 DEF SetFlags
      <3>2. Before(Authorization)' = Before(Authorization) \cup {at - 1}
        BY <1>3, <2>1
      <3>3. \A j \in Before(Authorization)' : j <= at - 1
        BY <1>1, <1>4, <3>2
      <3>4. \A i \in Before(Authorization)' : at - 1 <= i => i = at - 1
        BY <1>1, <1>4, <3>2
      <3> QED BY <1>5, <3>1, <3>2, <3>3, <3>4
    <2>2. CASE field # Authorization
      <3>1. authValid' = authValid
        BY <2>2 DEF SetFlags
      <3>2. Before(Authorization)' = Before(Authorization)
        BY <1>3, <2>2
      <3>3. authValid <=> \E i \in Before(Authorization) :
                              /\ req[i + 1].text = Token
                              /\ \A j \in Before(Authorization) : j <= i
        BY <1>2 DEF FlagsRight
      <3> QED BY <1>1, <3>1, <3>2, <3>3
    <2> QED BY <2>1, <2>2
  <1>8. ASSUME NEW word
        PROVE  (\E i \in Before(AcceptEncoding)' : Has(req'[i + 1].text, word))
               <=> \/ \E i \in Before(AcceptEncoding) : Has(req[i + 1].text, word)
                   \/ field = AcceptEncoding /\ Has(D, word)
    <2>1. CASE field = AcceptEncoding
      <3>1. Before(AcceptEncoding)' = Before(AcceptEncoding) \cup {at - 1}
        BY <1>3, <2>1
      <3> QED BY <1>1, <1>5, <2>1, <3>1
    <2>2. CASE field # AcceptEncoding
      <3>1. Before(AcceptEncoding)' = Before(AcceptEncoding)
        BY <1>3, <2>2
      <3> QED BY <1>1, <2>2, <3>1
    <2> QED BY <2>1, <2>2
  <1>9. acceptLz4' <=> \E i \in Before(AcceptEncoding)' : Has(req'[i + 1].text, Lz4)
    <2>1. acceptLz4' <=> acceptLz4 \/ (field = AcceptEncoding /\ Has(D, Lz4))
      BY DEF SetFlags
    <2>2. acceptLz4 <=> \E i \in Before(AcceptEncoding) : Has(req[i + 1].text, Lz4)
      BY <1>2 DEF FlagsRight
    <2> QED BY <1>8, <2>1, <2>2
  <1>10. acceptDeflate' <=> \E i \in Before(AcceptEncoding)' : Has(req'[i + 1].text, Deflate)
    <2>1. acceptDeflate' <=> acceptDeflate \/ (field = AcceptEncoding /\ Has(D, Deflate))
      BY DEF SetFlags
    <2>2. acceptDeflate <=> \E i \in Before(AcceptEncoding) : Has(req[i + 1].text, Deflate)
      BY <1>2 DEF FlagsRight
    <2> QED BY <1>8, <2>1, <2>2
  <1> QED BY <1>6, <1>7, <1>9, <1>10 DEF FlagsRight

\* A value judged valid is the end of a header that ends in Authorization.
LEMMA ValueGrant ==
    ASSUME TypeOK, FieldRight, HeadersWhole, authValid => Granted,
           NEW n, NEW over \in BOOLEAN, Fragment("value", n, over),
           SetFlags(Delivered(n)), field' = field, authValid'
    PROVE  Granted'
  <1>1. /\ req' = req /\ Len(req) \in Nat /\ at \in Nat /\ at - 1 \in 1 .. Len(req)
        /\ at <= Len(req) /\ req[at].kind = "value" /\ req[at - 1].kind = "field"
        /\ EndsWith(req[at - 1].text, field)
        /\ over => at' = at + 1 /\ EndsWith(req[at].text, Delivered(n))
        /\ ~over => at' = at
    BY ValueEffect
  <1>2. CASE field = Authorization /\ over
    <2>1. Delivered(n) = Token
      BY <1>2 DEF SetFlags
    <2>2. at - 1 \in 1 .. at' - 2 /\ (at - 1) + 1 = at
      BY <1>1, <1>2
    <2>3. /\ EndsWith(req'[at - 1].text, Authorization)
          /\ EndsWith(req'[(at - 1) + 1].text, Token)
      BY <1>1, <1>2, <2>1, <2>2
    <2> QED BY <1>1, <2>2, <2>3 DEF Granted
  <1>3. CASE field = Authorization /\ ~over
    BY <1>1, <1>3 DEF Granted
  <1>4. CASE field # Authorization
    <2>1. authValid
      BY <1>4 DEF SetFlags
    <2>2. PICK i \in 1 .. at - 2 : /\ req[i].kind = "field"
                                  /\ EndsWith(req[i].text, Authorization)
                                  /\ EndsWith(req[i + 1].text, Token)
      BY <1>4, <2>1 DEF Granted
    <2>3. i \in 1 .. at' - 2
      BY <1>1, <2>2
    <2> QED BY <1>1, <2>2, <2>3 DEF Granted
  <1> QED BY <1>2, <1>3, <1>4

\* One step of the connection.
LEMMA RequestStep == RequestInvariant /\ [Next]_vars => RequestInvariant'
  <1> SUFFICES ASSUME RequestInvariant, [Next]_vars PROVE RequestInvariant'
    OBVIOUS
  <1>1. TypeOK /\ url \in Text /\ body \in Text /\ field \in Text
    BY DEF RequestInvariant, TypeOK
  <1>2. ASSUME NEW kind, NEW n, NEW over \in BOOLEAN, Fragment(kind, n, over)
        PROVE  /\ Contents /\ FieldRight /\ HeadersWhole /\ (~cut => FlagsRight)
               /\ authValid => Granted
               /\ req' # <<>> /\ Delivered(n) \in Text
               /\ url \o Delivered(n) \in Text /\ body \o Delivered(n) \in Text
    <2>1. req # <<>> /\ req' = req /\ Delivered(n) \in Text
      BY <1>1, <1>2, FragmentEffect DEF Fragment
    <2>2. url \o Delivered(n) \in Text /\ body \o Delivered(n) \in Text
      BY <1>1, <2>1, ConcatText
    <2> QED BY <2>1, <2>2 DEF RequestInvariant
  <1>3. hasAuth \in BOOLEAN /\ authValid \in BOOLEAN
    BY <1>1 DEF TypeOK
  <1>4. acceptLz4 \in BOOLEAN /\ acceptDeflate \in BOOLEAN
    BY <1>1 DEF TypeOK
  <1>5. ASSUME UNCHANGED flags
        PROVE  /\ hasAuth' \in BOOLEAN /\ authValid' \in BOOLEAN
               /\ acceptLz4' \in BOOLEAN /\ acceptDeflate' \in BOOLEAN
    BY <1>3, <1>4, <1>5, Zenon DEF flags
  <1>6. CASE OnMessageBegin
    BY <1>6, BeginStep
  <1>7. CASE OnUrl
    <2>1. PICK n \in Sizes, over \in BOOLEAN :
             /\ Fragment("url", n, over)
             /\ url' = url \o Delivered(n) /\ UNCHANGED <<body, field, flags>>
      BY <1>7 DEF OnUrl, Extended
    <2>2. TypeOK'
      BY <1>1, <1>2, <1>5, <2>1, CallbackType
    <2>3. Contents'
      BY <1>1, <1>2, <2>1, ContentsStep
    <2>4. FieldRight' /\ HeadersWhole'
      BY <1>1, <1>2, <2>1, FieldStep
    <2>5. (~cut' => FlagsRight') /\ (authValid' => Granted')
      BY <1>1, <1>2, <2>1, FlagsKept
    <2> QED BY <2>2, <2>3, <2>4, <2>5 DEF RequestInvariant
  <1>8. CASE OnHeaderField
    <2>1. PICK n \in Sizes, over \in BOOLEAN :
             /\ Fragment("field", n, over)
             /\ field' = Delivered(n) /\ UNCHANGED <<url, body, flags>>
      BY <1>8 DEF OnHeaderField
    <2>2. TypeOK'
      BY <1>1, <1>2, <1>5, <2>1, CallbackType
    <2>3. Contents'
      BY <1>1, <1>2, <2>1, ContentsStep
    <2>4. FieldRight' /\ HeadersWhole'
      BY <1>1, <1>2, <2>1, FieldStep
    <2>5. (~cut' => FlagsRight') /\ (authValid' => Granted')
      BY <1>1, <1>2, <2>1, FlagsKept
    <2> QED BY <2>2, <2>3, <2>4, <2>5 DEF RequestInvariant
  <1>9. CASE OnHeaderValue
    <2>1. PICK n \in Sizes, over \in BOOLEAN :
             /\ Fragment("value", n, over)
             /\ SetFlags(Delivered(n)) /\ UNCHANGED <<url, body, field>>
      BY <1>9 DEF OnHeaderValue
    <2>2. TypeOK'
      <3>1. hasAuth' \in BOOLEAN
        BY <2>1 DEF SetFlags
      <3>2. authValid' \in BOOLEAN
        BY <1>3, <2>1 DEF SetFlags
      <3>3. acceptLz4' \in BOOLEAN /\ acceptDeflate' \in BOOLEAN
        BY <2>1 DEF SetFlags
      <3> QED BY <1>1, <2>1, <3>1, <3>2, <3>3, CallbackType
    <2>3. Contents'
      BY <1>1, <1>2, <2>1, ContentsStep
    <2>4. FieldRight' /\ HeadersWhole'
      BY <1>1, <1>2, <2>1, FieldStep
    <2>5. ~cut' => FlagsRight'
      BY <1>1, <1>2, <2>1, ValueFlags
    <2>6. authValid' => Granted'
      BY <1>1, <1>2, <2>1, ValueGrant
    <2> QED BY <2>2, <2>3, <2>4, <2>5, <2>6 DEF RequestInvariant
  <1>10. CASE OnBody
    <2>1. PICK n \in Sizes, over \in BOOLEAN :
             /\ Fragment("body", n, over)
             /\ body' = body \o Delivered(n) /\ UNCHANGED <<url, field, flags>>
      BY <1>10 DEF OnBody, Extended
    <2>2. TypeOK'
      BY <1>1, <1>2, <1>5, <2>1, CallbackType
    <2>3. Contents'
      BY <1>1, <1>2, <2>1, ContentsStep
    <2>4. FieldRight' /\ HeadersWhole'
      BY <1>1, <1>2, <2>1, FieldStep
    <2>5. (~cut' => FlagsRight') /\ (authValid' => Granted')
      BY <1>1, <1>2, <2>1, FlagsKept
    <2> QED BY <2>2, <2>3, <2>4, <2>5 DEF RequestInvariant
  <1>11. CASE OnMessageComplete
    <2>1. /\ req' = <<>> /\ at' = 1 /\ seen' = seen /\ UNCHANGED <<clientVars, cut>>
          /\ req # <<>> /\ at > Len(req)
      BY <1>11 DEF OnMessageComplete
    <2>2. total' \in Nat /\ drops' \in Nat
      BY <1>1, <1>11 DEF OnMessageComplete, TypeOK
    <2>3. seen' = 0 /\ Len(<<>>) = 0
      <3>1. req \in Requests /\ Len(req) \in Nat /\ at \in Nat
        BY <1>1, <2>1, Shape DEF TypeOK
      <3> QED BY <1>1, <2>1, <3>1 DEF TypeOK
    <2>4. UNCHANGED <<url, body, field, cut>> /\ UNCHANGED flags
      BY <2>1 DEF clientVars
    <2>5. cut' \in BOOLEAN
      BY <1>1, <2>4 DEF TypeOK
    <2>6. TypeOK'
      BY <1>1, <1>5, <2>1, <2>2, <2>3, <2>4, <2>5 DEF TypeOK
    <2> QED BY <2>1, <2>6 DEF RequestInvariant
  <1>12. CASE UNCHANGED vars
    <2>1. /\ UNCHANGED <<url, body, field, hasAuth, authValid, acceptLz4, acceptDeflate>>
          /\ UNCHANGED <<req, at, seen, cut, total, drops>>
      BY <1>12 DEF vars, clientVars, flags, parseVars
    <2> QED
      BY <2>1 DEF RequestInvariant, TypeOK, Contents, SoFar, FieldRight, HeadersWhole,
                  FlagsRight, Before, Headers, Granted
  <1> QED BY <1>6, <1>7, <1>8, <1>9, <1>10, <1>11, <1>12 DEF Next

\* The invariant holds throughout.
THEOREM RequestsUnderstood == Spec => []RequestInvariant
  BY RequestInit, RequestStep, PTL DEF Spec

\* The request state keeps its type, whatever is sent and however it is cut.
THEOREM RequestTypeCorrect == Spec => []TypeOK
  <1>1. RequestInvariant => TypeOK
    BY DEF RequestInvariant
  <1> QED BY <1>1, RequestsUnderstood, PTL

\* At the end of a message all of it has been delivered.
LEMMA AllDelivered ==
    ASSUME RequestInvariant, Complete
    PROVE  /\ req \in Requests /\ Len(req) \in Nat /\ at = Len(req) + 1
           /\ \A i \in 1 .. Len(req) : SoFar(i) = req[i].text
           /\ url = req[1].text /\ HasBody(req, body)
  <1>1. req \in Requests /\ at \in 1 .. Len(req) + 1 /\ at > Len(req) /\ Contents
    BY DEF RequestInvariant, TypeOK, Complete
  <1>2. Len(req) \in Nat /\ 1 \in 1 .. Len(req)
    BY <1>1, Shape
  <1>3. at = Len(req) + 1
    BY <1>1, <1>2
  <1>4. \A i \in 1 .. Len(req) : SoFar(i) = req[i].text
    BY <1>2, <1>3 DEF SoFar
  <1>5. url = req[1].text
    BY <1>1, <1>2, <1>4 DEF Contents
  <1>6. HasBody(req, body)
    BY <1>1, <1>4 DEF Contents, HasBody
  <1> QED BY <1>1, <1>2, <1>3, <1>4, <1>5, <1>6

\* The URL and the body arrive whole, however they are cut.
THEOREM RequestsReassembled == Spec => []Reassembled
  <1>1. RequestInvariant => Reassembled
    BY AllDelivered DEF Reassembled
  <1> QED BY <1>1, RequestsUnderstood, PTL

\* No request is granted access without a header that ends with the token.
THEOREM GrantsNeedToken == Spec => []GrantNeedsToken
  <1>1. RequestInvariant => GrantNeedsToken
    <2> SUFFICES ASSUME RequestInvariant, Complete, hasAuth, authValid
                 PROVE  \E i \in 1 .. Len(req) :
                           /\ req[i].kind = "field"
                           /\ EndsWith(req[i].text, Authorization)
                           /\ EndsWith(req[i + 1].text, Token)
      BY DEF GrantNeedsToken
    <2>1. Len(req) \in Nat /\ at = Len(req) + 1
      BY AllDelivered
    <2>2. Granted
      BY DEF RequestInvariant, Complete
    <2>3. \E i \in 1 .. at - 2 : /\ req[i].kind = "field"
                                 /\ EndsWith(req[i].text, Authorization)
                                 /\ EndsWith(req[i + 1].text, Token)
      BY <2>1, <2>2 DEF Granted
    <2>4. \A i \in 1 .. at - 2 : i \in 1 .. Len(req)
      BY <2>1
    <2> QED BY <2>3, <2>4
  <1> QED BY <1>1, RequestsUnderstood, PTL

\* What the flags say of a request that came unbroken is what it says itself.
LEMMA FlagsAtTheEnd ==
    ASSUME RequestInvariant, Complete, ~cut
    PROVE  /\ hasAuth /\ authValid <=> Authorised(req)
           /\ acceptLz4 <=> Asks(req, Lz4)
           /\ acceptDeflate <=> Asks(req, Deflate)
  <1>1. req \in Requests /\ Len(req) \in Nat /\ at = Len(req) + 1
    BY AllDelivered
  <1>2. FlagsRight
    BY DEF RequestInvariant, Complete
  <1>3. \A name : Before(name) = Headers(req, name)
    <2>1. \A i \in 1 .. Len(req) : req[i].kind = "field" => i + 1 < at
      BY <1>1, Shape
    <2> QED BY <2>1 DEF Before, Headers
  <1>4. hasAuth <=> Headers(req, Authorization) # {}
    BY <1>2, <1>3 DEF FlagsRight
  <1>5. authValid <=> Authorised(req)
    BY <1>2, <1>3 DEF FlagsRight, Authorised
  <1>6. Authorised(req) => Headers(req, Authorization) # {}
    BY DEF Authorised
  <1>7. acceptLz4 <=> Asks(req, Lz4)
    BY <1>2, <1>3 DEF FlagsRight, Asks
  <1>8. acceptDeflate <=> Asks(req, Deflate)
    BY <1>2, <1>3 DEF FlagsRight, Asks
  <1> QED BY <1>4, <1>5, <1>6, <1>7, <1>8

\* The encoding of a JSON reply is one that the request asks for.
LEMMA EncodingAsked ==
    ASSUME acceptLz4 <=> Asks(req, Lz4), acceptDeflate <=> Asks(req, Deflate)
    PROVE  Encoding \in Encodings(req)
  <1>1. CASE acceptLz4
    <2>1. Encoding = "lz4"
      BY <1>1 DEF Encoding
    <2> QED BY <1>1, <2>1 DEF Encodings
  <1>2. CASE ~acceptLz4 /\ acceptDeflate
    <2>1. Encoding = "deflate"
      BY <1>2 DEF Encoding
    <2> QED BY <1>2, <2>1 DEF Encodings
  <1>3. CASE ~acceptLz4 /\ ~acceptDeflate
    <2>1. Encoding = "none"
      BY <1>3 DEF Encoding
    <2> QED BY <2>1 DEF Encodings
  <1> QED BY <1>1, <1>2, <1>3

\* A request has one body at most.
LEMMA OneBody ==
    ASSUME NEW r \in Requests, NEW b, NEW c, HasBody(r, b), HasBody(r, c)
    PROVE  b = c
  <1>1. CASE \E i \in 1 .. Len(r) : r[i].kind = "body"
    <2>1. PICK i \in 1 .. Len(r) : r[i].kind = "body" /\ r[i].text = b
      BY <1>1 DEF HasBody
    <2>2. PICK j \in 1 .. Len(r) : r[j].kind = "body" /\ r[j].text = c
      BY <1>1 DEF HasBody
    <2>3. i = j
      BY <2>1, <2>2, RequestsAssumption DEF WellFormed
    <2> QED BY <2>1, <2>2, <2>3
  <1>2. CASE ~\E i \in 1 .. Len(r) : r[i].kind = "body"
    BY <1>2 DEF HasBody
  <1> QED BY <1>1, <1>2

\* The JSON reply is the one the whole body asks for.
LEMMA ReplyAsked ==
    ASSUME req \in Requests, HasBody(req, body),
           NEW a, a.page = JsonReply.page, a.body = JsonReply.body
    PROVE  RightReply(req, a)
  <1>1. CASE body \in Objects
    <2>1. a.page = "echo" /\ a.body = body
      BY <1>1, BodiesAssumption DEF JsonReply
    <2> QED BY <1>1, <2>1 DEF RightReply
  <1>2. CASE body \in OtherValues
    <2>1. body \notin Objects
      BY <1>2, BodiesAssumption
    <2>2. a.page = "success" /\ a.body = <<>>
      BY <1>2, <2>1 DEF JsonReply
    <2> QED BY <1>2, <2>2 DEF RightReply
  <1>3. CASE body \notin Objects \cup OtherValues
    <2>1. a.page = "invalid" /\ a.body = <<>>
      BY <1>3 DEF JsonReply
    <2>2. ASSUME NEW b \in Objects \cup OtherValues, HasBody(req, b) PROVE FALSE
      <3>1. b = body
        BY <2>2, OneBody
      <3> QED BY <1>3, <3>1
    <2> QED BY <2>1, <2>2 DEF RightReply
  <1> QED BY <1>1, <1>2, <1>3

\* Every request whose headers come unbroken gets the answer it asks for.
THEOREM AnswersAreRight == Spec => AnswerIsRight
  <1>1. RequestInvariant /\ [Next]_vars => [Complete /\ ~cut => RightAnswer(req, answer')]_vars
    <2> SUFFICES ASSUME RequestInvariant, Next, Complete, ~cut
                 PROVE  RightAnswer(req, answer')
      BY DEF vars
    <2>1. /\ req \in Requests /\ Len(req) \in Nat /\ at = Len(req) + 1
          /\ url = req[1].text /\ HasBody(req, body)
      BY AllDelivered
    <2>2. ASSUME NEW kind, NEW n, NEW over, Fragment(kind, n, over) PROVE FALSE
      BY <2>1, <2>2 DEF Fragment
    <2>3. OnMessageComplete
      BY <2>2 DEF Next, Complete, OnMessageBegin, OnUrl, OnHeaderField, OnHeaderValue, OnBody
    <2>4. PICK granted, compressed \in BOOLEAN : answer' = Respond(granted, compressed)
      BY <2>3 DEF OnMessageComplete
    <2>5. /\ hasAuth /\ authValid <=> Authorised(req)
          /\ Encoding \in Encodings(req)
      BY FlagsAtTheEnd, EncodingAsked
    <2>6. CASE ~granted
      BY <2>4, <2>6 DEF Respond, RightAnswer
    <2>7. CASE granted /\ ~(hasAuth /\ authValid)
      BY <2>4, <2>5, <2>7 DEF Respond, RightAnswer
    <2>8. CASE granted /\ hasAuth /\ authValid
      <3>1. Authorised(req)
        BY <2>5, <2>8
      <3>2. CASE url = MetricsUrl
        BY <2>1, <2>4, <2>8, <3>1, <3>2 DEF Respond, RightAnswer
      <3>3. CASE url = ConfigUrl
        BY <2>1, <2>4, <2>8, <3>1, <3>3, TextsAssumption DEF Respond, RightAnswer
      <3>4. CASE url \notin {MetricsUrl, ConfigUrl}
        <4>1. answer' = Process(compressed)
          BY <2>4, <2>8, <3>4 DEF Respond
        <4>2. "none" \in Encodings(req)
          BY DEF Encodings
        <4>3. /\ answer'.status = 200 /\ answer'.encoding \in Encodings(req)
              /\ answer'.page = JsonReply.page /\ answer'.body = JsonReply.body
              /\ answer'.payload = answer'.encoding
          <5>1. Encoding \in {"lz4", "deflate", "none"}
            BY DEF Encoding
          <5>2. /\ Labelled(CompressPayload(Encoding, compressed)) \in {Encoding, "none"}
                /\ CompressPayload(Encoding, compressed) = "NULL" =>
                      Labelled(CompressPayload(Encoding, compressed)) = "none"
                /\ CompressPayload(Encoding, compressed) # "NULL" =>
                      Labelled(CompressPayload(Encoding, compressed))
                        = CompressPayload(Encoding, compressed)
            BY <5>1 DEF Labelled, CompressPayload
          <5> QED BY <2>5, <4>1, <4>2, <5>2 DEF Process
        <4>4. RightReply(req, answer')
          BY <2>1, <4>3, ReplyAsked
        <4> QED BY <2>1, <3>1, <3>4, <4>3, <4>4 DEF RightAnswer
      <3> QED BY <3>2, <3>3, <3>4
    <2> QED BY <2>6, <2>7, <2>8
  <1> QED BY <1>1, RequestsUnderstood, PTL DEF Spec, AnswerIsRight

\* auth_check_token judges rightly wherever reads end, as long as none ends inside
\* a header: on_header_value judges what it is given, and is given the whole.
THEOREM UncutAuthorisation ==
    ASSUME Cuts \cap {"field", "value"} = {}
    PROVE  Spec => []AuthorisationIsRight
  <1>1. Init => ~cut
    BY DEF Init
  <1>2. ~cut /\ [Next]_vars => ~cut'
    <2> SUFFICES ASSUME ~cut, [Next]_vars PROVE ~cut'
      OBVIOUS
    <2>1. ASSUME NEW kind, NEW n, NEW over, Fragment(kind, n, over) PROVE ~cut'
      BY <2>1 DEF Fragment
    <2> QED BY <2>1 DEF Next, OnMessageBegin, OnUrl, OnHeaderField, OnHeaderValue,
                        OnBody, OnMessageComplete, vars, parseVars
  <1>3. RequestInvariant /\ ~cut => AuthorisationIsRight
    <2> SUFFICES ASSUME RequestInvariant, ~cut, Complete
                 PROVE  (hasAuth /\ authValid) <=> Authorised(req)
      BY DEF AuthorisationIsRight
    <2> QED BY FlagsAtTheEnd
  <1> QED BY <1>1, <1>2, <1>3, RequestsUnderstood, PTL DEF Spec
=============================================================================
