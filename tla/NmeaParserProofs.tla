--------------------------- MODULE NmeaParserProofs ---------------------------
(***************************************************************************)
(* What the checksum protects, for any sentences, any number of faults and *)
(* any size of term.  The inductive invariant says how the parser stands   *)
(* to the sentence on the line: in step with it as long as nothing was     *)
(* lost, and after one fault either off by a token that nothing to come    *)
(* can make up for, or past the only checksum it could have taken.         *)
(***************************************************************************)
EXTENDS NmeaParser, TLAPS

Kinds == {"RMC", "GGA", "GSA"}
Names == Items \cup {"fix", "-"}
TextToken == [kind : {"text"}, item : Kinds \cup Names \cup {"A", "V", "sum", "noise"}, of : Nat]

ParserTypes == term \in Seq(TextToken) /\ hits \in Nat

\* The text of term p has passed.
Came(p) == p < place \/ (p = place /\ said)

\* The texts and the number of commas that have passed, and the XOR of both.
Passed == {Head(TextAt(p)) : p \in {q \in 2 .. Last - 2 : TextAt(q) # << >> /\ Came(q)}}
Commas == IF place <= Last - 2 THEN place - 2 ELSE Last - 4
SoFar == Passed \cup (IF Commas % 2 = 1 THEN {Mark("comma")} ELSE {})

TypeOf(kind) == CASE kind = "RMC" -> GPS_SENTENCE_GPRMC
                  [] kind = "GGA" -> GPS_SENTENCE_GPGGA
                  [] OTHER -> GPS_SENTENCE_OTHER
NameKnown == /\ curSentenceType = TypeOf(Current.kind)
             /\ customCandidates = (Current.kind = "GSA")

\* The first n fields are staged, unless they were empty.
StagedTo(n) ==
  \A k \in 1 .. n :
    LET f == Fields(Current.kind)[k]
    IN  AsSent(f) # << >> =>
          /\ f \in Items => staged[f] = AsSent(f)
          /\ f = "fix" => sentenceHasFix = Current.fix

\* Nothing of the sentence was lost or altered.
InStep ==
  /\ place \in 2 .. Last - 1 =>
       /\ parity = SoFar
       /\ term = IF said THEN TextAt(place) ELSE << >>
       /\ curTermNumber = place - 2
       /\ isChecksumTerm <=> place = Last - 1
  /\ place \in 3 .. Last - 1 => NameKnown /\ StagedTo(place - 3)
  /\ place = Last => ~isChecksumTerm

\* The checksum of the sentence has come: all it has is staged.
Ready ==
  /\ NameKnown /\ StagedTo(Last - 4)
  /\ isChecksumTerm /\ term # << >> /\ Head(term) = Text("sum", Len(sent))
  /\ parity = Sum(Len(sent))

\* A token is once too often, or once too rarely, in parity, and will not come.
Off ==
  \E w \in Passed \cup {Mark("comma")} : w \in parity <=> w \notin SoFar

NoSum == \A k \in 1 .. Len(term) : term[k].item # "sum"

\* One token was lost or altered.
Harmed ==
  /\ place \in 2 .. Last - 2 => Off
  /\ place = Last - 1 => Off \/ ~isChecksumTerm \/ (said /\ NoSum)
  /\ place = Last => ~isChecksumTerm \/ NoSum \/ Ready

\* A checksum in the array is that of the sentence, and it has come.
OwnSum ==
  \A k \in 1 .. Len(term) :
    term[k].item = "sum" =>
      term[k] = Text("sum", Len(sent)) /\ (place = Last \/ (place = Last - 1 /\ said))

PInv ==
  place # 0 /\ ~headless =>
    /\ hits >= 1 => place >= 2
    /\ place >= 2 => OwnSum
    /\ hits = 0 => InStep
    /\ hits = 1 => Harmed

NInv == TypeOK /\ ParserTypes /\ (hits = 0 => ~headless) /\ PInv
-----------------------------------------------------------------------------
(* The sentence on the line *)

LEMMA FieldNames ==
  ASSUME NEW kind \in Kinds
  PROVE  /\ Fields(kind) \in Seq(Names) /\ Len(Fields(kind)) \in 2 .. 9
         /\ \A j, k \in 1 .. Len(Fields(kind)) :
              /\ j # k /\ Fields(kind)[j] = Fields(kind)[k] => Fields(kind)[j] = "-"
              /\ j < k => /\ Fields(kind)[k] = "lat" => Fields(kind)[j] # "ns"
                          /\ Fields(kind)[k] = "lng" => Fields(kind)[j] # "ew"
<1>1. CASE kind = "RMC"
  BY <1>1 DEF Fields, Names, Items
<1>2. CASE kind = "GGA"
  BY <1>2 DEF Fields, Names, Items
<1>3. CASE kind = "GSA"
  BY <1>3 DEF Fields, Names, Items
<1>. QED  BY <1>1, <1>2, <1>3 DEF Kinds

\* A field is empty or has one text, by which it can be told from the others.
LEMMA FieldText ==
  ASSUME NEW s, NEW n \in Nat, NEW f \in Names, Field(s, n, f) # << >>
  PROVE  /\ f # "-"
         /\ \E item \in {f, "A", "V"}, m \in {0, n} :
              /\ Field(s, n, f) = <<Text(item, m)>>
              /\ f = "fix" <=> item \in {"A", "V"}
  BY DEF Field, Names, Items, Position

LEMMA Shape ==
  ASSUME TypeOK, place # 0
  PROVE  /\ Len(sent) \in Nat \ {0} /\ Current \in Sentences /\ Current.kind \in Kinds
         /\ Current.fix \in BOOLEAN
         /\ Fields(Current.kind) \in Seq(Names)
         /\ Last = Len(Fields(Current.kind)) + 4 /\ Last \in 6 .. 13 /\ place \in 1 .. Last
<1>1. sent \in Seq(Sentences) /\ sent # << >> /\ place \in 0 .. Last
  BY DEF TypeOK
<1>2. Len(sent) \in Nat \ {0} /\ Current \in Sentences
  BY <1>1 DEF Current
<1>3. Current.kind \in Kinds /\ Current.fix \in BOOLEAN
  BY <1>2, NmeaAssumption DEF Kinds
<1>4. Fields(Current.kind) \in Seq(Names) /\ Len(Fields(Current.kind)) \in 2 .. 9
  BY <1>3, FieldNames
<1>5. Last = Len(Fields(Current.kind)) + 4
  BY DEF Last
<1>6. Last \in 6 .. 13
  <2>1. \A n \in 2 .. 9 : n + 4 \in 6 .. 13
    OBVIOUS
  <2>2. Len(Fields(Current.kind)) \in 2 .. 9
    BY <1>4
  <2>. QED  BY <1>5, <2>1, <2>2
<1>7. place \in 1 .. Last
  BY <1>1, <1>6
<1>. QED  BY <1>2, <1>3, <1>4, <1>5, <1>6, <1>7

LEMMA TermTexts ==
  ASSUME TypeOK, place # 0
  PROVE  /\ TextAt(1) = << >> /\ TextAt(Last) = << >>
         /\ TextAt(2) = <<Text(Current.kind, 0)>> /\ TextAt(Last - 1) = <<Text("sum", Len(sent))>>
         /\ \A k \in 1 .. Last - 4 : TextAt(k + 2) = AsSent(Fields(Current.kind)[k])
  BY Shape DEF TextAt

LEMMA TextsDiffer ==
  ASSUME TypeOK, place # 0
  PROVE  /\ \A p \in 2 .. Last - 2 : TextAt(p) # << >> =>
              \E item \in (Kinds \cup Names \cup {"A", "V"}) \ {"-"}, m \in Nat :
                TextAt(p) = <<Text(item, m)>>
         /\ \A p, q \in 2 .. Last - 2 :
              p # q /\ TextAt(p) # << >> /\ TextAt(q) # << >> => Head(TextAt(p)) # Head(TextAt(q))
<1>1. \A p \in 3 .. Last - 2 :
        /\ p - 2 \in 1 .. Len(Fields(Current.kind)) /\ Fields(Current.kind)[p - 2] \in Names
        /\ TextAt(p) = Field(Current, Len(sent), Fields(Current.kind)[p - 2])
  BY Shape DEF TextAt, AsSent
<1>2. \A p \in 3 .. Last - 2 : TextAt(p) # << >> =>
        /\ Fields(Current.kind)[p - 2] # "-"
        /\ \E item \in {Fields(Current.kind)[p - 2], "A", "V"}, m \in Nat :
             /\ TextAt(p) = <<Text(item, m)>>
             /\ Fields(Current.kind)[p - 2] = "fix" <=> item \in {"A", "V"}
  BY <1>1, FieldText, Shape
<1>3. TextAt(2) = <<Text(Current.kind, 0)>> /\ Current.kind \in Kinds
  BY TermTexts, Shape
<1>4. \A p \in 2 .. Last - 2 : p = 2 \/ p \in 3 .. Last - 2
  BY Shape
<1>5. \A item, jtem, m, n : Text(item, m) = Text(jtem, n) => item = jtem
  BY DEF Text
<1>6. \A p \in 3 .. Last - 2 : TextAt(p) # << >> => Head(TextAt(p)) # Head(TextAt(2))
  <2>1. Names \cap Kinds = {} /\ {"A", "V"} \cap Kinds = {}
    BY DEF Names, Items, Kinds
  <2>. QED  BY <1>1, <1>2, <1>3, <1>5, <2>1
<1>7. \A p, q \in 3 .. Last - 2 :
        p # q /\ TextAt(p) # << >> /\ TextAt(q) # << >> => Head(TextAt(p)) # Head(TextAt(q))
  <2>. SUFFICES ASSUME NEW p \in 3 .. Last - 2, NEW q \in 3 .. Last - 2, p # q,
                       TextAt(p) # << >>, TextAt(q) # << >>
                PROVE  Head(TextAt(p)) # Head(TextAt(q))
    OBVIOUS
  <2>1. Fields(Current.kind)[p - 2] # Fields(Current.kind)[q - 2]
    <3>1. p - 2 # q - 2 /\ p - 2 \in 1 .. Len(Fields(Current.kind)) /\ q - 2 \in 1 .. Len(Fields(Current.kind))
      BY <1>1, Shape
    <3>. QED  BY <1>2, <3>1, FieldNames, Shape
  <2>2. PICK item \in {Fields(Current.kind)[p - 2], "A", "V"}, m \in Nat :
             /\ TextAt(p) = <<Text(item, m)>>
             /\ Fields(Current.kind)[p - 2] = "fix" <=> item \in {"A", "V"}
    BY <1>2
  <2>3. PICK jtem \in {Fields(Current.kind)[q - 2], "A", "V"}, n \in Nat :
             /\ TextAt(q) = <<Text(jtem, n)>>
             /\ Fields(Current.kind)[q - 2] = "fix" <=> jtem \in {"A", "V"}
    BY <1>2
  <2>4. item # jtem
    BY <2>1, <2>2, <2>3
  <2>. QED  BY <2>2, <2>3, <2>4, <1>5
<1>8. ASSUME NEW p \in 2 .. Last - 2, TextAt(p) # << >>
      PROVE  \E item \in (Kinds \cup Names \cup {"A", "V"}) \ {"-"}, m \in Nat :
               TextAt(p) = <<Text(item, m)>>
  <2>1. CASE p = 2
    BY <1>3, <2>1 DEF Kinds
  <2>2. CASE p \in 3 .. Last - 2
    BY <1>1, <1>2, <1>8, <2>2
  <2>. QED  BY <1>4, <2>1, <2>2
<1>9. ASSUME NEW p \in 2 .. Last - 2, NEW q \in 2 .. Last - 2, p # q,
             TextAt(p) # << >>, TextAt(q) # << >>
      PROVE  Head(TextAt(p)) # Head(TextAt(q))
  BY <1>4, <1>6, <1>7, <1>9
<1>. QED  BY <1>8, <1>9
-----------------------------------------------------------------------------
(* A token leaves the line *)

LEMMA PassKeeps ==
  ASSUME TypeOK, Pass
  PROVE  /\ place # 0 /\ place \in 1 .. Last /\ sent' = sent /\ Current' = Current /\ Last' = Last
         /\ \A p \in Nat : TextAt(p)' = TextAt(p)
<1>1. place # 0 /\ sent' = sent
  BY DEF Pass
<1>2. Current' = Current /\ Last' = Last
  BY <1>1 DEF Current, Last
<1>3. \A p \in Nat : TextAt(p)' = TextAt(p)
  BY <1>1, <1>2 DEF TextAt, AsSent
<1>4. place \in 1 .. Last
  BY <1>1, Shape
<1>. QED  BY <1>1, <1>2, <1>3, <1>4

LEMMA TextPasses ==
  ASSUME Pass, TextNext
  PROVE  /\ ~said /\ TextAt(place) # << >> /\ NextToken = Head(TextAt(place))
         /\ place' = place /\ said'
BY DEF Pass, TextNext, NextToken

LEMMA EndPasses ==
  ASSUME Pass, ~TextNext
  PROVE  /\ said \/ TextAt(place) = << >>
         /\ NextToken = Mark(EndAt(place)) /\ ~said'
         /\ place = Last => place' = 0
         /\ place # Last => place' = place + 1
BY DEF Pass, TextNext, NextToken

LEMMA EndsOfTerms ==
  ASSUME TypeOK, place # 0
  PROVE  /\ place = 1 => EndAt(place) = "dollar"
         /\ place \in 2 .. Last - 3 => EndAt(place) = "comma"
         /\ place = Last - 2 => EndAt(place) = "star"
         /\ place \in {Last - 1, Last} => EndAt(place) = "newline"
  BY Shape DEF EndAt

\* What has passed grows by the text that passes, which has not passed before.
LEMMA PassedStep ==
  ASSUME TypeOK, Pass, place \in 2 .. Last - 2
  PROVE  /\ TextNext => /\ Passed' = Passed \cup {NextToken} /\ NextToken \notin Passed
                        /\ Commas' = Commas
         /\ ~TextNext => /\ Passed' = Passed
                         /\ Commas' = IF place = Last - 2 THEN Commas ELSE Commas + 1
         /\ Commas \in Nat
<1>1. /\ Last \in 6 .. 13 /\ Last' = Last /\ \A p \in Nat : TextAt(p)' = TextAt(p)
  BY PassKeeps, Shape
<1>2. CASE TextNext
  <2>1. /\ ~said /\ TextAt(place) # << >> /\ NextToken = Head(TextAt(place))
        /\ place' = place /\ said'
    BY <1>2, TextPasses
  <2>2. \A q \in 2 .. Last - 2 : Came(q)' <=> Came(q) \/ q = place
    BY <1>1, <2>1 DEF Came
  <2>3. Passed' = Passed \cup {NextToken}
    BY <1>1, <2>1, <2>2 DEF Passed
  <2>4. \A q \in 2 .. Last - 2 : Came(q) => q # place
    BY <2>1 DEF Came
  <2>5. NextToken \notin Passed
    BY <2>1, <2>4, TextsDiffer DEF Passed
  <2>. QED  BY <1>1, <1>2, <2>1, <2>3, <2>5 DEF Commas
<1>3. CASE ~TextNext
  <2>1. (said \/ TextAt(place) = << >>) /\ ~said' /\ place' = place + 1
    <3>1. place # Last
      BY <1>1
    <3>. QED  BY <1>3, <3>1, EndPasses
  <2>2. \A q \in 2 .. Last - 2 : TextAt(q) # << >> => (Came(q)' <=> Came(q))
    BY <1>1, <2>1 DEF Came
  <2>3. Passed' = Passed
    BY <1>1, <2>2 DEF Passed
  <2>. QED  BY <1>1, <1>3, <2>1, <2>3 DEF Commas
<1>. QED  BY <1>2, <1>3

LEMMA TextsAreTexts ==
  ASSUME TypeOK, place # 0
  PROVE  \A p \in 1 .. Last : TextAt(p) # << >> =>
           /\ Head(TextAt(p)) \in TextToken /\ Head(TextAt(p)).kind = "text"
           /\ Head(TextAt(p)) # Noise /\ TextAt(p) = <<Head(TextAt(p))>>
           /\ p \in 2 .. Last - 2 => Head(TextAt(p)).item # "sum"
           /\ p \in 2 .. Last - 1
<1>1. \A item \in (Kinds \cup Names \cup {"A", "V"}) \ {"-"}, m \in Nat :
        /\ Text(item, m) \in TextToken /\ Text(item, m).kind = "text" /\ Text(item, m) # Noise
        /\ Text(item, m).item # "sum"
  BY DEF Text, Noise, TextToken, Kinds, Names, Items
<1>2. \A m \in Nat : Text("sum", m) \in TextToken /\ Text("sum", m).kind = "text" /\ Text("sum", m) # Noise
  BY DEF Text, Noise, TextToken
<1>3. ASSUME NEW p \in 2 .. Last - 2, TextAt(p) # << >>
      PROVE  /\ Head(TextAt(p)) \in TextToken /\ Head(TextAt(p)).kind = "text"
             /\ Head(TextAt(p)) # Noise /\ TextAt(p) = <<Head(TextAt(p))>>
             /\ Head(TextAt(p)).item # "sum"
  <2>1. PICK item \in (Kinds \cup Names \cup {"A", "V"}) \ {"-"}, m \in Nat : TextAt(p) = <<Text(item, m)>>
    BY <1>3, TextsDiffer
  <2>2. Head(TextAt(p)) = Text(item, m)
    BY <2>1
  <2>. QED  BY <1>1, <2>1, <2>2
<1>4. /\ Last \in 6 .. 13 /\ TextAt(1) = << >> /\ TextAt(Last) = << >> /\ Len(sent) \in Nat
      /\ TextAt(Last - 1) = <<Text("sum", Len(sent))>>
  BY Shape, TermTexts
<1>5. Head(TextAt(Last - 1)) = Text("sum", Len(sent))
  BY <1>4
<1>6. \A p \in 1 .. Last : p = 1 \/ p \in 2 .. Last - 2 \/ p = Last - 1 \/ p = Last
  BY <1>4
<1>7. \A p \in 2 .. Last - 2 : p \in 2 .. Last - 1
  BY <1>4
<1>8. Last - 1 \in 2 .. Last - 1 /\ Last - 1 \notin 2 .. Last - 2
  BY <1>4
<1>. QED  BY <1>2, <1>3, <1>4, <1>5, <1>6, <1>7, <1>8

LEMMA NoCommaPassed ==
  ASSUME TypeOK, place # 0
  PROVE  Mark("comma") \notin Passed
<1>1. \A p \in 2 .. Last - 2 : TextAt(p) # << >> => Head(TextAt(p)).kind = "text"
  BY Shape, TextsAreTexts
<1>. QED  BY <1>1 DEF Passed, Mark

\* The XOR follows; the "*" does not go into it.
LEMMA SoFarStep ==
  ASSUME TypeOK, Pass, place \in 2 .. Last - 2
  PROVE  /\ TextNext => /\ SoFar' = XOR(SoFar, NextToken) /\ NextToken \notin SoFar
                        /\ NextToken \in Passed'
         /\ ~TextNext => /\ place < Last - 2 => NextToken = Mark("comma") /\ SoFar' = XOR(SoFar, Mark("comma"))
                         /\ place = Last - 2 => NextToken = Mark("star") /\ SoFar' = SoFar
         /\ Passed \subseteq Passed'
<1>1. place # 0 /\ Mark("comma") \notin Passed /\ Last \in 6 .. 13
  BY PassKeeps, NoCommaPassed, Shape
<1>2. CASE TextNext
  <2>1. Passed' = Passed \cup {NextToken} /\ NextToken \notin Passed /\ Commas' = Commas
    BY <1>2, PassedStep
  <2>2. NextToken # Mark("comma")
    <3>1. NextToken = Head(TextAt(place)) /\ TextAt(place) # << >> /\ place \in 1 .. Last
      BY <1>2, TextPasses, PassKeeps
    <3>2. NextToken.kind = "text"
      BY <1>1, <3>1, TextsAreTexts
    <3>. QED  BY <3>2 DEF Mark
  <2>. QED  BY <1>2, <2>1, <2>2 DEF SoFar, XOR
<1>3. CASE ~TextNext
  <2>1. Passed' = Passed /\ Commas' = (IF place = Last - 2 THEN Commas ELSE Commas + 1) /\ Commas \in Nat
    BY <1>3, PassedStep
  <2>2. NextToken = Mark(EndAt(place))
    BY <1>3, EndPasses
  <2>3. CASE place = Last - 2
    <3>1. EndAt(place) = "star" /\ ~(place < Last - 2)
      BY <1>1, <2>3, EndsOfTerms
    <3>. QED  BY <1>3, <2>1, <2>2, <2>3, <3>1 DEF SoFar
  <2>4. CASE place # Last - 2
    <3>1. place \in 2 .. Last - 3 /\ ~(place = Last - 2)
      BY <1>1, <2>4
    <3>2. Commas' % 2 = 1 <=> Commas % 2 # 1
      BY <2>1, <2>4
    <3>3. SoFar' = XOR(SoFar, Mark("comma"))
      BY <1>1, <2>1, <3>2 DEF SoFar, XOR
    <3>. QED  BY <1>1, <1>3, <2>1, <2>2, <3>1, <3>3, EndsOfTerms
  <2>. QED  BY <2>3, <2>4
<1>. QED  BY <1>2, <1>3

\* With all its fields passed, it is the checksum the receiver sends.
LEMMA SoFarIsSum ==
  ASSUME TypeOK, place \in {Last - 1, Last}, place # 0
  PROVE  SoFar = Sum(Len(sent))
<1> DEFINE fields == Fields(Current.kind)
           L == Len(fields)
<1>1. /\ Last = L + 4 /\ Last \in 6 .. 13 /\ fields \in Seq(Names) /\ place \in 1 .. Last
      /\ L \in 2 .. 9
  BY Shape, FieldNames
<1>2. /\ DOMAIN fields = 1 .. L /\ Current = sent[Len(sent)]
      /\ \A k \in 1 .. L : TextAt(k + 2) = Field(Current, Len(sent), fields[k])
  BY <1>1, TermTexts DEF Current, AsSent
<1>3. TextAt(2) = <<Text(Current.kind, 0)>>
  BY TermTexts
<1>4. \A p \in 2 .. Last - 2 : Came(p)
  BY <1>1 DEF Came
<1>5. Commas = L
  BY <1>1 DEF Commas
<1>6. \A p \in 2 .. Last - 2 : p = 2 \/ (p - 2 \in 1 .. L /\ p = (p - 2) + 2)
  BY <1>1
<1>7. \A p \in 2 .. Last - 2 : TextAt(p) # << >> => Range(TextAt(p)) = {Head(TextAt(p))}
  BY TextsDiffer, <1>1 DEF Range
<1>8. Passed = {Text(Current.kind, 0)} \cup (UNION {Range(Field(Current, Len(sent), fields[k])) : k \in 1 .. L})
  <2>1. ASSUME NEW w \in Passed
        PROVE  w \in {Text(Current.kind, 0)} \cup (UNION {Range(Field(Current, Len(sent), fields[k])) : k \in 1 .. L})
    <3>1. PICK p \in 2 .. Last - 2 : TextAt(p) # << >> /\ w = Head(TextAt(p))
      BY <2>1 DEF Passed
    <3>2. CASE p = 2
      BY <1>3, <3>1, <3>2
    <3>3. CASE p # 2
      <4>1. p - 2 \in 1 .. L /\ TextAt(p) = Field(Current, Len(sent), fields[p - 2])
        BY <1>2, <1>6, <3>3
      <4>2. w \in Range(TextAt(p))
        BY <1>7, <3>1
      <4>. QED  BY <4>1, <4>2
    <3>. QED  BY <3>2, <3>3
  <2>2. ASSUME NEW k \in 1 .. L, NEW w \in Range(Field(Current, Len(sent), fields[k]))
        PROVE  w \in Passed
    <3>1. k + 2 \in 2 .. Last - 2 /\ w \in Range(TextAt(k + 2))
      BY <1>1, <1>2, <2>2
    <3>2. TextAt(k + 2) # << >>
      BY <3>1 DEF Range
    <3>. QED  BY <1>4, <1>7, <3>1, <3>2 DEF Passed
  <2>3. Text(Current.kind, 0) \in Passed
    <3>1. 2 \in 2 .. Last - 2 /\ TextAt(2) # << >> /\ Head(TextAt(2)) = Text(Current.kind, 0)
      BY <1>1, <1>3
    <3>. QED  BY <1>4, <3>1 DEF Passed
  <2>. QED  BY <2>1, <2>2, <2>3
<1>9. SoFar = Passed \cup (IF L % 2 = 1 THEN {Mark("comma")} ELSE {})
  BY <1>5 DEF SoFar
<1>. QED  BY <1>2, <1>8, <1>9 DEF Sum
-----------------------------------------------------------------------------
(* Types *)

AnyToken == TextToken \cup {Mark(d) : d \in Delimiters}

LEMMA NextTokenType ==
  ASSUME TypeOK, place # 0
  PROVE  NextToken \in AnyToken
<1>1. CASE TextNext
  BY <1>1, Shape, TextsAreTexts DEF TextNext, NextToken, AnyToken
<1>2. CASE ~TextNext
  BY <1>2 DEF NextToken, EndAt, AnyToken, Delimiters
<1>. QED  BY <1>1, <1>2

\* What a token does to the parser, by its kind.
LEMMA EncodeCases ==
  ASSUME NEW c \in AnyToken, encode(c)
  PROVE  \/ EndOfTerm(c) /\ \E d \in {"comma", "star", "newline"} : c = Mark(d) /\ c.kind = d
         \/ BeginSentence(c) /\ c = Mark("dollar")
         \/ OrdinaryCharacter(c) /\ c \in TextToken /\ c.kind = "text"
<1>1. c \in TextToken => c.kind = "text"
  BY DEF TextToken
<1>2. \A d \in Delimiters : Mark(d).kind = d
  BY DEF Mark
<1>3. c \in TextToken \/ \E d \in Delimiters : c = Mark(d) /\ c.kind = d
  BY <1>2 DEF AnyToken
<1>. QED  BY <1>1, <1>3 DEF encode, EndOfTerm, BeginSentence, OrdinaryCharacter, Delimiters

LEMMA NoText == << >> \in Seq(TextToken) /\ Len(<< >>) < FieldSize /\ Len(<< >>) = 0
<1>1. FieldSize \in Nat \ {0, 1}
  BY NmeaAssumption
<1>. QED  BY <1>1

LEMMA EndOfTermTypes ==
  ASSUME TypeOK, NEW c, EndOfTerm(c)
  PROVE  /\ term' = << >> /\ curTermNumber' = (curTermNumber + 1) % 256
         /\ curSentenceType' \in 0 .. 2
         /\ isChecksumTerm' \in BOOLEAN /\ sentenceHasFix' \in BOOLEAN /\ customCandidates' \in BOOLEAN
         /\ DOMAIN staged' = Items /\ DOMAIN committed' = Items
<1>1. term' = << >> /\ curTermNumber' = (curTermNumber + 1) % 256 /\ isChecksumTerm' \in BOOLEAN
      /\ endOfTermHandler
  BY DEF EndOfTerm
<1>2. CASE EndOfChecksum
  BY <1>1, <1>2 DEF EndOfChecksum, TypeOK
<1>3. CASE EndOfName
  BY <1>1, <1>3 DEF EndOfName, TypeOK, GPS_SENTENCE_GPRMC, GPS_SENTENCE_GPGGA, GPS_SENTENCE_OTHER
<1>4. CASE EndOfField
  <2>1. /\ UNCHANGED <<curSentenceType, customCandidates, committed>> /\ DOMAIN staged' = Items
    BY <1>4 DEF EndOfField
  <2>2. sentenceHasFix' \in BOOLEAN
    <3>1. \A label : SaysFix(label) \in BOOLEAN
      BY DEF SaysFix
    <3>. QED  BY <1>4, <3>1 DEF EndOfField, TypeOK
  <2>. QED  BY <1>1, <2>1, <2>2 DEF TypeOK
<1>. QED  BY <1>1, <1>2, <1>3, <1>4 DEF endOfTermHandler

LEMMA EncodeTypes ==
  ASSUME TypeOK, ParserTypes, NEW c \in AnyToken, encode(c)
  PROVE  /\ term' \in Seq(TextToken) /\ Len(term') < FieldSize
         /\ curTermNumber' \in 0 .. 255 /\ curSentenceType' \in 0 .. 2
         /\ {isChecksumTerm', sentenceHasFix', customCandidates'} \subseteq BOOLEAN
         /\ DOMAIN staged' = Items /\ DOMAIN committed' = Items
<1>1. FieldSize \in Nat \ {0, 1} /\ curTermNumber \in Nat /\ term \in Seq(TextToken)
  BY NmeaAssumption DEF TypeOK, ParserTypes
<1>2. CASE EndOfTerm(c)
  <2>1. (curTermNumber + 1) % 256 \in 0 .. 255
    BY <1>1
  <2>. QED  BY <1>2, <2>1, NoText, EndOfTermTypes
<1>3. CASE BeginSentence(c)
  <2>1. 0 \in 0 .. 255 /\ GPS_SENTENCE_OTHER \in 0 .. 2
    BY DEF GPS_SENTENCE_OTHER
  <2>. QED  BY <1>3, <2>1, NoText DEF BeginSentence, TypeOK
<1>4. CASE OrdinaryCharacter(c) /\ c \in TextToken
  <2>1. Len(Append(term, c)) = Len(term) + 1 /\ Append(term, c) \in Seq(TextToken) /\ Len(term) \in Nat
    BY <1>1, <1>4
  <2>2. term' \in Seq(TextToken) /\ Len(term') < FieldSize
    BY <1>1, <1>4, <2>1 DEF OrdinaryCharacter, TypeOK
  <2>. QED  BY <1>4, <2>2 DEF OrdinaryCharacter, TypeOK
<1>. QED  BY <1>2, <1>3, <1>4, EncodeCases

LEMMA PassTypes ==
  ASSUME TypeOK, Pass
  PROVE  /\ sent' \in Seq(Sentences) /\ Len(sent') <= MaxSentences
         /\ IF sent' = << >> THEN place' = 0 ELSE place' \in 0 .. Last'
         /\ said' \in BOOLEAN
<1>1. place # 0 /\ sent' = sent /\ Last' = Last /\ place \in 1 .. Last /\ Last \in 6 .. 13 /\ sent # << >>
  BY PassKeeps, Shape DEF TypeOK
<1>2. place' \in 0 .. Last
  <2>1. CASE TextNext
    BY <1>1, <2>1, TextPasses
  <2>2. CASE ~TextNext
    BY <1>1, <2>2, EndPasses
  <2>. QED  BY <2>1, <2>2
<1>3. said' \in BOOLEAN
  BY DEF Pass, TextNext
<1>. QED  BY <1>1, <1>2, <1>3 DEF TypeOK

LEMMA InitNInv == Init => NInv
<1>. SUFFICES ASSUME Init PROVE NInv
  OBVIOUS
<1>1. /\ 0 \in 0 .. MaxFaults /\ 0 \in 0 .. 0 /\ GPS_SENTENCE_OTHER \in 0 .. 2 /\ 0 \in 0 .. 255
      /\ 0 <= MaxSentences
  BY NmeaAssumption DEF GPS_SENTENCE_OTHER
<1>2. sent = << >> /\ sent \in Seq(Sentences) /\ Len(sent) <= MaxSentences
  BY <1>1 DEF Init
<1>3. DOMAIN staged = Items /\ DOMAIN committed = Items
  BY DEF Init
<1>4. {said, headless, isChecksumTerm, sentenceHasFix, customCandidates} \subseteq BOOLEAN
  BY DEF Init
<1>5. TypeOK
  BY <1>1, <1>2, <1>3, <1>4, NoText DEF Init, TypeOK
<1>. QED  BY <1>5, NoText DEF Init, NInv, ParserTypes, PInv

LEMMA SendStarts ==
  ASSUME TypeOK, Send
  PROVE  /\ sent' \in Seq(Sentences) /\ Len(sent') = Len(sent) + 1 /\ sent' # << >>
         /\ Last' \in 6 .. 13
<1>1. PICK s \in Sentences : sent' = Append(sent, s)
  BY DEF Send
<1>2. sent' \in Seq(Sentences) /\ Len(sent') = Len(sent) + 1 /\ sent' # << >>
      /\ sent'[Len(sent')] = s
  BY <1>1 DEF TypeOK
<1>3. Current' = s
  BY <1>2 DEF Current
<1>4. s.kind \in Kinds
  BY NmeaAssumption DEF Kinds
<1>5. Len(Fields(s.kind)) \in 2 .. 9
  BY <1>4, FieldNames
<1>6. \A n \in 2 .. 9 : n + 4 \in 6 .. 13
  OBVIOUS
<1>7. Last' \in 6 .. 13
  BY <1>3, <1>5, <1>6 DEF Last
<1>. QED  BY <1>2, <1>7

LEMMA NextTypes ==
  ASSUME TypeOK, ParserTypes, [Next]_vars
  PROVE  TypeOK' /\ ParserTypes'
<1>1. CASE Send
  <2>2. sent' \in Seq(Sentences) /\ Len(sent') = Len(sent) + 1 /\ sent' # << >> /\ Last' \in 6 .. 13
    BY <1>1, SendStarts
  <2>4. Len(sent') <= MaxSentences /\ place' = 1 /\ 1 \in 0 .. Last'
    BY <1>1, <2>2, NmeaAssumption DEF Send, TypeOK
  <2>5. 0 \in 0 .. faults /\ 0 \in Nat
    BY DEF TypeOK
  <2>. QED  BY <1>1, <2>2, <2>4, <2>5 DEF Send, parserVars, TypeOK, ParserTypes
<1>2. CASE Arrive
  <2>1. encode(NextToken) /\ NextToken \in AnyToken /\ UNCHANGED <<faults, hits, headless>> /\ Pass
    BY <1>2, NextTokenType DEF Arrive, Pass
  <2>. QED  BY <2>1, EncodeTypes, PassTypes DEF TypeOK, ParserTypes
<1>3. ASSUME Fault
      PROVE  /\ faults' \in 0 .. MaxFaults /\ hits' \in 0 .. faults' /\ headless' \in BOOLEAN
             /\ hits' \in Nat
  <2>1. headless' \in BOOLEAN
    BY <1>3 DEF Fault, TypeOK
  <2>. QED  BY <1>3, <2>1, NmeaAssumption DEF Fault, TypeOK
<1>4. CASE Lose
  <2>1. Fault /\ Pass /\ UNCHANGED parserVars
    BY <1>4 DEF Lose, Fault
  <2>. QED  BY <1>3, <2>1, PassTypes DEF TypeOK, ParserTypes, parserVars
<1>5. CASE Alter
  <2>1. PICK c \in {Noise} \cup {Mark(d) : d \in Delimiters} : encode(c)
    BY <1>5 DEF Alter
  <2>2. c \in AnyToken
    BY DEF AnyToken, TextToken, Noise, Text
  <2>3. Fault /\ Pass
    BY <1>5 DEF Alter, Fault
  <2>. QED  BY <1>3, <2>1, <2>2, <2>3, EncodeTypes, PassTypes DEF TypeOK, ParserTypes
<1>6. CASE UNCHANGED vars
  BY <1>6 DEF vars, TypeOK, ParserTypes, Last, Current
<1>. QED  BY <1>1, <1>2, <1>4, <1>5, <1>6 DEF Next

\* Types of the parser: no token, wherever it comes, makes a term outgrow its
\* array or the count of terms its byte.
THEOREM TypeCorrect == Spec => []TypeOK
<1>1. Init => TypeOK /\ ParserTypes
  BY InitNInv DEF NInv
<1>2. (TypeOK /\ ParserTypes) /\ [Next]_vars => (TypeOK /\ ParserTypes)'
  BY NextTypes
<1>. QED  BY <1>1, <1>2, PTL DEF Spec
-----------------------------------------------------------------------------
(* In step *)

\* A line that is still busy after a token is no less far.
LEMMA GoesOn ==
  ASSUME TypeOK, Pass, place' # 0
  PROVE  /\ place >= 2 => place' >= 2
         /\ place = 1 => ~TextNext /\ NextToken = Mark("dollar") /\ place' = 2 /\ ~said'
         /\ place = Last - 1 => IF TextNext THEN place' = Last - 1 /\ said' ELSE place' = Last
         /\ place # Last
         /\ place \in 1 .. Last /\ Last \in 6 .. 13 /\ Last' = Last /\ sent' = sent
<1>1. place \in 1 .. Last /\ Last \in 6 .. 13 /\ place # 0 /\ Last' = Last /\ sent' = sent
  BY PassKeeps, Shape
<1>2. TextAt(1) = << >> /\ TextAt(Last) = << >>
  BY <1>1, TermTexts
<1>3. place = 1 => ~TextNext
  BY <1>2 DEF TextNext
<1>4. place # Last
  BY <1>1, <1>2, EndPasses DEF TextNext
<1>5. CASE TextNext
  BY <1>1, <1>3, <1>4, <1>5, TextPasses
<1>6. CASE ~TextNext
  <2>1. place' = place + 1 /\ ~said' /\ NextToken = Mark(EndAt(place))
    BY <1>4, <1>6, EndPasses
  <2>. QED  BY <1>1, <1>4, <1>6, <2>1, EndsOfTerms
<1>. QED  BY <1>5, <1>6

LEMMA OwnSumStep ==
  ASSUME TypeOK, ParserTypes, Pass, place' # 0, place >= 2, OwnSum, NEW c \in TextToken,
         (TextNext /\ c = NextToken) \/ c = Noise,
         term' \in {<< >>, term, Append(term, c)}
  PROVE  OwnSum'
<1>1. /\ Last' = Last /\ sent' = sent /\ Last \in 6 .. 13 /\ place \in 1 .. Last /\ place # Last
      /\ place = Last - 1 => IF TextNext THEN place' = Last - 1 /\ said' ELSE place' = Last
  BY GoesOn
<1>2. \A k \in 1 .. Len(term) : term[k].item = "sum" =>
        term[k] = Text("sum", Len(sent)) /\ place' = Last
  BY <1>1 DEF OwnSum, TextNext
<1>3. c.item = "sum" => c = Text("sum", Len(sent)) /\ place' = Last - 1 /\ said'
  <2>1. CASE c = Noise
    <3>1. c.item = "noise"
      BY <2>1 DEF Noise, Text
    <3>. QED  BY <3>1
  <2>2. CASE TextNext /\ c = NextToken
    <3>1. TextAt(place) # << >> /\ c = Head(TextAt(place)) /\ place # 0
      BY <2>2, TextPasses, PassKeeps
    <3>2. c.item = "sum" => place = Last - 1
      BY <1>1, <3>1, TextsAreTexts
    <3>3. place = Last - 1 => c = Text("sum", Len(sent))
      BY <3>1, TermTexts
    <3>. QED  BY <1>1, <2>2, <3>2, <3>3
  <2>. QED  BY <2>1, <2>2
<1>4. term \in Seq(TextToken)
  BY DEF ParserTypes
<1>5. \A k \in 1 .. Len(term') : \/ k \in 1 .. Len(term) /\ term'[k] = term[k]
                                 \/ term'[k] = c
  BY <1>4
<1>. QED  BY <1>1, <1>2, <1>3, <1>5 DEF OwnSum

\* The labels of the fields.
LEMMA Labels ==
  /\ \A k \in 1 .. 9 :
       /\ COMBINE(GPS_SENTENCE_GPRMC, k) \in DOMAIN StagedBy
       /\ StagedBy[COMBINE(GPS_SENTENCE_GPRMC, k)] = Fields("RMC")[k]
       /\ COMBINE(GPS_SENTENCE_GPRMC, k) > 32
       /\ COMBINE(GPS_SENTENCE_GPGGA, k) \in DOMAIN StagedBy
       /\ StagedBy[COMBINE(GPS_SENTENCE_GPGGA, k)] = Fields("GGA")[k]
       /\ ~(COMBINE(GPS_SENTENCE_GPGGA, k) > 32)
  /\ Len(Fields("RMC")) = 9 /\ Len(Fields("GGA")) = 9 /\ Len(Fields("GSA")) = 2
  /\ Fields("GSA")[1] = "-" /\ Fields("GSA")[2] = "pdop"
<1>1. \A k \in 1 .. 9 : COMBINE(GPS_SENTENCE_GPRMC, k) = k + 32 /\ COMBINE(GPS_SENTENCE_GPGGA, k) = k
  BY DEF COMBINE, GPS_SENTENCE_GPRMC, GPS_SENTENCE_GPGGA
<1>2. DOMAIN StagedBy = {k + 32 : k \in 1 .. 9} \cup (1 .. 9)
  BY <1>1 DEF StagedBy
<1>3. \A label \in DOMAIN StagedBy :
        StagedBy[label] = IF label > 32 THEN Fields("RMC")[label - 32] ELSE Fields("GGA")[label]
  BY DEF StagedBy
<1>4. \A k \in 1 .. 9 : /\ k + 32 \in DOMAIN StagedBy /\ k + 32 > 32 /\ (k + 32) - 32 = k
                        /\ k \in DOMAIN StagedBy /\ ~(k > 32)
  BY <1>2
<1>5. /\ Len(Fields("RMC")) = 9 /\ Len(Fields("GGA")) = 9 /\ Len(Fields("GSA")) = 2
      /\ Fields("GSA")[1] = "-" /\ Fields("GSA")[2] = "pdop"
  BY DEF Fields
<1>. QED  BY <1>1, <1>3, <1>4, <1>5

\* A field that ends where it should is staged where it should, and disturbs
\* none that was staged before it.
LEMMA FieldStaged ==
  ASSUME TypeOK, place # 0, NameKnown, NEW k \in 1 .. Last - 4, StagedTo(k - 1), curTermNumber = k,
         term = TextAt(k + 2), EndOfField, sent' = sent
  PROVE  NameKnown' /\ StagedTo(k)'
<1> DEFINE kind == Current.kind
           f == Fields(kind)[k]
           label == COMBINE(curSentenceType, curTermNumber)
           g == IF term # << >> /\ curSentenceType # GPS_SENTENCE_OTHER /\ label \in DOMAIN StagedBy
                THEN StagedBy[label] ELSE "-"
<1>1. /\ kind \in Kinds /\ Current.fix \in BOOLEAN /\ Len(sent) \in Nat /\ Current' = Current
      /\ Last - 4 = Len(Fields(kind)) /\ Fields(kind) \in Seq(Names) /\ Last \in 6 .. 13
  BY Shape DEF Current
<1>2. term = AsSent(f)
  BY TermTexts
<1>3. NameKnown'
  BY <1>1 DEF NameKnown, EndOfField
<1>4. CASE kind = "GSA"
  <2>1. curSentenceType = GPS_SENTENCE_OTHER /\ customCandidates
    BY <1>4 DEF NameKnown, TypeOf
  <2>2. k \in {1, 2} /\ Fields(kind)[1] = "-" /\ Fields(kind)[2] = "pdop"
    <3>1. Last - 4 = 2
      BY <1>1, <1>4, Labels
    <3>. QED  BY <1>4, <3>1, Labels
  <2>3. AsSent("-") = << >>
    BY DEF AsSent, Field
  <2>4. k = 2 => staged'["pdop"] = term
    BY <2>1 DEF EndOfField, Items
  <2>5. \A j \in 1 .. k : j \in {1, 2} /\ (j = 2 => k = 2)
    BY <2>2
  <2>6. \A x : AsSent(x)' = AsSent(x)
    BY <1>1 DEF AsSent
  <2>. QED  BY <1>1, <1>2, <1>3, <1>4, <2>2, <2>3, <2>4, <2>5, <2>6 DEF StagedTo
<1>5. CASE kind # "GSA"
  <2>1. /\ curSentenceType # GPS_SENTENCE_OTHER /\ ~customCandidates
        /\ label \in DOMAIN StagedBy /\ StagedBy[label] = f
        /\ label > 32 <=> kind = "RMC"
    <3>1. k \in 1 .. 9
      BY <1>1, <1>5, Labels DEF Kinds
    <3>2. CASE kind = "RMC"
      <4>1. curSentenceType = GPS_SENTENCE_GPRMC /\ ~customCandidates
        BY <3>2 DEF NameKnown, TypeOf
      <4>. QED  BY <3>1, <3>2, <4>1, Labels DEF GPS_SENTENCE_GPRMC, GPS_SENTENCE_OTHER
    <3>3. CASE kind = "GGA"
      <4>1. curSentenceType = GPS_SENTENCE_GPGGA /\ ~customCandidates
        BY <3>3 DEF NameKnown, TypeOf
      <4>. QED  BY <3>1, <3>3, <4>1, Labels DEF GPS_SENTENCE_GPGGA, GPS_SENTENCE_OTHER
    <3>. QED  BY <1>1, <1>5, <3>2, <3>3 DEF Kinds
  <2>2. g = IF term # << >> THEN f ELSE "-"
    BY <2>1
  <2>3. /\ sentenceHasFix' = IF g = "fix" THEN SaysFix(label) ELSE sentenceHasFix
        /\ staged' = [i \in Items |->
             CASE i = g \/ (i = "pdop" /\ customCandidates /\ curTermNumber = 2) -> term
               [] i = "ns" /\ g = "lat" -> << >>
               [] i = "ew" /\ g = "lng" -> << >>
               [] OTHER -> staged[i]]
    BY DEF EndOfField
  <2>. HIDE DEF g, label
  <2>4. \A i \in Items :
          /\ i = g => staged'[i] = term
          /\ i # g /\ ~(i = "ns" /\ g = "lat") /\ ~(i = "ew" /\ g = "lng") => staged'[i] = staged[i]
    BY <2>1, <2>3
  <2>5. term # << >> /\ f = "fix" => sentenceHasFix' = Current.fix
    <3>. SUFFICES ASSUME term # << >>, f = "fix" PROVE sentenceHasFix' = Current.fix
      OBVIOUS
    <3>1. Head(term) = Text(IF Current.fix THEN "A" ELSE "V", 0)
      BY <1>2 DEF AsSent, Field
    <3>2. Text("A", 0) # Text("V", 0)
      BY DEF Text
    <3>3. sentenceHasFix' = SaysFix(label)
      BY <2>2, <2>3
    <3>. QED  BY <1>1, <3>1, <3>2, <3>3 DEF SaysFix
  <2>6. \A x : AsSent(x)' = AsSent(x)
    BY <1>1 DEF AsSent
  <2>7. AsSent("-") = << >>
    BY DEF AsSent, Field
  <2>8. \A j \in 1 .. k - 1 :
          /\ j \in 1 .. Len(Fields(kind)) /\ k \in 1 .. Len(Fields(kind)) /\ j < k
          /\ Fields(kind)[j] = f => f = "-"
          /\ f = "lat" => Fields(kind)[j] # "ns"
          /\ f = "lng" => Fields(kind)[j] # "ew"
    <3>1. \A j \in 1 .. k - 1 : j \in 1 .. Len(Fields(kind)) /\ k \in 1 .. Len(Fields(kind)) /\ j < k
      BY <1>1
    <3>. QED  BY <1>1, <3>1, FieldNames
  <2>9. ASSUME NEW j \in 1 .. k - 1, AsSent(Fields(kind)[j]) # << >>
        PROVE  /\ Fields(kind)[j] \in Items => staged'[Fields(kind)[j]] = AsSent(Fields(kind)[j])
               /\ Fields(kind)[j] = "fix" => sentenceHasFix' = Current.fix
    <3>1. /\ Fields(kind)[j] \in Items => staged[Fields(kind)[j]] = AsSent(Fields(kind)[j])
          /\ Fields(kind)[j] = "fix" => sentenceHasFix = Current.fix
      BY <2>9 DEF StagedTo
    <3>2. Fields(kind)[j] # g /\ ~(Fields(kind)[j] = "ns" /\ g = "lat") /\ ~(Fields(kind)[j] = "ew" /\ g = "lng")
      BY <2>2, <2>7, <2>8, <2>9
    <3>. QED  BY <2>3, <2>4, <3>1, <3>2
  <2>10. ASSUME AsSent(f) # << >>
         PROVE  /\ f \in Items => staged'[f] = AsSent(f)
                /\ f = "fix" => sentenceHasFix' = Current.fix
    BY <1>2, <2>2, <2>4, <2>5, <2>10
  <2>11. \A j \in 1 .. k : j \in 1 .. k - 1 \/ j = k
    OBVIOUS
  <2>. QED  BY <1>1, <1>3, <2>6, <2>9, <2>10, <2>11 DEF StagedTo
<1>. QED  BY <1>4, <1>5

LEMMA BeginsInStep ==
  ASSUME TypeOK, Pass, place = 1, place' # 0, BeginSentence(Mark("dollar"))
  PROVE  InStep'
<1>1. place' = 2 /\ ~said' /\ Last \in 6 .. 13 /\ Last' = Last /\ sent' = sent
  BY GoesOn
<1>2. Passed' = {}
  <2>1. \A q \in 2 .. Last' - 2 : ~Came(q)'
    BY <1>1 DEF Came
  <2>. QED  BY <2>1 DEF Passed
<1>3. SoFar' = {}
  <2>1. Commas' = 0 /\ 0 % 2 # 1
    BY <1>1 DEF Commas
  <2>. QED  BY <1>2, <2>1 DEF SoFar
<1>4. parity' = {} /\ term' = << >> /\ curTermNumber' = 0 /\ ~isChecksumTerm'
  BY DEF BeginSentence
<1>5. place' # Last' - 1 /\ place' # Last' /\ place' - 2 = 0 /\ ~(place' \in 3 .. Last' - 1)
  BY <1>1
<1>. QED  BY <1>1, <1>3, <1>4, <1>5 DEF InStep

LEMMA TextInStep ==
  ASSUME TypeOK, Pass, place \in 2 .. Last - 1, TextNext, InStep, OrdinaryCharacter(NextToken)
  PROVE  InStep'
<1>1. /\ place # 0 /\ place' = place /\ said' /\ ~said /\ Last' = Last /\ Last \in 6 .. 13
      /\ sent' = sent /\ Current' = Current /\ TextAt(place) = <<NextToken>>
      /\ \A p \in Nat : TextAt(p)' = TextAt(p)
  <2>1. place # 0 /\ place \in 1 .. Last /\ Last \in 6 .. 13
    BY PassKeeps, Shape
  <2>2. NextToken = Head(TextAt(place)) /\ TextAt(place) # << >> /\ place' = place
    BY TextPasses
  <2>3. TextAt(place) = <<Head(TextAt(place))>>
    BY <2>1, <2>2, TextsAreTexts
  <2>. QED  BY <2>1, <2>2, <2>3, TextPasses, PassKeeps
<1>2. /\ parity = SoFar /\ term = << >> /\ curTermNumber = place - 2
      /\ isChecksumTerm <=> place = Last - 1
      /\ place \in 3 .. Last - 1 => NameKnown /\ StagedTo(place - 3)
  BY <1>1 DEF InStep
<1>3. term' = TextAt(place)'
  <2>1. Len(term) < FieldSize - 1
    BY <1>2, NmeaAssumption
  <2>2. term' = <<NextToken>>
    BY <1>2, <2>1 DEF OrdinaryCharacter
  <2>3. PICK p \in Nat : p = place
    BY <1>1
  <2>4. TextAt(p)' = <<NextToken>> /\ p = place'
    BY <1>1, <2>3
  <2>. QED  BY <1>1, <2>2, <2>3, <2>4 DEF TextAt
<1>4. parity' = SoFar'
  <2>1. CASE place \in 2 .. Last - 2
    <3>1. SoFar' = XOR(SoFar, NextToken)
      BY <2>1, SoFarStep
    <3>2. ~isChecksumTerm
      BY <1>1, <1>2, <2>1
    <3>3. parity' = XOR(parity, NextToken)
      BY <3>2 DEF OrdinaryCharacter
    <3>. QED  BY <1>2, <3>1, <3>3
  <2>2. CASE place = Last - 1
    <3>1. Passed' = Passed
      <4>1. \A q \in 2 .. Last - 2 : Came(q)' <=> Came(q)
        BY <1>1, <2>2 DEF Came
      <4>2. \A q \in 2 .. Last - 2 : TextAt(q)' = TextAt(q)
        BY <1>1
      <4>. QED  BY <1>1, <4>1, <4>2 DEF Passed
    <3>2. SoFar' = SoFar
      BY <1>1, <3>1 DEF SoFar, Commas
    <3>. QED  BY <1>2, <2>2, <3>2 DEF OrdinaryCharacter
  <2>. QED  BY <1>1, <2>1, <2>2
<1>5. UNCHANGED <<isChecksumTerm, curSentenceType, curTermNumber, sentenceHasFix, customCandidates, staged>>
  BY DEF OrdinaryCharacter
<1>6. place \in 3 .. Last - 1 => (NameKnown /\ StagedTo(place - 3))'
  <2>. SUFFICES ASSUME place \in 3 .. Last - 1 PROVE (NameKnown /\ StagedTo(place - 3))'
    OBVIOUS
  <2>1. NameKnown'
    BY <1>1, <1>2, <1>5 DEF NameKnown
  <2>2. \A x : AsSent(x)' = AsSent(x)
    BY <1>1 DEF AsSent
  <2>3. (place - 3)' = place - 3 /\ StagedTo(place - 3)
    BY <1>1, <1>2
  <2>4. StagedTo(place - 3)'
    BY <1>1, <1>5, <2>2, <2>3 DEF StagedTo
  <2>. QED  BY <2>1, <2>4
<1>7. place' # Last' /\ (isChecksumTerm' <=> place' = Last' - 1)
  BY <1>1, <1>2, <1>5
<1>. QED  BY <1>1, <1>2, <1>3, <1>4, <1>5, <1>6, <1>7 DEF InStep

LEMMA EndInStep ==
  ASSUME TypeOK, Pass, place \in 2 .. Last - 1, ~TextNext, InStep, EndOfTerm(NextToken)
  PROVE  InStep'
<1>1. /\ place # 0 /\ place' = place + 1 /\ ~said' /\ Last' = Last /\ Last \in 6 .. 13
      /\ sent' = sent /\ Current' = Current /\ NextToken = Mark(EndAt(place))
      /\ said \/ TextAt(place) = << >>
  <2>1. place # 0 /\ place \in 1 .. Last /\ Last \in 6 .. 13
    BY PassKeeps, Shape
  <2>2. place # Last
    BY <2>1
  <2>. QED  BY <2>1, <2>2, EndPasses, PassKeeps
<1>2. /\ parity = SoFar /\ term = TextAt(place) /\ curTermNumber = place - 2
      /\ isChecksumTerm <=> place = Last - 1
      /\ place \in 3 .. Last - 1 => NameKnown /\ StagedTo(place - 3)
  BY <1>1 DEF InStep
<1>3. /\ place \in 2 .. Last - 3 => NextToken = Mark("comma")
      /\ place = Last - 2 => NextToken = Mark("star")
      /\ place = Last - 1 => NextToken = Mark("newline")
  BY <1>1, EndsOfTerms
<1>4. Mark("comma").kind = "comma" /\ Mark("star").kind = "star" /\ Mark("newline").kind = "newline"
  BY DEF Mark
<1>5. /\ term' = << >> /\ (isChecksumTerm' <=> NextToken.kind = "star") /\ endOfTermHandler
      /\ curTermNumber' = (curTermNumber + 1) % 256
      /\ parity' = IF NextToken.kind = "comma" THEN XOR(parity, NextToken) ELSE parity
  BY DEF EndOfTerm
<1>6. CASE place = Last - 1
  <2>1. ~isChecksumTerm'
    BY <1>3, <1>4, <1>5, <1>6
  <2>2. place' = Last' /\ ~(place' \in 2 .. Last' - 1)
    BY <1>1, <1>6
  <2>. QED  BY <2>1, <2>2 DEF InStep
<1>7. CASE place \in 2 .. Last - 2
  <2>1. parity' = SoFar'
    <3>1. CASE place = Last - 2
      BY <1>2, <1>3, <1>4, <1>5, <1>7, <3>1, SoFarStep
    <3>2. CASE place \in 2 .. Last - 3
      <4>1. SoFar' = XOR(SoFar, Mark("comma"))
        BY <1>1, <1>7, <3>2, SoFarStep
      <4>. QED  BY <1>2, <1>3, <1>4, <1>5, <3>2, <4>1
    <3>. QED  BY <1>1, <1>7, <3>1, <3>2
  <2>2. curTermNumber' = place' - 2
    BY <1>1, <1>2, <1>5, <1>7
  <2>3. isChecksumTerm' <=> place' = Last' - 1
    <3>1. CASE place = Last - 2
      <4>1. isChecksumTerm' /\ place' = Last' - 1
        BY <1>1, <1>3, <1>4, <1>5, <3>1
      <4>. QED  BY <4>1
    <3>2. CASE place \in 2 .. Last - 3
      <4>1. ~isChecksumTerm' /\ place' # Last' - 1
        BY <1>1, <1>3, <1>4, <1>5, <3>2
      <4>. QED  BY <4>1
    <3>. QED  BY <1>1, <1>7, <3>1, <3>2
  <2>4. ~isChecksumTerm /\ ~EndOfChecksum
    BY <1>1, <1>2, <1>7 DEF EndOfChecksum
  <2>5. (NameKnown /\ StagedTo(place - 3))'
    <3>1. CASE place = 2
      <4>1. EndOfName
        <5>1. curTermNumber = 0
          BY <1>2, <3>1
        <5>. QED  BY <1>5, <2>4, <5>1 DEF endOfTermHandler, EndOfField
      <4>2. term = <<Text(Current.kind, 0)>> /\ Current.kind \in Kinds
        BY <1>1, <1>2, <3>1, TermTexts, Shape
      <4>3. NameKnown'
        <5>1. \A a, b : <<Text(a, 0)>> = <<Text(b, 0)>> <=> a = b
          BY DEF Text
        <5>. QED  BY <1>1, <4>1, <4>2, <5>1 DEF EndOfName, NameKnown, TypeOf, Kinds
      <4>4. (place - 3)' = 0 /\ \A j : j \notin 1 .. 0
        BY <1>1, <3>1
      <4>. QED  BY <4>3, <4>4 DEF StagedTo
    <3>2. CASE place \in 3 .. Last - 2
      <4>1. EndOfField /\ NameKnown /\ StagedTo(place - 3)
        <5>1. curTermNumber # 0
          BY <1>1, <1>2, <3>2
        <5>. QED  BY <1>1, <1>2, <1>5, <2>4, <3>2, <5>1 DEF endOfTermHandler, EndOfName
      <4>2. PICK k \in 1 .. Last - 4 : k = place - 2
        BY <1>1, <3>2
      <4>3. place - 3 = k - 1 /\ place = k + 2 /\ (place - 3)' = k
        BY <1>1, <4>2
      <4>4. NameKnown' /\ StagedTo(k)'
        BY <1>1, <1>2, <4>1, <4>2, <4>3, FieldStaged
      <4>. QED  BY <4>3, <4>4 DEF StagedTo
    <3>. QED  BY <1>1, <1>7, <3>1, <3>2
  <2>6. place' # Last'
    BY <1>1, <1>7
  <2>. QED  BY <1>1, <1>5, <2>1, <2>2, <2>3, <2>5, <2>6 DEF InStep
<1>. QED  BY <1>1, <1>6, <1>7
-----------------------------------------------------------------------------
(* One fault *)

\* A token that is to come changes the parity as it changes that of the
\* receiver, or in no token that has passed.
LEMMA OffStays ==
  ASSUME TypeOK, Pass, place \in 2 .. Last - 2, Off, encode(NextToken)
  PROVE  Off'
<1>1. place # 0 /\ Mark("comma") \notin Passed /\ Last \in 6 .. 13
  BY PassKeeps, NoCommaPassed, Shape
<1>2. PICK w \in Passed \cup {Mark("comma")} : w \in parity <=> w \notin SoFar
  BY DEF Off
<1>3. Passed \subseteq Passed'
  BY SoFarStep
<1>4. Mark("comma").kind = "comma" /\ Mark("star").kind = "star"
  BY DEF Mark
<1>5. CASE TextNext
  <2>1. SoFar' = XOR(SoFar, NextToken) /\ NextToken \notin SoFar
    BY <1>5, SoFarStep
  <2>2. NextToken.kind = "text"
    <3>1. NextToken = Head(TextAt(place)) /\ TextAt(place) # << >> /\ place \in 1 .. Last
      BY <1>5, TextPasses, PassKeeps
    <3>. QED  BY <1>1, <3>1, TextsAreTexts
  <2>3. w # NextToken
    <3>1. Passed \subseteq SoFar
      BY DEF SoFar
    <3>. QED  BY <1>4, <2>1, <2>2, <3>1
  <2>4. parity' = parity \/ parity' = XOR(parity, NextToken)
    BY <2>2 DEF encode, EndOfTerm, BeginSentence, OrdinaryCharacter
  <2>5. w \in parity' <=> w \notin SoFar'
    BY <1>2, <2>1, <2>3, <2>4 DEF XOR
  <2>. QED  BY <1>3, <2>5 DEF Off
<1>6. CASE ~TextNext
  <2>1. CASE place < Last - 2
    <3>1. NextToken = Mark("comma") /\ SoFar' = XOR(SoFar, Mark("comma"))
      BY <1>6, <2>1, SoFarStep
    <3>2. parity' = XOR(parity, Mark("comma"))
      BY <1>4, <3>1 DEF encode, EndOfTerm, BeginSentence, OrdinaryCharacter
    <3>3. w \in parity' <=> w \notin SoFar'
      BY <1>2, <3>1, <3>2 DEF XOR
    <3>. QED  BY <1>3, <3>3 DEF Off
  <2>2. CASE place = Last - 2
    <3>1. NextToken = Mark("star") /\ SoFar' = SoFar
      BY <1>6, <2>2, SoFarStep
    <3>2. parity' = parity
      BY <1>4, <3>1 DEF encode, EndOfTerm, BeginSentence, OrdinaryCharacter
    <3>. QED  BY <1>2, <1>3, <3>1, <3>2 DEF Off
  <2>. QED  BY <1>1, <2>1, <2>2
<1>. QED  BY <1>5, <1>6

\* Behind the "*" nothing goes into the checksum of the receiver.
LEMMA BehindStar ==
  ASSUME TypeOK, Pass, place = Last - 1, place' # 0
  PROVE  SoFar' = SoFar /\ Passed' = Passed
<1>1. /\ place' \in {Last - 1, Last} /\ Last' = Last /\ Last \in 6 .. 13 /\ place # 0
      /\ \A q \in 2 .. Last - 2 : TextAt(q)' = TextAt(q)
  BY GoesOn, PassKeeps
<1>2. \A q \in 2 .. Last - 2 : Came(q)' <=> Came(q)
  BY <1>1 DEF Came
<1>3. Passed' = Passed
  BY <1>1, <1>2 DEF Passed
<1>4. Commas' = Commas
  <2>1. ~(place <= Last - 2) /\ ~(place' <= Last' - 2) /\ Last' - 4 = Last - 4
    BY <1>1
  <2>. QED  BY <2>1 DEF Commas
<1>. QED  BY <1>3, <1>4 DEF SoFar

LEMMA HarmedStays ==
  ASSUME TypeOK, Pass, place >= 2, place' # 0, Harmed, encode(NextToken)
  PROVE  Harmed'
<1>1. /\ place \in 2 .. Last - 1 /\ place # 0 /\ Last \in 6 .. 13 /\ Last' = Last /\ place' >= 2
      /\ place = Last - 1 => IF TextNext THEN place' = Last - 1 /\ said' ELSE place' = Last
  <2>1. place \in 1 .. Last /\ place # Last /\ Last \in 6 .. 13
    BY GoesOn
  <2>. QED  BY <2>1, GoesOn, PassKeeps
<1>2. CASE place \in 2 .. Last - 2
  <2>1. Off'
    BY <1>1, <1>2, OffStays DEF Harmed
  <2>2. place' # Last'
    <3>1. place' = place \/ place' = place + 1
      BY <1>1, <1>2, TextPasses, EndPasses
    <3>. QED  BY <1>1, <1>2, <3>1
  <2>. QED  BY <2>1, <2>2 DEF Harmed
<1>3. CASE place = Last - 1 /\ TextNext
  <2>1. /\ NextToken = Text("sum", Len(sent)) /\ NextToken.kind = "text" /\ ~said
        /\ place' = Last' - 1 /\ place' # Last' /\ ~(place' \in 2 .. Last' - 2)
    <3>1. NextToken = Head(TextAt(place)) /\ ~said
      BY <1>3, TextPasses
    <3>2. NextToken = Text("sum", Len(sent))
      BY <1>1, <1>3, <3>1, TermTexts
    <3>. QED  BY <1>1, <1>3, <3>1, <3>2 DEF Text
  <2>2. OrdinaryCharacter(NextToken)
    BY <2>1 DEF encode, EndOfTerm, BeginSentence
  <2>3. CASE ~isChecksumTerm
    <3>1. ~isChecksumTerm'
      BY <2>2, <2>3 DEF OrdinaryCharacter
    <3>. QED  BY <2>1, <3>1 DEF Harmed
  <2>4. CASE Off
    <3>1. PICK w \in Passed \cup {Mark("comma")} : w \in parity <=> w \notin SoFar
      BY <2>4 DEF Off
    <3>2. w # NextToken
      <4>1. w.item # "sum"
        <5>1. \A p \in 2 .. Last - 2 : TextAt(p) # << >> => Head(TextAt(p)).item # "sum"
          BY <1>1, TextsAreTexts
        <5>. QED  BY <5>1 DEF Passed, Mark
      <4>. QED  BY <2>1, <4>1 DEF Text
    <3>3. parity' = parity \/ parity' = XOR(parity, NextToken)
      BY <2>2 DEF OrdinaryCharacter
    <3>4. w \in parity' <=> w \notin SoFar'
      BY <1>3, <3>1, <3>2, <3>3, BehindStar DEF XOR
    <3>5. Off'
      BY <1>3, <3>4, BehindStar DEF Off
    <3>. QED  BY <2>1, <3>5 DEF Harmed
  <2>. QED  BY <1>3, <2>1, <2>3, <2>4 DEF Harmed
<1>4. CASE place = Last - 1 /\ ~TextNext
  <2>1. /\ NextToken = Mark("newline") /\ place' = Last' /\ place' # Last' - 1
        /\ ~(place' \in 2 .. Last' - 2)
    BY <1>1, <1>4, EndPasses, EndsOfTerms
  <2>2. EndOfTerm(NextToken) /\ NextToken.kind # "star"
    <3>1. NextToken.kind = "newline"
      BY <2>1 DEF Mark
    <3>. QED  BY <3>1 DEF encode, BeginSentence, OrdinaryCharacter
  <2>3. ~isChecksumTerm'
    BY <2>2 DEF EndOfTerm
  <2>. QED  BY <2>1, <2>3 DEF Harmed
<1>. QED  BY <1>1, <1>2, <1>3, <1>4

\* When the checksum of a sentence in step has come, all it has is staged.
LEMMA InStepReady ==
  ASSUME TypeOK, place = Last - 1, place # 0, InStep, ~TextNext
  PROVE  Ready /\ said /\ isChecksumTerm /\ parity = SoFar
<1>1. Last \in 6 .. 13
  BY Shape
<1>2. TextAt(place) = <<Text("sum", Len(sent))>> /\ TextAt(place) # << >>
  BY TermTexts
<1>3. said
  BY <1>2 DEF TextNext
<1>4. place \in 2 .. Last - 1 /\ place \in 3 .. Last - 1 /\ place - 3 = Last - 4
  BY <1>1
<1>5. /\ parity = SoFar /\ term = TextAt(place) /\ isChecksumTerm
      /\ NameKnown /\ StagedTo(place - 3)
  BY <1>3, <1>4 DEF InStep
<1>6. StagedTo(Last - 4)
  BY <1>4, <1>5 DEF StagedTo
<1>7. SoFar = Sum(Len(sent))
  BY SoFarIsSum
<1>8. term # << >> /\ Head(term) = Text("sum", Len(sent))
  BY <1>2, <1>5
<1>. QED  BY <1>3, <1>5, <1>6, <1>7, <1>8 DEF Ready

LEMMA LoseHarms ==
  ASSUME TypeOK, place >= 2, place' # 0, InStep, Lose
  PROVE  Harmed'
<1>1. Pass /\ UNCHANGED parserVars
  BY DEF Lose, Fault
<1>2. /\ place \in 2 .. Last - 1 /\ place # 0 /\ Last \in 6 .. 13 /\ Last' = Last /\ place' >= 2
      /\ place = Last - 1 => IF TextNext THEN place' = Last - 1 /\ said' ELSE place' = Last
  <2>1. place \in 1 .. Last /\ place # Last /\ Last \in 6 .. 13
    BY <1>1, GoesOn
  <2>. QED  BY <1>1, <2>1, GoesOn, PassKeeps
<1>3. parity' = parity /\ term' = term /\ (isChecksumTerm' <=> isChecksumTerm)
  BY <1>1 DEF parserVars
<1>4. parity = SoFar /\ (isChecksumTerm <=> place = Last - 1)
  BY <1>2 DEF InStep
<1>5. CASE place \in 2 .. Last - 2 /\ TextNext
  <2>1. SoFar' = XOR(SoFar, NextToken) /\ NextToken \notin SoFar /\ NextToken \in Passed'
    BY <1>1, <1>5, SoFarStep
  <2>2. NextToken \in SoFar'
    BY <2>1 DEF XOR
  <2>3. Off'
    BY <1>3, <1>4, <2>1, <2>2 DEF Off
  <2>4. place' = place
    BY <1>1, <1>5, TextPasses
  <2>. QED  BY <1>2, <1>5, <2>3, <2>4 DEF Harmed
<1>6. CASE place \in 2 .. Last - 3 /\ ~TextNext
  <2>1. place \in 2 .. Last - 2 /\ place < Last - 2
    BY <1>2, <1>6
  <2>2. SoFar' = XOR(SoFar, Mark("comma"))
    BY <1>1, <1>6, <2>1, SoFarStep
  <2>3. Mark("comma") \in parity' <=> Mark("comma") \notin SoFar'
    BY <1>3, <1>4, <2>2 DEF XOR
  <2>4. Off'
    BY <2>3 DEF Off
  <2>5. place' = place + 1
    BY <1>1, <1>2, <1>6, EndPasses
  <2>. QED  BY <1>2, <1>6, <2>4, <2>5 DEF Harmed
<1>7. CASE place = Last - 2 /\ ~TextNext
  <2>1. place' = Last' - 1 /\ ~isChecksumTerm'
    BY <1>1, <1>2, <1>3, <1>4, <1>7, EndPasses
  <2>. QED  BY <1>2, <2>1 DEF Harmed
<1>8. CASE place = Last - 1 /\ TextNext
  <2>1. ~said /\ place' = Last' - 1 /\ said'
    BY <1>1, <1>2, <1>8, TextPasses
  <2>2. Len(term') = 0
    BY <1>2, <1>3, <2>1 DEF InStep
  <2>3. NoSum'
    BY <2>2 DEF NoSum
  <2>. QED  BY <1>2, <2>1, <2>3 DEF Harmed
<1>9. CASE place = Last - 1 /\ ~TextNext
  <2>1. Ready
    BY <1>2, <1>9, InStepReady
  <2>2. Ready'
    <3>1. sent' = sent /\ Last' = Last /\ Current' = Current
      BY <1>1, PassKeeps
    <3>2. UNCHANGED <<curSentenceType, customCandidates, sentenceHasFix, staged>>
      BY <1>1 DEF parserVars
    <3>3. NameKnown'
      BY <2>1, <3>1, <3>2 DEF Ready, NameKnown
    <3>4. StagedTo(Last - 4)'
      BY <2>1, <3>1, <3>2 DEF Ready, StagedTo, AsSent
    <3>5. Sum(Len(sent))' = Sum(Len(sent))
      BY <3>1 DEF Sum
    <3>. QED  BY <1>3, <2>1, <3>1, <3>3, <3>4, <3>5 DEF Ready
  <2>3. place' = Last'
    BY <1>2, <1>9
  <2>. QED  BY <1>2, <2>2, <2>3 DEF Harmed
<1>10. place \in 2 .. Last - 3 \/ place = Last - 2 \/ place = Last - 1
  BY <1>2
<1>11. place \in 2 .. Last - 3 \/ place = Last - 2 => place \in 2 .. Last - 2
  BY <1>2
<1>. QED  BY <1>5, <1>6, <1>7, <1>8, <1>9, <1>10, <1>11

\* A text that has passed is still in the XOR of the receiver, the name at least.
LEMMA NamePassed ==
  ASSUME TypeOK, Pass, place \in 2 .. Last - 2, ~TextNext
  PROVE  \E w \in Passed' : w \in SoFar'
<1>1. place # 0 /\ Last \in 6 .. 13 /\ (said \/ TextAt(place) = << >>)
  BY PassKeeps, Shape, EndPasses
<1>2. TextAt(2) # << >> /\ 2 \in 2 .. Last - 2
  BY <1>1, TermTexts
<1>3. Came(2)
  BY <1>1, <1>2 DEF Came
<1>4. Head(TextAt(2)) \in Passed
  BY <1>2, <1>3 DEF Passed
<1>5. Passed' \subseteq SoFar'
  BY DEF SoFar
<1>. QED  BY <1>4, <1>5, SoFarStep

LEMMA AlterHarms ==
  ASSUME TypeOK, place >= 2, place' # 0, InStep, Pass,
         NEW c \in {Noise} \cup {Mark(d) : d \in Delimiters}, c # NextToken, encode(c)
  PROVE  Harmed'
<1>1. /\ place \in 2 .. Last - 1 /\ place # 0 /\ Last \in 6 .. 13 /\ Last' = Last /\ place' >= 2
      /\ place = Last - 1 => IF TextNext THEN place' = Last - 1 /\ said' ELSE place' = Last
  <2>1. place \in 1 .. Last /\ place # Last /\ Last \in 6 .. 13
    BY GoesOn
  <2>. QED  BY <2>1, GoesOn, PassKeeps
<1>2. parity = SoFar /\ (isChecksumTerm <=> place = Last - 1)
  BY <1>1 DEF InStep
<1>3. \/ /\ EndOfTerm(c) /\ c.kind \in {"comma", "star", "newline"}
         /\ c \in {Mark("comma"), Mark("star"), Mark("newline")}
      \/ BeginSentence(c) /\ c = Mark("dollar")
      \/ OrdinaryCharacter(c) /\ c = Noise
  <2>1. c \in AnyToken
    BY DEF AnyToken, TextToken, Noise, Text
  <2>2. Noise.kind = "text" /\ \A d \in Delimiters : Mark(d).kind = d
    BY DEF Noise, Text, Mark
  <2>. QED  BY <2>1, <2>2, EncodeCases DEF Delimiters
<1>4. \A w : w # c /\ w \notin parity => w \notin parity'
  BY <1>3 DEF EndOfTerm, BeginSentence, OrdinaryCharacter, XOR
<1>5. CASE place \in 2 .. Last - 2 /\ TextNext
  <2>1. SoFar' = XOR(SoFar, NextToken) /\ NextToken \notin SoFar /\ NextToken \in Passed'
    BY <1>5, SoFarStep
  <2>2. NextToken \in SoFar' /\ NextToken \notin parity'
    BY <1>2, <1>4, <2>1 DEF XOR
  <2>3. Off'
    BY <2>1, <2>2 DEF Off
  <2>4. place' = place
    BY <1>5, TextPasses
  <2>. QED  BY <1>1, <1>5, <2>3, <2>4 DEF Harmed
<1>6. CASE place \in 2 .. Last - 3 /\ ~TextNext
  <2>1. place \in 2 .. Last - 2 /\ place < Last - 2
    BY <1>1, <1>6
  <2>2. NextToken = Mark("comma") /\ SoFar' = XOR(SoFar, Mark("comma"))
    BY <1>6, <2>1, SoFarStep
  <2>3. Off'
    <3>1. CASE c = Mark("dollar")
      <4>1. parity' = {}
        <5>1. Mark("dollar").kind = "dollar"
          BY DEF Mark
        <5>. QED  BY <3>1, <5>1 DEF encode, EndOfTerm, BeginSentence, OrdinaryCharacter
      <4>. QED  BY <1>6, <2>1, <4>1, NamePassed DEF Off
    <3>2. CASE c # Mark("dollar")
      <4>1. Mark("comma") # c
        BY <2>2
      <4>2. Mark("comma") \in parity' <=> Mark("comma") \in parity
        <5>1. ~BeginSentence(c)
          BY <1>3, <3>2 DEF BeginSentence, Mark, Noise, Text, EndOfTerm, OrdinaryCharacter
        <5>2. EndOfTerm(c) \/ OrdinaryCharacter(c)
          BY <1>3, <5>1
        <5>. QED  BY <4>1, <5>2 DEF EndOfTerm, OrdinaryCharacter, XOR
      <4>3. Mark("comma") \in parity' <=> Mark("comma") \notin SoFar'
        BY <1>2, <2>2, <4>2 DEF XOR
      <4>. QED  BY <4>3 DEF Off
    <3>. QED  BY <3>1, <3>2
  <2>4. place' = place + 1
    BY <1>1, <1>6, EndPasses
  <2>. QED  BY <1>1, <1>6, <2>3, <2>4 DEF Harmed
<1>7. CASE place = Last - 2 /\ ~TextNext
  <2>1. place' = Last' - 1
    BY <1>1, <1>7, EndPasses
  <2>2. NextToken = Mark("star")
    BY <1>1, <1>7, EndPasses, EndsOfTerms
  <2>3. ~isChecksumTerm'
    <3>1. ~isChecksumTerm
      BY <1>1, <1>2, <1>7
    <3>2. EndOfTerm(c) => c.kind # "star"
      <4>1. Mark("comma").kind = "comma" /\ Mark("newline").kind = "newline"
        BY DEF Mark
      <4>2. EndOfTerm(c) => c \in {Mark("comma"), Mark("newline")}
        BY <1>3, <2>2 DEF EndOfTerm, Mark, Noise, Text
      <4>. QED  BY <4>1, <4>2
    <3>. QED  BY <1>3, <3>1, <3>2 DEF EndOfTerm, BeginSentence, OrdinaryCharacter
  <2>. QED  BY <1>1, <2>1, <2>3 DEF Harmed
<1>8. CASE place = Last - 1 /\ TextNext
  <2>1. ~said /\ place' = Last' - 1 /\ said'
    BY <1>1, <1>8, TextPasses
  <2>2. term = << >>
    BY <1>1, <2>1 DEF InStep
  <2>3. NoSum'
    <3>1. CASE OrdinaryCharacter(c) /\ c = Noise
      <4>1. term' = << >> \/ term' = <<Noise>>
        BY <2>2, <3>1 DEF OrdinaryCharacter
      <4>. QED  BY <4>1 DEF NoSum, Noise, Text
    <3>2. CASE EndOfTerm(c) \/ BeginSentence(c)
      <4>1. Len(term') = 0
        BY <3>2 DEF EndOfTerm, BeginSentence
      <4>. QED  BY <4>1 DEF NoSum
    <3>. QED  BY <1>3, <3>1, <3>2
  <2>. QED  BY <1>1, <2>1, <2>3 DEF Harmed
<1>9. CASE place = Last - 1 /\ ~TextNext
  <2>1. Ready
    BY <1>1, <1>9, InStepReady
  <2>2. place' = Last'
    BY <1>1, <1>9
  <2>3. CASE OrdinaryCharacter(c) /\ c = Noise
    <3>1. sent' = sent /\ Last' = Last /\ Current' = Current
      BY PassKeeps
    <3>2. UNCHANGED <<curSentenceType, customCandidates, sentenceHasFix, staged>>
      BY <2>3 DEF OrdinaryCharacter
    <3>3. NameKnown'
      BY <2>1, <3>1, <3>2 DEF Ready, NameKnown
    <3>4. StagedTo(Last - 4)'
      BY <2>1, <3>1, <3>2 DEF Ready, StagedTo, AsSent
    <3>5. Sum(Len(sent))' = Sum(Len(sent))
      BY <3>1 DEF Sum
    <3>6. isChecksumTerm' /\ parity' = parity
      BY <2>1, <2>3 DEF Ready, OrdinaryCharacter
    <3>7. term' # << >> /\ Head(term') = Head(term)
      <4>1. term' = term \/ term' = Append(term, c)
        BY <2>3 DEF OrdinaryCharacter
      <4>2. InStep /\ said /\ term = <<Text("sum", Len(sent))>>
        BY <1>1, <1>9, InStepReady, TermTexts DEF InStep
      <4>. QED  BY <4>1, <4>2
    <3>8. Ready'
      BY <2>1, <3>1, <3>3, <3>4, <3>5, <3>6, <3>7 DEF Ready
    <3>. QED  BY <1>1, <2>2, <3>8 DEF Harmed
  <2>4. CASE EndOfTerm(c) \/ BeginSentence(c)
    <3>1. Len(term') = 0
      BY <2>4 DEF EndOfTerm, BeginSentence
    <3>2. NoSum'
      BY <3>1 DEF NoSum
    <3>. QED  BY <1>1, <2>2, <3>2 DEF Harmed
  <2>. QED  BY <1>3, <2>3, <2>4
<1>10. place \in 2 .. Last - 3 \/ place = Last - 2 \/ place = Last - 1
  BY <1>1
<1>11. place \in 2 .. Last - 3 \/ place = Last - 2 => place \in 2 .. Last - 2
  BY <1>1
<1>. QED  BY <1>5, <1>6, <1>7, <1>8, <1>9, <1>10, <1>11

LEMMA ArriveInStep ==
  ASSUME TypeOK, place' # 0, InStep, Arrive
  PROVE  InStep'
<1>1. Pass /\ encode(NextToken) /\ place # 0
  BY DEF Arrive, Pass
<1>2. place \in 1 .. Last /\ place # Last /\ Last \in 6 .. 13
  BY <1>1, GoesOn
<1>3. Mark("comma").kind = "comma" /\ Mark("star").kind = "star" /\ Mark("newline").kind = "newline"
      /\ Mark("dollar").kind = "dollar"
  BY DEF Mark
<1>4. CASE place = 1
  <2>1. NextToken = Mark("dollar")
    BY <1>1, <1>4, GoesOn
  <2>2. BeginSentence(Mark("dollar"))
    BY <1>1, <1>3, <2>1 DEF encode, EndOfTerm, OrdinaryCharacter
  <2>. QED  BY <1>1, <1>4, <2>2, BeginsInStep
<1>5. CASE place \in 2 .. Last - 1 /\ TextNext
  <2>1. NextToken.kind = "text"
    <3>1. NextToken = Head(TextAt(place)) /\ TextAt(place) # << >>
      BY <1>1, <1>5, TextPasses
    <3>. QED  BY <1>1, <1>2, <3>1, TextsAreTexts
  <2>2. OrdinaryCharacter(NextToken)
    BY <1>1, <2>1 DEF encode, EndOfTerm, BeginSentence
  <2>. QED  BY <1>1, <1>5, <2>2, TextInStep
<1>6. CASE place \in 2 .. Last - 1 /\ ~TextNext
  <2>1. NextToken \in {Mark("comma"), Mark("star"), Mark("newline")}
    <3>1. place \in 2 .. Last - 3 \/ place = Last - 2 \/ place \in {Last - 1, Last}
      BY <1>2, <1>6
    <3>. QED  BY <1>1, <1>6, <3>1, EndPasses, EndsOfTerms
  <2>2. EndOfTerm(NextToken)
    BY <1>1, <1>3, <2>1 DEF encode, BeginSentence, OrdinaryCharacter
  <2>. QED  BY <1>1, <1>6, <2>2, EndInStep
<1>. QED  BY <1>2, <1>4, <1>5, <1>6
-----------------------------------------------------------------------------
(* The invariant *)

LEMMA ArriveKeeps ==
  ASSUME NInv, Arrive
  PROVE  PInv'
<1>1. TypeOK /\ ParserTypes /\ Pass /\ encode(NextToken) /\ place # 0
      /\ UNCHANGED <<faults, hits, headless>>
  BY DEF NInv, Arrive, Pass
<1>. SUFFICES ASSUME place' # 0, ~headless'
              PROVE  /\ hits' >= 1 => place' >= 2
                     /\ place' >= 2 => OwnSum'
                     /\ hits' = 0 => InStep'
                     /\ hits' = 1 => Harmed'
  BY DEF PInv
<1>2. /\ hits >= 1 => place >= 2
      /\ place >= 2 => OwnSum
      /\ hits = 0 => InStep
      /\ hits = 1 => Harmed
      /\ hits \in Nat
  BY <1>1 DEF NInv, PInv, ParserTypes
<1>3. place >= 2 => place' >= 2
  BY <1>1, GoesOn
<1>4. place' >= 2 => OwnSum'
  <2>1. CASE place = 1
    <3>1. NextToken = Mark("dollar")
      BY <1>1, <2>1, GoesOn
    <3>2. BeginSentence(NextToken)
      <4>1. Mark("dollar").kind = "dollar"
        BY DEF Mark
      <4>. QED  BY <1>1, <3>1, <4>1 DEF encode, EndOfTerm, OrdinaryCharacter
    <3>3. Len(term') = 0
      BY <3>2 DEF BeginSentence
    <3>. QED  BY <3>3 DEF OwnSum
  <2>2. CASE place >= 2
    <3>1. NextToken \in AnyToken
      BY <1>1, NextTokenType
    <3>2. CASE TextNext
      <4>1. NextToken \in TextToken
        <5>1. NextToken = Head(TextAt(place)) /\ TextAt(place) # << >> /\ place \in 1 .. Last
          BY <1>1, <3>2, TextPasses, PassKeeps
        <5>. QED  BY <1>1, <5>1, TextsAreTexts
      <4>2. term' \in {<< >>, term, Append(term, NextToken)}
        BY <1>1 DEF encode, EndOfTerm, BeginSentence, OrdinaryCharacter
      <4>. QED  BY <1>1, <1>2, <2>2, <3>2, <4>1, <4>2, OwnSumStep
    <3>3. CASE ~TextNext
      <4>1. NextToken.kind # "text"
        <5>1. NextToken = Mark(EndAt(place))
          BY <1>1, <3>3, EndPasses
        <5>. QED  BY <5>1 DEF Mark, EndAt
      <4>2. Len(term') = 0
        BY <1>1, <4>1 DEF encode, EndOfTerm, BeginSentence, OrdinaryCharacter
      <4>. QED  BY <4>2 DEF OwnSum
    <3>. QED  BY <3>2, <3>3
  <2>3. place \in 1 .. Last /\ Last \in 6 .. 13
    BY <1>1, Shape
  <2>. QED  BY <2>1, <2>2, <2>3
<1>5. hits' = 0 => InStep'
  BY <1>1, <1>2, ArriveInStep
<1>6. hits' = 1 => Harmed'
  BY <1>1, <1>2, HarmedStays
<1>. QED  BY <1>1, <1>2, <1>3, <1>4, <1>5, <1>6

LEMMA FaultKeeps ==
  ASSUME NInv, Lose \/ Alter
  PROVE  PInv' /\ (hits' = 0 => ~headless')
<1>1. TypeOK /\ ParserTypes /\ Pass /\ place # 0 /\ hits' = hits + 1 /\ hits \in Nat
      /\ (headless' <=> headless \/ place = 1)
  BY DEF NInv, Lose, Alter, Fault, Pass, ParserTypes
<1>2. PICK c \in {Noise} \cup {Mark(d) : d \in Delimiters} :
        \/ Lose
        \/ Alter /\ c # NextToken /\ encode(c)
  BY DEF Alter
<1>3. hits' # 0
  BY <1>1
<1>4. PInv'
  <2>. SUFFICES ASSUME place' # 0, ~headless'
                PROVE  /\ place' >= 2 /\ OwnSum'
                       /\ hits' = 1 => Harmed'
    BY <1>3 DEF PInv
  <2>1. place >= 2 /\ ~headless
    <3>1. place \in 1 .. Last /\ Last \in 6 .. 13
      BY <1>1, Shape
    <3>. QED  BY <1>1, <3>1
  <2>2. OwnSum /\ (hits = 0 => InStep)
    BY <1>1, <2>1 DEF NInv, PInv
  <2>3. OwnSum'
    <3>1. Noise \in TextToken
      BY DEF Noise, TextToken, Text
    <3>2. term' \in {<< >>, term, Append(term, Noise)}
      <4>1. CASE Lose
        BY <4>1 DEF Lose, parserVars
      <4>2. CASE encode(c)
        <5>1. c.kind = "text" => c = Noise
          BY DEF Delimiters, Mark
        <5>. QED  BY <4>2, <5>1 DEF encode, EndOfTerm, BeginSentence, OrdinaryCharacter
      <4>. QED  BY <1>2, <4>1, <4>2
    <3>. QED  BY <1>1, <2>1, <2>2, <3>1, <3>2, OwnSumStep
  <2>4. hits' = 1 => Harmed'
    <3>1. hits' = 1 => InStep
      BY <1>1, <2>2
    <3>. QED  BY <1>1, <1>2, <2>1, <3>1, LoseHarms, AlterHarms
  <2>5. place' >= 2
    BY <1>1, <2>1, GoesOn
  <2>. QED  BY <2>3, <2>4, <2>5
<1>. QED  BY <1>3, <1>4

LEMMA SendKeeps ==
  ASSUME TypeOK, Send
  PROVE  PInv' /\ (hits' = 0 => ~headless')
<1>1. place' = 1 /\ hits' = 0 /\ ~headless'
  BY DEF Send
<1>2. ~(place' \in 2 .. Last' - 1) /\ ~(place' \in 3 .. Last' - 1) /\ place' # Last' /\ ~(place' >= 2)
  BY <1>1, SendStarts
<1>3. InStep'
  BY <1>2 DEF InStep
<1>. QED  BY <1>1, <1>2, <1>3 DEF PInv

LEMMA StutterKeeps ==
  ASSUME PInv, UNCHANGED vars
  PROVE  PInv'
<1>1. UNCHANGED <<sent, place, said, hits, headless, parity, isChecksumTerm, term, curSentenceType,
                  curTermNumber, sentenceHasFix, customCandidates, staged>>
  BY DEF vars
<1>2. /\ Current' = Current /\ Last' = Last /\ \A p : TextAt(p)' = TextAt(p)
      /\ \A f : AsSent(f)' = AsSent(f)
  BY <1>1 DEF Current, Last, TextAt, AsSent
<1>3. Passed' = Passed /\ SoFar' = SoFar
  <2>1. Passed' = Passed
    BY <1>1, <1>2 DEF Passed, Came
  <2>2. Commas' = Commas
    BY <1>1, <1>2 DEF Commas
  <2>. QED  BY <2>1, <2>2 DEF SoFar
<1>4. OwnSum => OwnSum'
  BY <1>1, <1>2 DEF OwnSum
<1>5. NameKnown => NameKnown'
  BY <1>1, <1>2 DEF NameKnown
<1>6. StagedTo(place - 3) => StagedTo(place - 3)'
  BY <1>1, <1>2 DEF StagedTo
<1>7. StagedTo(Last - 4) => StagedTo(Last - 4)'
  BY <1>1, <1>2 DEF StagedTo
<1>8. InStep => InStep'
  <2>1. TextAt(place)' = TextAt(place)
    BY <1>1 DEF TextAt, AsSent, Current, Last
  <2>. QED  BY <1>1, <1>2, <1>3, <1>5, <1>6, <2>1 DEF InStep
<1>9. Ready => Ready'
  <2>1. Sum(Len(sent))' = Sum(Len(sent))
    BY <1>1 DEF Sum
  <2>. QED  BY <1>1, <1>5, <1>7, <2>1 DEF Ready
<1>10. Off => Off'
  BY <1>1, <1>3 DEF Off
<1>11. NoSum => NoSum'
  BY <1>1 DEF NoSum
<1>12. Harmed => Harmed'
  BY <1>1, <1>2, <1>9, <1>10, <1>11 DEF Harmed
<1>. QED  BY <1>1, <1>4, <1>8, <1>12 DEF PInv

LEMMA NInvStep ==
  ASSUME NInv, [Next]_vars
  PROVE  NInv'
<1>1. TypeOK' /\ ParserTypes'
  BY NextTypes DEF NInv
<1>2. CASE Send
  BY <1>1, <1>2, SendKeeps DEF NInv
<1>3. CASE Arrive
  <2>1. hits' = 0 => ~headless'
    BY <1>3 DEF NInv, Arrive
  <2>. QED  BY <1>1, <1>3, <2>1, ArriveKeeps DEF NInv
<1>4. CASE Lose \/ Alter
  BY <1>1, <1>4, FaultKeeps DEF NInv
<1>5. CASE UNCHANGED vars
  <2>1. hits' = 0 => ~headless'
    BY <1>5 DEF NInv, vars
  <2>. QED  BY <1>1, <1>5, <2>1, StutterKeeps DEF NInv
<1>. QED  BY <1>2, <1>3, <1>4, <1>5 DEF Next
-----------------------------------------------------------------------------
(* What is committed *)

\* A sentence that is known commits fields of its own, and all the receiver
\* filled: with a fix the position, and without one it left that empty.
LEMMA CommitsCarried ==
  ASSUME TypeOK, place # 0, Ready
  PROVE  /\ \A i \in Commits : Carries(i)
         /\ \A i \in Items : Carries(i) /\ AsSent(i) # << >> => i \in Commits /\ staged[i] = AsSent(i)
<1> DEFINE kind == Current.kind
<1>1. /\ kind \in Kinds /\ Last = Len(Fields(kind)) + 4 /\ Current.fix \in BOOLEAN
      /\ Len(Fields(kind)) \in 2 .. 9 /\ Fields(kind) \in Seq(Names)
  BY Shape, FieldNames
<1>2. NameKnown /\ \A k \in 1 .. Len(Fields(kind)) : AsSent(Fields(kind)[k]) # << >> =>
        /\ Fields(kind)[k] \in Items => staged[Fields(kind)[k]] = AsSent(Fields(kind)[k])
        /\ Fields(kind)[k] = "fix" => sentenceHasFix = Current.fix
  <2>1. Last - 4 = Len(Fields(kind))
    BY <1>1
  <2>. QED  BY <2>1 DEF Ready, StagedTo
<1>3. DOMAIN Fields(kind) = 1 .. Len(Fields(kind))
  BY <1>1
<1>4. \A i \in Items : Carries(i) /\ AsSent(i) # << >> => staged[i] = AsSent(i)
  BY <1>2, <1>3 DEF Carries
<1>5. AsSent("fix") # << >>
  <2>1. AsSent("fix") = <<Text(IF Current.fix THEN "A" ELSE "V", 0)>>
    BY DEF AsSent, Field, Position
  <2>. QED  BY <2>1
<1>6. \A i \in Position : AsSent(i) # << >> => Current.fix
  <2>1. \A i \in Position : i # "-" /\ i # "fix"
    BY DEF Position
  <2>. QED  BY <2>1 DEF AsSent, Field
<1>7. CASE kind = "RMC"
  <2>1. curSentenceType = GPS_SENTENCE_GPRMC
    BY <1>2, <1>7 DEF NameKnown, TypeOf
  <2>2. Commits = {"date", "time"} \cup (IF sentenceHasFix THEN Position \ {"alt"} ELSE {})
    BY <2>1 DEF Commits, GPS_SENTENCE_GPRMC, GPS_SENTENCE_GPGGA
  <2>3. /\ Fields(kind)[1] = "time" /\ Fields(kind)[2] = "fix" /\ Fields(kind)[3] = "lat"
        /\ Fields(kind)[4] = "ns" /\ Fields(kind)[5] = "lng" /\ Fields(kind)[6] = "ew"
        /\ Fields(kind)[9] = "date" /\ DOMAIN Fields(kind) = 1 .. 9
        /\ \A k \in 1 .. 9 : Fields(kind)[k] # "alt" /\ Fields(kind)[k] # "pdop"
    BY <1>7 DEF Fields
  <2>4. sentenceHasFix = Current.fix
    BY <1>2, <1>3, <1>5, <2>3
  <2>5. \A i \in Commits : Carries(i)
    BY <2>2, <2>3 DEF Carries, Position
  <2>6. \A i \in Items : Carries(i) => i \in {"date", "time"} \cup (Position \ {"alt"})
    BY <2>3 DEF Carries, Items, Position
  <2>. QED  BY <1>4, <1>6, <2>2, <2>4, <2>5, <2>6
<1>8. CASE kind = "GGA"
  <2>1. curSentenceType = GPS_SENTENCE_GPGGA
    BY <1>2, <1>8 DEF NameKnown, TypeOf
  <2>2. Commits = {"time"} \cup (IF sentenceHasFix THEN Position ELSE {})
    BY <2>1 DEF Commits, GPS_SENTENCE_GPRMC, GPS_SENTENCE_GPGGA
  <2>3. /\ Fields(kind)[1] = "time" /\ Fields(kind)[6] = "fix" /\ Fields(kind)[2] = "lat"
        /\ Fields(kind)[3] = "ns" /\ Fields(kind)[4] = "lng" /\ Fields(kind)[5] = "ew"
        /\ Fields(kind)[9] = "alt" /\ DOMAIN Fields(kind) = 1 .. 9
        /\ \A k \in 1 .. 9 : Fields(kind)[k] # "date" /\ Fields(kind)[k] # "pdop"
    BY <1>8 DEF Fields
  <2>4. sentenceHasFix = Current.fix
    BY <1>2, <1>3, <1>5, <2>3
  <2>5. \A i \in Commits : Carries(i)
    BY <2>2, <2>3 DEF Carries, Position
  <2>6. \A i \in Items : Carries(i) => i \in {"time"} \cup Position
    BY <2>3 DEF Carries, Items, Position
  <2>. QED  BY <1>4, <1>6, <2>2, <2>4, <2>5, <2>6
<1>9. CASE kind = "GSA"
  <2>1. curSentenceType = GPS_SENTENCE_OTHER /\ customCandidates
    BY <1>2, <1>9 DEF NameKnown, TypeOf
  <2>2. Commits = {"pdop"}
    BY <2>1 DEF Commits, GPS_SENTENCE_GPRMC, GPS_SENTENCE_GPGGA, GPS_SENTENCE_OTHER
  <2>3. Fields(kind)[1] = "-" /\ Fields(kind)[2] = "pdop" /\ DOMAIN Fields(kind) = 1 .. 2
    BY <1>9 DEF Fields
  <2>4. \A i \in Items : Carries(i) <=> i = "pdop"
    BY <2>3 DEF Carries, Items
  <2>. QED  BY <1>4, <2>2, <2>4 DEF Items
<1>. QED  BY <1>1, <1>7, <1>8, <1>9 DEF Kinds

\* Only the end of a checksum commits, and only if it is right.
LEMMA CommitNeedsSum ==
  ASSUME [Next]_vars, NEW i \in Items, committed'[i] # committed[i]
  PROVE  /\ Pass /\ (Arrive \/ Alter) /\ EndOfChecksum /\ ChecksumRight /\ i \in Commits
         /\ committed'[i] = staged[i]
         /\ Arrive => EndOfTerm(NextToken)
<1>1. committed' # committed
  OBVIOUS
<1>2. ~Send /\ ~Lose /\ ~(UNCHANGED vars)
  BY <1>1 DEF Send, Lose, parserVars, vars
<1>3. Pass /\ (Arrive \/ Alter)
  BY <1>2 DEF Next, Arrive, Alter, Fault
<1>4. ASSUME NEW c, encode(c) PROVE EndOfTerm(c) /\ EndOfChecksum
  <2>1. EndOfTerm(c)
    BY <1>1, <1>4 DEF encode, BeginSentence, OrdinaryCharacter
  <2>. QED  BY <1>1, <2>1 DEF EndOfTerm, endOfTermHandler, EndOfName, EndOfField
<1>5. EndOfChecksum /\ (Arrive => EndOfTerm(NextToken))
  BY <1>3, <1>4 DEF Arrive, Alter
<1>6. ChecksumRight /\ i \in Commits /\ committed'[i] = staged[i]
  BY <1>5 DEF EndOfChecksum
<1>. QED  BY <1>3, <1>5, <1>6

LEMMA OnlyReadyCommits ==
  ASSUME NInv, [Next]_vars, hits' <= 1, ~headless', NEW i \in Items, committed'[i] # committed[i]
  PROVE  Ready /\ place # 0 /\ place >= Last - 1 /\ ~TextNext
<1>1. /\ Pass /\ (Arrive \/ Alter) /\ isChecksumTerm
      /\ term # << >> /\ Head(term).item = "sum" /\ Sum(Head(term).of) = parity'
      /\ Arrive => EndOfTerm(NextToken)
  BY CommitNeedsSum DEF EndOfChecksum, ChecksumRight
<1>2. /\ TypeOK /\ ParserTypes /\ place # 0 /\ place \in 1 .. Last /\ Last \in 6 .. 13
      /\ TextAt(Last) = << >>
  BY <1>1, Shape, TermTexts DEF NInv, Pass
<1>3. ~headless /\ hits \in Nat /\ (hits = 0 \/ (hits = 1 /\ Arrive)) /\ (Alter => place # 1)
  <2>1. hits \in Nat
    BY <1>2 DEF ParserTypes
  <2>2. CASE Arrive
    <3>1. hits' = hits /\ (headless' <=> headless) /\ ~Alter
      <4>1. Arrive => hits' = hits /\ headless' = headless
        BY DEF Arrive
      <4>2. Alter => hits' = hits + 1
        BY DEF Alter, Fault
      <4>. QED  BY <2>1, <2>2, <4>1, <4>2
    <3>. QED  BY <2>1, <2>2, <3>1
  <2>3. CASE Alter
    <3>1. hits' = hits + 1 /\ (headless' <=> headless \/ place = 1)
      BY <2>3 DEF Alter, Fault
    <3>. QED  BY <2>1, <3>1
  <2>. QED  BY <1>1, <2>2, <2>3
<1>4. place # 1
  <2>1. ASSUME place = 1, EndOfTerm(NextToken) PROVE FALSE
    <3>1. NextToken = Mark("dollar")
      BY <1>2, <2>1, TermTexts, EndsOfTerms DEF NextToken, TextNext
    <3>. QED  BY <2>1, <3>1 DEF EndOfTerm, Mark
  <2>. QED  BY <1>1, <1>3, <2>1
<1>5. /\ OwnSum
      /\ hits = 0 => InStep
      /\ hits = 1 => Harmed
  BY <1>2, <1>3, <1>4 DEF NInv, PInv
<1>6. /\ Head(term) = Text("sum", Len(sent)) /\ (place = Last \/ (place = Last - 1 /\ said))
      /\ ~NoSum
  <2>1. term \in Seq(TextToken) /\ Len(term) \in Nat /\ 1 \in 1 .. Len(term) /\ term[1] = Head(term)
    BY <1>1, <1>2 DEF ParserTypes
  <2>. QED  BY <1>1, <1>5, <2>1 DEF OwnSum, NoSum
<1>7. ~TextNext /\ place >= Last - 1
  BY <1>2, <1>6 DEF TextNext
<1>8. CASE place = Last - 1
  <2>1. CASE hits = 0
    BY <1>2, <1>5, <1>7, <1>8, <2>1, InStepReady
  <2>2. CASE hits = 1
    <3>1. Off
      <4>1. ~(place \in 2 .. Last - 2) /\ place # Last
        BY <1>2, <1>8
      <4>. QED  BY <1>1, <1>5, <1>6, <1>8, <2>2 DEF Harmed
    <3>2. NextToken = Mark("newline") /\ EndOfTerm(NextToken)
      BY <1>1, <1>2, <1>3, <1>7, <1>8, <2>2, EndPasses, EndsOfTerms
    <3>3. parity' = parity
      <4>1. Mark("newline").kind # "comma"
        BY DEF Mark
      <4>. QED  BY <3>2, <4>1 DEF EndOfTerm
    <3>4. SoFar = Sum(Len(sent))
      BY <1>2, <1>8, SoFarIsSum
    <3>5. Sum(Head(term).of) = Sum(Len(sent))
      BY <1>6 DEF Text
    <3>6. parity = SoFar
      BY <1>1, <3>3, <3>4, <3>5
    <3>. QED  BY <3>1, <3>6 DEF Off
  <2>. QED  BY <1>2, <1>3, <1>7, <1>8, <2>1, <2>2
<1>9. CASE place = Last
  <2>1. hits = 0 => ~isChecksumTerm
    BY <1>5, <1>9 DEF InStep
  <2>2. hits = 1 => ~isChecksumTerm \/ NoSum \/ Ready
    BY <1>5, <1>9 DEF Harmed
  <2>. QED  BY <1>1, <1>2, <1>3, <1>6, <1>7, <2>1, <2>2
<1>. QED  BY <1>6, <1>8, <1>9

\* endOfTermHandler(): whatever else was sent before, a sentence whose "$"
\* came and that lost at most one of its other tokens, or had it altered,
\* commits its own fields, as the receiver sent them, or nothing.
THEOREM CommitsOwnFields == Spec => CommittedAsSent
<1> DEFINE Step == hits' <= 1 /\ ~headless' =>
             \A i \in Items : committed'[i] # committed[i] =>
               /\ Carries(i) /\ place >= Last - 1 /\ ~TextNext
               /\ committed'[i] = IF AsSent(i) = << >> THEN staged[i] ELSE AsSent(i)
<1>1. NInv /\ [Next]_vars => Step
  <2>. SUFFICES ASSUME NInv, [Next]_vars, hits' <= 1, ~headless', NEW i \in Items,
                       committed'[i] # committed[i]
                PROVE  /\ Carries(i) /\ place >= Last - 1 /\ ~TextNext
                       /\ committed'[i] = IF AsSent(i) = << >> THEN staged[i] ELSE AsSent(i)
    OBVIOUS
  <2>1. Ready /\ place # 0 /\ place >= Last - 1 /\ ~TextNext /\ TypeOK
    BY OnlyReadyCommits DEF NInv
  <2>2. i \in Commits /\ committed'[i] = staged[i]
    BY CommitNeedsSum
  <2>3. Carries(i) /\ (AsSent(i) # << >> => staged[i] = AsSent(i))
    BY <2>1, <2>2, CommitsCarried
  <2>. QED  BY <2>1, <2>2, <2>3
<1>2. NInv /\ [Next]_vars => [Step]_vars
  BY <1>1
<1>3. NInv /\ [Next]_vars => NInv'
  BY NInvStep
<1>. QED  BY <1>2, <1>3, InitNInv, PTL DEF Spec, CommittedAsSent

\* endOfTermHandler(): a sentence that arrives whole is committed whole, after
\* any sentences, faults and rubbish.
THEOREM CommitsWholeSentence == Spec => WholeSentenceCommitted
<1> DEFINE Step == Arrive /\ hits = 0 /\ place = Last - 1 /\ ~TextNext =>
             \A i \in Items : Carries(i) /\ AsSent(i) # << >> => committed'[i] = AsSent(i)
<1>1. NInv /\ [Next]_vars => Step
  <2>. SUFFICES ASSUME NInv, Arrive, hits = 0, place = Last - 1, ~TextNext, NEW i \in Items,
                       Carries(i), AsSent(i) # << >>
                PROVE  committed'[i] = AsSent(i)
    OBVIOUS
  <2>1. TypeOK /\ place # 0 /\ Pass /\ encode(NextToken) /\ ~headless
    BY DEF NInv, Arrive, Pass
  <2>2. Ready /\ isChecksumTerm
    BY <2>1, InStepReady DEF NInv, PInv
  <2>3. NextToken = Mark("newline")
    BY <2>1, EndPasses, EndsOfTerms
  <2>4. EndOfChecksum /\ parity' = parity
    <3>1. NextToken.kind = "newline"
      BY <2>3 DEF Mark
    <3>. QED  BY <2>1, <2>2, <3>1 DEF encode, EndOfTerm, BeginSentence, OrdinaryCharacter,
                endOfTermHandler, EndOfName, EndOfField
  <2>5. ChecksumRight
    <3>1. Text("sum", Len(sent)).item = "sum" /\ Text("sum", Len(sent)).of = Len(sent)
      BY DEF Text
    <3>. QED  BY <2>2, <2>4, <3>1 DEF Ready, ChecksumRight
  <2>6. i \in Commits /\ staged[i] = AsSent(i)
    BY <2>1, <2>2, CommitsCarried
  <2>. QED  BY <2>4, <2>5, <2>6 DEF EndOfChecksum
<1>2. NInv /\ [Next]_vars => [Step]_vars
  BY <1>1
<1>3. NInv /\ [Next]_vars => NInv'
  BY NInvStep
<1>. QED  BY <1>2, <1>3, InitNInv, PTL DEF Spec, WholeSentenceCommitted
=============================================================================
