------------------------------ MODULE NmeaParser ------------------------------
(***************************************************************************)
(* TinyGPSPlus: the characters of the receiver's NMEA sentences, which the *)
(* serial line may lose or alter, go through encode(); every field is      *)
(* staged as soon as its comma arrives, and the staged values of a         *)
(* sentence are committed when its checksum is right.                      *)
(*                                                                         *)
(* A character is a token: a delimiter, or a whole text (a sentence's      *)
(* name, a field, the two digits of the checksum).  A value is the         *)
(* sequence of texts in `term' when the field ended, as atol() would see   *)
(* them.  The parity is the set of the tokens that went into the XOR an    *)
(* odd number of times: two equal tokens cancel out, as in the code, while *)
(* two different sets never have the same 8 bits by accident.              *)
(***************************************************************************)
EXTENDS Integers, Sequences, Functions

CONSTANTS
  Sentences,       \* what the receiver may send: [kind, fix, blank]
  FieldSize,       \* _GPS_MAX_FIELD_SIZE, in texts
  MaxSentences,    \* bound: sentences sent
  MaxFaults        \* bound: tokens lost or altered on the line

ASSUME NmeaAssumption ==
  /\ Sentences \subseteq [kind : {"RMC", "GGA", "GSA"}, fix : BOOLEAN, blank : BOOLEAN]
  /\ FieldSize \in Nat \ {0, 1} /\ MaxSentences \in Nat /\ MaxFaults \in Nat

VARIABLES
  sent,            \* the sentences sent, the last one possibly in part
  place, said,     \* the term of the last sentence the line is at, 0 at its end,
                   \* and whether the text of that term has passed
  faults,          \* faults so far
  hits,            \* faults in the tokens of the last sentence
  headless,        \* one of them took away its "$"
  parity, isChecksumTerm, term, curSentenceType, curTermNumber, sentenceHasFix,
  customCandidates,  \* TRUE if the sentence is the one of the custom value
  staged,          \* rawNewLatData, newTime, ...
  committed        \* the values the program reads

vars == <<sent, place, said, faults, hits, headless, parity, isChecksumTerm, term, curSentenceType,
          curTermNumber, sentenceHasFix, customCandidates, staged, committed>>

GPS_SENTENCE_GPGGA == 0
GPS_SENTENCE_GPRMC == 1
GPS_SENTENCE_OTHER == 2

-----------------------------------------------------------------------------
(* The receiver (external): RMC, GGA and GSA sentences.  Without a fix the  *)
(* position is blank, and after a cold start the time and the date too.     *)

Mark(c) == [kind |-> c, item |-> "-", of |-> 0]
Text(item, n) == [kind |-> "text", item |-> item, of |-> n]
Noise == Text("noise", 0)
Delimiters == {"dollar", "comma", "star", "newline"}  \* $ , * and \r or \n

\* The fields in their order; "-" for those no property is about.  GSA is cut to
\* its PDOP, in truth the 15th term.
Fields(kind) ==
  CASE kind = "RMC" -> <<"time", "fix", "lat", "ns", "lng", "ew", "-", "-", "date">>
    [] kind = "GGA" -> <<"time", "lat", "ns", "lng", "ew", "fix", "-", "-", "alt">>
    [] kind = "GSA" -> <<"-", "pdop">>

Position == {"lat", "ns", "lng", "ew", "alt"}

\* What is in field f of sentence s, the n-th: a sequence of no or one text.
Field(s, n, f) ==
  CASE f = "-" -> << >>
    [] f = "fix" -> <<Text(IF s.fix THEN "A" ELSE "V", 0)>>
    [] f \in Position /\ ~s.fix -> << >>
    [] f \in {"time", "date"} /\ s.blank -> << >>
    [] OTHER -> <<Text(f, n)>>

\* The checksum of the n-th sentence: no text is in it twice, and a comma goes
\* before each field.
Sum(n) ==
  LET fields == Fields(sent[n].kind)
  IN  {Text(sent[n].kind, 0)}
        \cup (UNION {Range(Field(sent[n], n, fields[i])) : i \in DOMAIN fields})
        \cup (IF Len(fields) % 2 = 1 THEN {Mark("comma")} ELSE {})

\* The sentence now on the line, and the text it has for a field.
Current == sent[Len(sent)]
AsSent(f) == Field(Current, Len(sent), f)

\* Its terms, each a text or none and a delimiter: "$", the name, the fields,
\* the checksum, and the second character of the end of line.
Last == Len(Fields(Current.kind)) + 4
TextAt(p) ==
  CASE p = 2 -> <<Text(Current.kind, 0)>>
    [] p \in 3 .. Last - 2 -> AsSent(Fields(Current.kind)[p - 2])
    [] p = Last - 1 -> <<Text("sum", Len(sent))>>
    [] OTHER -> << >>
EndAt(p) ==
  CASE p = 1 -> "dollar"
    [] p \in 2 .. Last - 3 -> "comma"
    [] p = Last - 2 -> "star"
    [] OTHER -> "newline"

TextNext == ~said /\ TextAt(place) # << >>
NextToken == IF TextNext THEN Head(TextAt(place)) ELSE Mark(EndAt(place))

-----------------------------------------------------------------------------
(* The values *)

Items == {"time", "date", "lat", "ns", "lng", "ew", "alt", "pdop"}

\* (type << 5) | number: numbers from 32 on run into the bits of the type.
COMBINE(type, number) ==
  IF type = GPS_SENTENCE_GPRMC /\ (number \div 32) % 2 = 0 THEN number + 32 ELSE number

\* The fields staged by their case label.
StagedBy ==
  [label \in {COMBINE(GPS_SENTENCE_GPRMC, i) : i \in 1 .. 9} \cup (1 .. 9) |->
     IF label > 32 THEN Fields("RMC")[label - 32] ELSE Fields("GGA")[label]]

\* What is committed at the end of a sentence of this type.
Commits ==
  CASE curSentenceType = GPS_SENTENCE_GPRMC ->
         {"date", "time"} \cup (IF sentenceHasFix THEN Position \ {"alt"} ELSE {})
    [] curSentenceType = GPS_SENTENCE_GPGGA ->
         {"time"} \cup (IF sentenceHasFix THEN Position ELSE {})
    [] OTHER -> IF customCandidates THEN {"pdop"} ELSE {}

-----------------------------------------------------------------------------
(* encode() and endOfTermHandler() *)

ChecksumUnread == TRUE  \* mutant: any checksum will do
XOR(p, c) == IF c \in p THEN p \ {c} ELSE p \cup {c}

\* checksum == parity, into which the comma that ends the term already went;
\* only the first two characters of the term count.
ChecksumRight ==
  term # << >> /\ Head(term).item = "sum" /\ Sum(Head(term).of) = parity'

EndOfChecksum ==
  /\ isChecksumTerm
  /\ committed' = [i \in Items |-> IF ChecksumRight /\ i \in Commits
                                   THEN staged[i] ELSE committed[i]]
  /\ UNCHANGED <<curSentenceType, sentenceHasFix, customCandidates, staged>>

\* Term 0 is the name of the sentence.  Of the sketch's custom values gnssPDOP, of
\* GSA, stands for all: those of GGA (terms 6 and 11) are staged and committed by
\* the same lines.
EndOfName ==
  /\ ~isChecksumTerm /\ curTermNumber = 0
  /\ curSentenceType' = CASE term = <<Text("RMC", 0)>> -> GPS_SENTENCE_GPRMC
                          [] term = <<Text("GGA", 0)>> -> GPS_SENTENCE_GPGGA
                          [] OTHER -> GPS_SENTENCE_OTHER
  /\ customCandidates' = (term = <<Text("GSA", 0)>>)
  /\ UNCHANGED <<sentenceHasFix, staged, committed>>

\* RMC says A; GGA anything above '0', for which V stands.
SaysFix(label) == IF label > 32 THEN Head(term) = Text("A", 0) ELSE Head(term) # Text("V", 0)

\* An empty field stages nothing, except in a custom value.  setLatitude() and
\* setLongitude() make the value positive until the next field says otherwise.
EndOfField ==
  /\ ~isChecksumTerm /\ curTermNumber # 0
  /\ LET label == COMBINE(curSentenceType, curTermNumber)
         f == IF term # << >> /\ curSentenceType # GPS_SENTENCE_OTHER
                 /\ label \in DOMAIN StagedBy
              THEN StagedBy[label] ELSE "-"
     IN  /\ sentenceHasFix' = IF f = "fix" THEN SaysFix(label) ELSE sentenceHasFix
         /\ staged' = [i \in Items |->
              CASE i = f \/ (i = "pdop" /\ customCandidates /\ curTermNumber = 2) -> term
                [] i = "ns" /\ f = "lat" -> << >>
                [] i = "ew" /\ f = "lng" -> << >>
                [] OTHER -> staged[i]]
  /\ UNCHANGED <<curSentenceType, customCandidates, committed>>

endOfTermHandler == EndOfChecksum \/ EndOfName \/ EndOfField

EndOfTerm(c) ==
  /\ c.kind \in {"comma", "star", "newline"}
  /\ parity' = IF c.kind = "comma" THEN XOR(parity, c) ELSE parity
  /\ endOfTermHandler
  /\ curTermNumber' = (curTermNumber + 1) % 256
  /\ term' = << >>
  /\ isChecksumTerm' = (c.kind = "star")

ParityKept(c) == /\ c.kind = "dollar"  \* mutant: parity is not reset
                 /\ curTermNumber' = 0 /\ term' = << >>
                 /\ curSentenceType' = GPS_SENTENCE_OTHER
                 /\ isChecksumTerm' = FALSE /\ sentenceHasFix' = FALSE
                 /\ UNCHANGED <<parity, customCandidates, staged, committed>>
BeginSentence(c) ==
  /\ c.kind = "dollar"
  /\ curTermNumber' = 0 /\ term' = << >> /\ parity' = {}
  /\ curSentenceType' = GPS_SENTENCE_OTHER
  /\ isChecksumTerm' = FALSE /\ sentenceHasFix' = FALSE
  /\ UNCHANGED <<customCandidates, staged, committed>>

AppendAll(c) == /\ c.kind = "text"  \* mutant: the length of term is not looked at
                /\ term' = Append(term, c)
                /\ parity' = IF isChecksumTerm THEN parity ELSE XOR(parity, c)
                /\ UNCHANGED <<isChecksumTerm, curSentenceType, curTermNumber, sentenceHasFix,
                               customCandidates, staged, committed>>
OrdinaryCharacter(c) ==
  /\ c.kind = "text"
  /\ term' = IF Len(term) < FieldSize - 1 THEN Append(term, c) ELSE term
  /\ parity' = IF isChecksumTerm THEN parity ELSE XOR(parity, c)
  /\ UNCHANGED <<isChecksumTerm, curSentenceType, curTermNumber, sentenceHasFix,
                 customCandidates, staged, committed>>

encode(c) == EndOfTerm(c) \/ BeginSentence(c) \/ OrdinaryCharacter(c)

parserVars == <<parity, isChecksumTerm, term, curSentenceType, curTermNumber,
                sentenceHasFix, customCandidates, staged, committed>>

-----------------------------------------------------------------------------
(* The line (external) *)

\* The receiver starts its next sentence.
Send ==
  /\ place = 0 /\ Len(sent) < MaxSentences
  /\ \E s \in Sentences : sent' = Append(sent, s)
  /\ place' = 1 /\ said' = FALSE /\ hits' = 0 /\ headless' = FALSE
  /\ UNCHANGED <<faults, parserVars>>

\* A token leaves the line.
Pass ==
  /\ place # 0
  /\ said' = TextNext
  /\ place' = IF TextNext THEN place ELSE IF place = Last THEN 0 ELSE place + 1
  /\ UNCHANGED sent

Arrive ==
  /\ Pass
  /\ encode(NextToken)
  /\ UNCHANGED <<faults, hits, headless>>

Fault ==
  /\ Pass
  /\ faults < MaxFaults
  /\ faults' = faults + 1 /\ hits' = hits + 1
  /\ headless' = (headless \/ place = 1)

Lose == Fault /\ UNCHANGED parserVars

\* A token turns into a delimiter, or into something else.
Alter ==
  /\ Fault
  /\ \E c \in {Noise} \cup {Mark(d) : d \in Delimiters} : c # NextToken /\ encode(c)

Next == Send \/ Arrive \/ Lose \/ Alter

Init ==
  /\ sent = << >> /\ place = 0 /\ said = FALSE
  /\ faults = 0 /\ hits = 0 /\ headless = FALSE
  /\ parity = {} /\ isChecksumTerm = FALSE /\ term = << >>
  /\ curSentenceType = GPS_SENTENCE_OTHER /\ curTermNumber = 0
  /\ sentenceHasFix = FALSE /\ customCandidates = FALSE
  /\ staged = [i \in Items |-> << >>] /\ committed = [i \in Items |-> << >>]

Spec == Init /\ [][Next]_vars

-----------------------------------------------------------------------------
(* Properties *)

\* Types; a term never outgrows its array.
TypeOK ==
  /\ sent \in Seq(Sentences) /\ Len(sent) <= MaxSentences
  /\ IF sent = << >> THEN place = 0 ELSE place \in 0 .. Last
  /\ faults \in 0 .. MaxFaults /\ hits \in 0 .. faults
  /\ curSentenceType \in 0 .. 2 /\ curTermNumber \in 0 .. 255
  /\ Len(term) < FieldSize
  /\ {said, headless, isChecksumTerm, sentenceHasFix, customCandidates} \subseteq BOOLEAN
  /\ DOMAIN staged = Items /\ DOMAIN committed = Items

Carries(i) == \E k \in DOMAIN Fields(Current.kind) : Fields(Current.kind)[k] = i

\* endOfTermHandler(): "If it's the checksum term, and the checksum checks out,
\* commit": if a sentence's "$" came and at most one more of its tokens was lost
\* or altered, then what it commits are its own fields as the receiver sent
\* them, and of the fields it left empty whatever was staged before.  Nothing
\* else changes, and nothing before the end of the sentence.
CommittedAsSent ==
  [][hits' <= 1 /\ ~headless' =>
       \A i \in Items : committed'[i] # committed[i] =>
         /\ Carries(i) /\ place >= Last - 1 /\ ~TextNext
         /\ committed'[i] = IF AsSent(i) = << >> THEN staged[i] ELSE AsSent(i)]_vars

\* Whatever happened to the sentences before it, one that arrives whole has
\* all the fields it carries committed when its checksum has ended.
WholeSentenceCommitted ==
  [][Arrive /\ hits = 0 /\ place = Last - 1 /\ ~TextNext =>
       \A i \in Items : Carries(i) /\ AsSent(i) # << >> => committed'[i] = AsSent(i)]_vars
=============================================================================
