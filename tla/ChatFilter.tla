----------------------------- MODULE ChatFilter -----------------------------
(***************************************************************************)
(* filter_message of the chat server of hw2, one turn of its loop at a     *)
(* time.  Symbols are numbers; letters and keywords are constants, and     *)
(* upper and lower case are the same symbol.                               *)
(***************************************************************************)
EXTENDS Integers, Sequences

CONSTANTS
    FltSymbols, FltLetters,
    FltKeywords,    \* filtered_keywords, in order
    FltMaxLen       \* bound: length of a message

FltStar == -1

ASSUME FltKeywordsAssumption ==
    /\ FltStar \notin FltSymbols
    /\ \A k \in DOMAIN FltKeywords : FltKeywords[k] \in Seq(FltSymbols) \ {<<>>}
    /\ DOMAIN FltKeywords \subseteq Nat

VARIABLES
    fltPc,          \* "idle", "filter", "done"
    fltMessage,     \* message
    fltI,           \* i, counted from 1
    fltOut          \* filtered_message

fltVars == <<fltPc, fltMessage, fltI, fltOut>>

FltInit == fltPc = "idle" /\ fltMessage = <<>> /\ fltI = 1 /\ fltOut = <<>>

FltCall ==
    /\ fltPc = "idle"
    /\ \E n \in 1 .. FltMaxLen : fltMessage' \in [1 .. n -> FltSymbols]
    /\ fltPc' = "filter"
    /\ UNCHANGED <<fltI, fltOut>>

FltAt(s, kw, pos) == pos + Len(kw) - 1 <= Len(s) /\ SubSeq(s, pos, pos + Len(kw) - 1) = kw

\* find(keyword, i): the first place at or after i, 0 for npos.
FltFind(kw) ==
    LET places == {p \in fltI .. Len(fltMessage) : FltAt(fltMessage, kw, p)}
    IN  IF places = {} THEN 0 ELSE CHOOSE p \in places : \A q \in places : p <= q

\* Mutant: the place must have a space before it even when it is i.
FltHitStrict(k) ==
    LET pos == FltFind(FltKeywords[k])
    IN  pos # 0 /\ (pos = 1 \/ (pos > 1 /\ fltMessage[pos - 1] \notin FltLetters))

\* Does the k-th keyword stop the inner loop?
FltHit(k) ==
    LET pos == FltFind(FltKeywords[k])
    IN  pos # 0 /\ (pos = fltI \/ fltMessage[pos - 1] \notin FltLetters)

\* One turn: stars for the first keyword that is hit, with i moved behind the
\* place where it was found, or the symbol itself.
FltTurn ==
    /\ fltPc = "filter"
    /\ LET hits == {k \in DOMAIN FltKeywords : FltHit(k)}
           k == CHOOSE j \in hits : \A l \in hits : j <= l
           kw == FltKeywords[k]
       IN  \/ /\ fltI > Len(fltMessage)
              /\ fltPc' = "done" /\ UNCHANGED <<fltI, fltOut>>
           \/ /\ fltI <= Len(fltMessage) /\ hits # {}
              /\ fltOut' = fltOut \o [i \in DOMAIN kw |-> FltStar]
              /\ fltI' = FltFind(kw) + Len(kw)
              /\ UNCHANGED fltPc
           \/ /\ fltI <= Len(fltMessage) /\ hits = {}
              /\ fltOut' = Append(fltOut, fltMessage[fltI])
              /\ fltI' = fltI + 1
              /\ UNCHANGED fltPc
    /\ UNCHANGED fltMessage

FltNext == FltCall \/ FltTurn
FltSpec == FltInit /\ [][FltNext]_fltVars

(***************************************************************************)
(* No keyword gets through: the filtered message contains none, however    *)
(* keywords overlap or follow each other.                                  *)
(***************************************************************************)
FltClean ==
    fltPc = "done" => \A k \in DOMAIN FltKeywords, p \in DOMAIN fltOut :
                          ~FltAt(fltOut, FltKeywords[k], p)

(***************************************************************************)
(* Only keywords are replaced, star by star: the filtered message is as    *)
(* long as the message, and differs from it in stars only, as the expected *)
(* answers of the tests show.                                              *)
(***************************************************************************)
FltKeepsRest ==
    fltPc = "done" => /\ Len(fltOut) = Len(fltMessage)
                      /\ \A i \in DOMAIN fltOut : fltOut[i] \in {FltStar, fltMessage[i]}
=============================================================================
