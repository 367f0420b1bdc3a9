--------------------------- MODULE PasswordPolicy ---------------------------
(***************************************************************************)
(* The passwords the vault proposes and the strength it gives to those it  *)
(* stores (generate and evaluatePassword of                                *)
(* password-vault/password-vault.service.ts). A password is what the two   *)
(* functions can tell of it: its length, the classes of its characters,    *)
(* whether it is a common one, one repeated character, or begins with an   *)
(* ascending run of digits.                                                *)
(***************************************************************************)
EXTENDS Naturals, FiniteSets, FiniteSetsExt

CONSTANTS Lengths \* the lengths tried; the DTO of the generator asks for 8 to 64

LengthsAssumption == Lengths \subseteq Nat \ {0}

VARIABLES
    options,  \* what the generator was asked for, if it was
    word,     \* the password
    level     \* the strength stored with it

vars == <<options, word, level>>

Classes == {"uppercase", "lowercase", "numbers", "symbols"}
Options == [length: {n \in Lengths : n >= 8}, classes: (SUBSET Classes) \ {{}}]
Word == [length: Lengths, classes: (SUBSET Classes) \ {{}},
         common: BOOLEAN, repeated: BOOLEAN, run: BOOLEAN]
Levels == {"VERY_WEAK", "WEAK", "MEDIUM", "STRONG", "VERY_STRONG"}
NoOptions == [length |-> 0, classes |-> {}]
NoWord == [length |-> 0, classes |-> {}]

\* What words there are: one character repeated is of one class, the common
\* ones are of letters or digits, a run of digits has a digit.
Possible(w) ==
    /\ Cardinality(w.classes) <= w.length
    /\ w.repeated => Cardinality(w.classes) = 1 /\ w.length > 1 /\ ~w.run
    /\ w.common => w.classes \subseteq {"uppercase", "lowercase", "numbers"} /\ w.length \in 5 .. 11
    /\ w.run => "numbers" \in w.classes /\ w.length >= 3

TypeOK ==
    /\ options \in Options \cup {NoOptions}
    /\ word \in Word \cup {NoWord}
    /\ level \in Levels \cup {"none"}

Init ==
    /\ options = NoOptions /\ word = NoWord
    /\ level = "none"
-----------------------------------------------------------------------------
\* Mutant: the characters are all drawn from the pool.
GenerateFromPool ==
    /\ word = NoWord
    /\ \E o \in Options, w \in Word :
         /\ Possible(w)
         /\ w.length = o.length
         /\ w.classes \subseteq o.classes
         /\ options' = o /\ word' = w
    /\ UNCHANGED level

\* One character of each class that was asked for, the rest from the pool,
\* shuffled and cut to the length.
Generate ==
    /\ word = NoWord
    /\ \E o \in Options, w \in Word :
         /\ Possible(w)
         /\ w.length = o.length
         /\ w.classes \subseteq o.classes
         /\ Cardinality(w.classes) = Min({o.length, Cardinality(o.classes)})
         /\ options' = o /\ word' = w
    /\ UNCHANGED level

\* A password somebody types, of any kind.
Store ==
    /\ word = NoWord
    /\ \E w \in Word : Possible(w) /\ word' = w
    /\ UNCHANGED <<options, level>>

\* A point per length of 8, 12 and 16 and per class; digits give none.
Points(w) ==
      Cardinality({n \in {8, 12, 16} : w.length >= n})
    + Cardinality(w.classes \cap {"lowercase", "uppercase", "symbols"})

Score(w) ==
    LET known == IF w.common THEN 0 ELSE Points(w)
        varied == IF w.repeated THEN Min({known, 1}) ELSE known
    IN  IF w.run /\ varied > 0 THEN varied - 1 ELSE varied

ScoreToLevel(score) ==
    CASE score <= 1 -> "VERY_WEAK"
      [] score \in 2 .. 3 -> "WEAK"
      [] score \in 4 .. 5 -> "MEDIUM"
      [] score = 6 -> "STRONG"
      [] OTHER -> "VERY_STRONG"

EvaluatePassword ==
    /\ word # NoWord /\ level = "none"
    /\ level' = ScoreToLevel(Score(word))
    /\ UNCHANGED <<options, word>>

Next == Generate \/ Store \/ EvaluatePassword

Spec == Init /\ [][Next]_vars
-----------------------------------------------------------------------------
\* A generated password has the classes that were asked for, and one of 16
\* characters with letters of both cases and symbols is never called weak; a
\* common or repeated one always is, and no password is the strongest, since
\* the points end at six (generate, evaluatePassword and scoreToLevel).
PolicyHolds ==
    /\ options # NoOptions /\ word # NoWord => word.classes = options.classes
    /\ level # "none" =>
        /\ {"lowercase", "uppercase", "symbols"} \subseteq word.classes /\ word.length >= 16
              => level \in {"MEDIUM", "STRONG"}
        /\ word.common \/ word.repeated => level = "VERY_WEAK"
        /\ level # "VERY_STRONG"
=============================================================================
