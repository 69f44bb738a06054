-------------------------- MODULE DocumentNumbering --------------------------
(***************************************************************************)
(* How the academy's documents of one kind and one year are numbered.      *)
(* generate_invoice_number, generate_receipt_number and their copies for   *)
(* staff and rent documents look for the last number in the text order of  *)
(* the database, "...-007" before "...-010", and add one to it.  The text  *)
(* has at least Width digits; a unique constraint refuses a second         *)
(* document with the same number.                                          *)
(***************************************************************************)
EXTENDS Integers, Sequences, FiniteSets

CONSTANTS
    Base,      \* ten
    Width,     \* the digits a number is padded to, three
    Started,   \* how many documents there may be to begin with
    Deletable, \* the documents that may be deleted
    MaxNumber  \* bound on the numbers given out

VARIABLES
    numbers,   \* the numbers of the documents that exist
    refused    \* TRUE iff the last creation failed on the unique constraint

numberingVars == <<numbers, refused>>

Digits[n \in Nat] == IF n < Base THEN <<n>> ELSE Append(Digits[n \div Base], n % Base)

\* The number's text needs no more than Width digits.
Fits(n) == Len(Digits[n]) <= Width

\* The first documents were numbered one after the other, which goes no further
\* than the first number that does not fit.
ASSUME NumberingAssumption ==
    /\ Base \in Nat /\ Base > 2
    /\ Width \in Nat \ {0}
    /\ MaxNumber \in Nat
    /\ Started \subseteq 0 .. MaxNumber
    /\ \A k \in Started \ {0} : Fits(k - 1)
    /\ Deletable \subseteq Nat

Unpadded(n) == Digits[n]   \* mutant: f"{next_num}"

\* f"{next_num:03d}"
Padded(n) == [i \in 1 .. Width - Len(Digits[n]) |-> 0] \o Digits[n]

\* The order of texts: the first difference decides, a prefix comes first.
TextLess(a, b) ==
    \E i \in DOMAIN b : /\ \A j \in 1 .. i - 1 : j \in DOMAIN a /\ a[j] = b[j]
                        /\ i \in DOMAIN a => a[i] < b[i]

\* order_by("-invoice_number").first()
LastDocument ==
    CHOOSE n \in numbers : \A m \in numbers : m # n => TextLess(Padded(m), Padded(n))

NextNumByCount ==   \* mutant: the number of documents plus one
    1 + Cardinality(numbers)
NextNumFromZero ==  \* mutant: next_num = 0 when there is none
    IF numbers = {} THEN 0 ELSE LastDocument + 1
NextNum == IF numbers = {} THEN 1 ELSE LastDocument + 1

\* A document is created: with the next number, or not at all.
Create ==
    /\ NextNum <= MaxNumber
    /\ numbers' = numbers \cup {NextNum}
    /\ refused' = (NextNum \in numbers)

Delete(n) ==
    /\ n \in numbers \cap Deletable
    /\ numbers' = numbers \ {n}
    /\ refused' = FALSE

NumberingInit == numbers \in {1 .. k : k \in Started} /\ refused = FALSE
NumberingNext == Create \/ \E n \in numbers : Delete(n)
NumberingSpec == NumberingInit /\ [][NumberingNext]_numberingVars

-----------------------------------------------------------------------------
NumberingTypeOK == numbers \subseteq 1 .. MaxNumber /\ refused \in BOOLEAN

\* While every number fits the padding, the text order is the order of numbers,
\* whichever documents have been deleted: the next number follows all of them.
NextFollowsAll ==
    (\A n \in numbers : Fits(n)) => \A n \in numbers : n < NextNum

\* The numbering stops for good at the first number that does not fit: from then
\* on a creation succeeds only after the last document that fits is deleted.
StopsAtLimit ==
    [][Create /\ (\E n \in numbers : Fits(n) /\ ~Fits(n + 1) /\ n + 1 \in numbers)
       => refused' /\ numbers' = numbers]_numberingVars

=============================================================================
