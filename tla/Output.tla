------------------------------- MODULE Output -------------------------------
(***************************************************************************)
(* usr_kprintf of src/user/user_kprintf.c, called by threads that can be   *)
(* preempted in it.                                                        *)
(*                                                                         *)
(* The index into the format is the global i, which lies in the data       *)
(* section and is therefore one for all threads of a process.  The code is *)
(* compiled with -O2 (user/Makefile:39): between two system calls i is     *)
(* kept in a register, it is stored before each and loaded after it.  The  *)
(* other globals, buff, tmp, j, offset and zeros, have no influence on     *)
(* what a thread prints that is alone in its process.                      *)
(*                                                                         *)
(* A format is a sequence of characters, with the NUL behind it.  What a   *)
(* call prints is kept as history, as long as no other thread of the       *)
(* process is in usr_kprintf: `printed' has a piece for each character of  *)
(* the format that is printed as it is and for each conversion.            *)
(***************************************************************************)
EXTENDS Integers, Sequences

CONSTANTS
  Several,   \* processes with two threads
  Single,    \* processes with one thread
  Chars,     \* the characters of formats
  MaxLen,    \* bound: the length of formats
  Args,      \* the values of arguments, as words
  Word       \* the number of words

ASSUME OutputAssumption ==
  /\ Several \intersect Single = {}
  /\ "NUL" \notin Chars
  /\ MaxLen \in Nat
  /\ Word \in Nat \ {0} /\ Word % 2 = 0
  /\ Args \subseteq 0 .. Word - 1

Threads == (Several \X {1, 2}) \union (Single \X {1})
Process(t) == t[1]

Digits == {"0", "1", "2", "3", "4", "5", "6", "7", "8", "9"}
NUL == "NUL"

(* A % is followed by a conversion, with digits in between if any.  (One   *)
(* at the end is printed with the NUL, and reading goes on behind it.)     *)
WellFormed(s) ==
  \A k \in DOMAIN s : s[k] = "%" =>
    \E m \in k+1 .. Len(s) : s[m] \notin Digits /\ \A n \in k+1 .. m-1 : s[n] \in Digits

Formats == {s \in UNION {[1 .. n -> Chars] : n \in 0 .. MaxLen} : WellFormed(s)}

VARIABLES
  i,        \* of each process, the index into the format, from 0
  str,      \* the format a thread prints
  reg,      \* what it holds of i in a register
  pc,       \* where in usr_kprintf it is
  printed,  \* history: what it has printed in this call
  shared    \* history: has another thread been in this process's usr_kprintf meanwhile?

vars == <<i, str, reg, pc, printed, shared>>

Init ==
  /\ i = [p \in Several \union Single |-> 0]
  /\ str = [t \in Threads |-> <<>>]
  /\ reg = [t \in Threads |-> 0]
  /\ pc = [t \in Threads |-> "outside"]
  /\ printed = [t \in Threads |-> <<>>]
  /\ shared = [t \in Threads |-> FALSE]

-----------------------------------------------------------------------------
(* Numbers. *)

(* The word n as an int. *)
INT_MIN == -(Word \div 2)
Int32(n) == IF n < -INT_MIN THEN n ELSE n - Word

(* Mutant of Numeral: the loop stops one digit early. *)
NumeralShort(n, base) ==
  LET res[m \in Int] ==
        <<m % base>> \o IF m \div base > 1 THEN res[m \div base] ELSE <<>>
  IN  [k \in 1 .. Len(res[n]) |-> res[n][Len(res[n]) + 1 - k]]

(* The digits of n, of which res gets the last one first. *)
Remainders(base) ==
  LET res[n \in Nat] ==
        <<n % base>> \o IF n \div base > 0 THEN res[n \div base] ELSE <<>>
  IN  res

(* The digits in the order they are printed.  For a negative n they are    *)
(* read in front of the array of digits: "?" is what lies there.           *)
Numeral(n, base) ==
  LET res == Remainders(base)[n]
  IN  IF n < 0 THEN <<"?">> ELSE [k \in 1 .. Len(res) |-> res[Len(res) + 1 - k]]

(* n *= -1 leaves the least int as it is. *)
usr_intToStr(n) ==
  IF n < 0 THEN <<"-">> \o Numeral(Int32(-n % Word), 10) ELSE Numeral(n, 10)

usr_unusr_intToStr(n) == Numeral(n, 10)

usr_decToHexStr(n, pointer) ==
  (IF pointer THEN <<"0", "x">> ELSE <<>>) \o Numeral(n, 16)

(* What a conversion prints for the next argument, and so for any.         *)
Converted(c, n) ==
  CASE c = "c" -> <<n>>
    [] c = "x" -> usr_decToHexStr(n, FALSE)
    [] c = "i" -> usr_intToStr(Int32(n))
    [] c = "u" -> usr_unusr_intToStr(n)
    [] c = "p" -> usr_decToHexStr(n, TRUE)
    [] OTHER   -> IF c = "%" THEN <<"%">> ELSE <<"%", c>>

-----------------------------------------------------------------------------

(* The character at index k of a string.  Behind the NUL lies anything;    *)
(* bound: a NUL comes again after one more character.                      *)
Reads(s, k, c) ==
  \/ k < Len(s) /\ c = s[k+1]
  \/ k = Len(s) /\ c = NUL
  \/ k = Len(s) + 1 /\ c \in Chars \union {NUL}
  \/ k > Len(s) + 1 /\ c = NUL

Goto(t, label) == pc' = [pc EXCEPT ![t] = label]

Prints(t, piece) ==
  printed' = [printed EXCEPT ![t] = IF shared[t] THEN <<>> ELSE Append(@, piece)]

Inside(t) == pc[t] # "outside"
Others(t) == {u \in Threads \ {t} : Process(u) = Process(t) /\ Inside(u)}

(* From now on t and the others in its process's usr_kprintf share i. *)
Meets(t) ==
  /\ shared' = [u \in Threads |->
       IF u = t THEN Others(t) # {} ELSE shared[u] \/ u \in Others(t)]
  /\ printed' = [u \in Threads |-> IF u \in Others(t) THEN <<>> ELSE printed[u]]

(* Mutant of Call: the index is taken on from the last call. *)
CallGoesOn(t) ==
  /\ ~Inside(t)
  /\ \E s \in Formats : str' = [str EXCEPT ![t] = s]
  /\ reg' = [reg EXCEPT ![t] = i[Process(t)]]
  /\ Goto(t, "while")
  /\ Meets(t)
  /\ UNCHANGED i

(* Mutant of Call: the index starts in front of the format. *)
CallInFront(t) ==
  /\ ~Inside(t)
  /\ \E s \in Formats : str' = [str EXCEPT ![t] = s]
  /\ i' = [i EXCEPT ![Process(t)] = -1]
  /\ reg' = [reg EXCEPT ![t] = -1]
  /\ Goto(t, "while")
  /\ Meets(t)

(* usr_kprintf(s, ...), up to i = 0. *)
Call(t) ==
  /\ ~Inside(t)
  /\ \E s \in Formats : str' = [str EXCEPT ![t] = s]
  /\ i' = [i EXCEPT ![Process(t)] = 0]
  /\ reg' = [reg EXCEPT ![t] = 0]
  /\ Goto(t, "while")
  /\ Meets(t)

(* The register and i are counted up.  Bound: the indices from             *)
(* MaxLen + 2, where a NUL is read in any case, are not told apart.        *)
Advance(t) ==
  LET k == IF reg[t] < MaxLen + 2 THEN reg[t] + 1 ELSE reg[t]
  IN  /\ reg' = [reg EXCEPT ![t] = k]
      /\ i' = [i EXCEPT ![Process(t)] = k]

Return(t) ==
  /\ pc[t] = "while"
  /\ Reads(str[t], reg[t], NUL)
  /\ Goto(t, "outside")
  /\ str' = [str EXCEPT ![t] = <<>>]
  /\ reg' = [reg EXCEPT ![t] = 0]
  /\ printed' = [printed EXCEPT ![t] = <<>>]
  /\ shared' = [shared EXCEPT ![t] = FALSE]
  /\ UNCHANGED i

Literal(t) ==
  /\ pc[t] = "while"
  /\ \E c \in Chars \ {"%"} :
       /\ Reads(str[t], reg[t], c)
       /\ Prints(t, [char |-> c, arg |-> 0, text |-> <<c>>])
  /\ Goto(t, "load")
  /\ UNCHANGED <<i, str, reg, shared>>

Percent(t) ==
  /\ pc[t] = "while"
  /\ Reads(str[t], reg[t], "%")
  /\ Advance(t)
  /\ Goto(t, "switch")
  /\ UNCHANGED <<str, printed, shared>>

(* Digits are skipped, up to the conversion. *)
Width(t) ==
  /\ pc[t] = "switch"
  /\ \E c \in Chars \intersect Digits : Reads(str[t], reg[t], c)
  /\ Advance(t)
  /\ UNCHANGED <<str, pc, printed, shared>>

Convert(t) ==
  /\ pc[t] = "switch"
  /\ \E c \in (Chars \union {NUL}) \ Digits, n \in Args :
       /\ Reads(str[t], reg[t], c)
       /\ Prints(t, [char |-> "%" \o c, arg |-> n, text |-> Converted(c, n)])
  /\ Goto(t, "load")
  /\ UNCHANGED <<i, str, reg, shared>>

(* i++ after a system call. *)
Load(t) ==
  /\ pc[t] = "load"
  /\ reg' = [reg EXCEPT ![t] = i[Process(t)]]
  /\ Goto(t, "store")
  /\ UNCHANGED <<i, str, printed, shared>>

Store(t) ==
  /\ pc[t] = "store"
  /\ Advance(t)
  /\ Goto(t, "while")
  /\ UNCHANGED <<str, printed, shared>>

Step(t) ==
  \/ Call(t) \/ Return(t)
  \/ Literal(t) \/ Percent(t) \/ Width(t) \/ Convert(t)
  \/ Load(t) \/ Store(t)

(* Any thread may be the next to run. *)
Next == \E t \in Threads : Step(t)

Spec == Init /\ [][Next]_vars

-----------------------------------------------------------------------------
(* Properties. *)

(* Type invariant. *)
OutputTypeOK ==
  /\ i \in [Several \union Single -> Nat]
  /\ reg \in [Threads -> Nat]
  /\ pc \in [Threads -> {"outside", "while", "switch", "load", "store"}]
  /\ shared \in [Threads -> BOOLEAN]
  /\ \A t \in Threads :
       /\ str[t] \in Formats
       /\ ~Inside(t) => str[t] = <<>> /\ ~shared[t]
       /\ shared[t] \/ ~Inside(t) => printed[t] = <<>>

(* The last position of what begins at position k of s: of a conversion    *)
(* the first one behind the % that is no digit.                            *)
EndOf(s, k) ==
  IF s[k] # "%" THEN k
  ELSE CHOOSE m \in k+1 .. Len(s) :
         s[m] \notin Digits /\ \A n \in k+1 .. m-1 : s[n] \in Digits

(* The number that digits stand for. *)
ValueOf(d, base) ==
  LET value[k \in 0 .. Len(d)] == IF k = 0 THEN 0 ELSE base * value[k-1] + d[k]
  IN  value[Len(d)]

(* The digits d are the shortest numeral for the natural number n.         *)
IsNumeral(d, base, n) ==
  /\ Len(d) > 0
  /\ \A k \in 1 .. Len(d) : d[k] \in 0 .. base - 1
  /\ Len(d) > 1 => d[1] # 0
  /\ ValueOf(d, base) = n

(* The text a conversion has to print for n.  The least int has no         *)
(* negative: %i prints garbage for it.                                     *)
IsText(text, c, n) ==
  CASE c = "c" -> text = <<n>>
    [] c = "x" -> IsNumeral(text, 16, n)
    [] c = "p" -> /\ SubSeq(text, 1, 2) = <<"0", "x">>
                  /\ IsNumeral(SubSeq(text, 3, Len(text)), 16, n)
    [] c = "u" -> IsNumeral(text, 10, n)
    [] c = "i" -> /\ Int32(n) >= 0 => IsNumeral(text, 10, n)
                  /\ Int32(n) < 0 => Head(text) = "-"
                  /\ Int32(n) \in INT_MIN+1 .. -1 => IsNumeral(Tail(text), 10, Word - n)
    [] c = "%" -> text = <<"%">>
    [] OTHER -> text = <<"%", c>>

(* p is what the format s has to print: its pieces begin one behind the    *)
(* end of the other and reach from the first to the last character.        *)
Prescribed(p, s) ==
  \E at \in [1 .. Len(p) -> DOMAIN s] :
    /\ p = <<>> <=> s = <<>>
    /\ p # <<>> => at[1] = 1 /\ EndOf(s, at[Len(p)]) = Len(s)
    /\ \A k \in 1 .. Len(p) - 1 : at[k+1] = EndOf(s, at[k]) + 1
    /\ \A k \in 1 .. Len(p) :
         IF s[at[k]] = "%"
         THEN /\ p[k].char = "%" \o s[EndOf(s, at[k])]
              /\ IsText(p[k].text, s[EndOf(s, at[k])], p[k].arg)
         ELSE p[k].char = s[at[k]] /\ p[k].text = <<s[at[k]]>>

(* A call prints what its format asks for, from the first character to the *)
(* last, when no other thread of the process has been in usr_kprintf       *)
(* meanwhile, however often such a thread has been in it before and        *)
(* whatever threads of other processes print at the same time.             *)
PrintsItsFormat ==
  [][\A t \in Threads :
       Inside(t) /\ ~Inside(t)' /\ ~shared[t] => Prescribed(printed[t], str[t])]_vars

(* The index never passes the NUL of the format in a call that no other    *)
(* thread of the process disturbs: not where digits are skipped, not by    *)
(* the i++ behind a conversion, and not by what earlier calls have left in *)
(* i (user_kprintf.c:6, :242).                                             *)
AloneStaysInFormat ==
  \A t \in Threads : Inside(t) /\ ~shared[t] => reg[t] <= Len(str[t])

(* "a primitive implementation of printf" (user_kprintf.c:161): no         *)
(* character is read behind the NUL of the format.                         *)
StaysInFormat == \A t \in Threads : Inside(t) => reg[t] <= Len(str[t])

=============================================================================
