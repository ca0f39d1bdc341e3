-------------------------------- MODULE Wire --------------------------------
(***************************************************************************)
(* One message between yhook.dll and the monitor: composed in the          *)
(* monitored process (yipc.h, yhook.cc), read into Pipe[i].chRequest, and  *)
(* parsed in GetAnswerToRequest (yipcsrv.h) with a pointer that trusts     *)
(* every length it meets.                                                  *)
(*                                                                         *)
(* Text is a sequence of bytes 0 .. Base-1, of which 0 is NUL; a size_t or *)
(* DWORD is Width bytes, least significant first.  p counts from 0, as the *)
(* pointer does.                                                           *)
(***************************************************************************)
EXTENDS Integers, Sequences

CONSTANTS
  Base,       \* number of values of a byte
  Names,      \* texts without a NUL: paths, names of functions and arguments
  Values,     \* argument values, given with their length
  Pids,       \* process ids
  MaxArgs,    \* bound on the arguments of a hooked function
  HeaderLen,  \* bytes of yhook_message before its text
  BufSize,    \* BUFSIZE: bytes of chRequest
  ReadSize    \* bytes the reads ask for: BUFSIZE * sizeof(TCHAR)

Width == 2
Bytes == 0 .. Base - 1

ASSUME BaseAssumption == Base \in Nat \ {0, 1}
ASSUME TextsAssumption ==
  /\ Names \subseteq Seq(Bytes \ {0})
  /\ Values \subseteq {s \in Seq(Bytes) : Len(s) < Base * Base}
  /\ Pids \subseteq 0 .. Base * Base - 1
  /\ MaxArgs \in 0 .. Base * Base - 1
ASSUME SizesAssumption ==
  /\ HeaderLen \in Nat /\ BufSize \in Nat /\ ReadSize \in Nat
  /\ HeaderLen < BufSize
  /\ BufSize <= ReadSize /\ ReadSize < Base * Base

Arg  == [name : Names, value : Values]
Call == [type : {"SPAWN", "HOOK"}, name : Names, pid : Pids, args : Seq(Arg)]

VARIABLES
  call,   \* what the process reports; pid counts for SPAWN, args for HOOK
  pc,     \* who works on the message
  text,   \* s of the composer, message of the parser
  at,     \* history: where the composer began each argument
  p,      \* the parser's pointer into text
  count,  \* arg_count, as read
  t       \* what the parser has put together

vars == <<call, pc, text, at, p, count, t>>

Parsed == [name : Seq(Bytes), pid : Nat,
           args : Seq([name : Seq(Bytes), value : Seq(Bytes)])]

TypeOK ==
  /\ call \in Call /\ Len(call.args) <= MaxArgs
  /\ pc \in {"compose", "read", "refused", "name", "args", "done", "astray"}
  /\ text \in Seq(Bytes)
  /\ at \in Seq(Nat) /\ p \in Nat /\ count \in Nat
  /\ t \in Parsed

-----------------------------------------------------------------------------
(* The sender.                                                             *)

(* The bytes of n, as std::string takes them from its address.            *)
Word(n) == <<n % Base, n \div Base>>

CStr(s) == Append(s, 0)

(* Mutant: the length of the value counts its name too.                    *)
LengthOfBoth(a) == Word(Len(a.name) + Len(a.value))

LengthWord(a) == Word(Len(a.value))

ArgText(a) == CStr(a.name) \o LengthWord(a) \o a.value

Init ==
  /\ call \in [type : {"SPAWN", "HOOK"}, name : Names, pid : Pids,
               args : UNION {[1 .. n -> Arg] : n \in 0 .. MaxArgs}]
  /\ pc = "compose"
  /\ text = CStr(call.name) \o Word(IF call.type = "SPAWN" THEN call.pid
                                                           ELSE Len(call.args))
  /\ at = <<>>
  /\ p = 0 /\ count = 0
  /\ t = [name |-> <<>>, pid |-> 0, args |-> <<>>]

Composed == call.type = "SPAWN" \/ Len(at) = Len(call.args)

(* One turn of the loop of compose_hook_message.                           *)
ComposeArg ==
  /\ pc = "compose" /\ ~Composed
  /\ text' = text \o ArgText(call.args[Len(at) + 1])
  /\ at' = Append(at, Len(text))
  /\ UNCHANGED <<call, pc, p, count, t>>

SendMessage ==
  /\ pc = "compose" /\ Composed
  /\ pc' = "read"
  /\ UNCHANGED <<call, text, at, p, count, t>>

-----------------------------------------------------------------------------
(* The receiver.                                                           *)

Total == HeaderLen + Len(text)

(* In PIPEINST the field cbRead lies behind chRequest: of a message that   *)
(* overruns chRequest, the bytes there are replaced by their number, and   *)
(* what follows rests in chReply, which nothing else writes to.            *)
Overwritten(k) == HeaderLen + k - BufSize

(* Mutant: chReply is cleared for the answer before the request is parsed. *)
ReadIntoCleared ==
  [k \in 1 .. Len(text) |->
     IF Overwritten(k) \in 1 .. Width THEN Word(Total)[Overwritten(k)]
     ELSE IF Overwritten(k) > Width THEN 0 ELSE text[k]]

ReadInto ==
  [k \in 1 .. Len(text) |->
     IF Overwritten(k) \in 1 .. Width THEN Word(Total)[Overwritten(k)] ELSE text[k]]

Fits == Total <= ReadSize

(* ReadFile; more than ReadSize fails with ERROR_MORE_DATA.                *)
Read ==
  /\ pc = "read"
  /\ IF Fits
       THEN pc' = "name" /\ text' = ReadInto
       ELSE pc' = "refused" /\ UNCHANGED text
  /\ UNCHANGED <<call, at, p, count, t>>

(* message.c_str() may be read up to the NUL behind its last byte.         *)
Byte(k) == IF k < Len(text) THEN text[k + 1] ELSE 0
Readable(from, n) == from + n <= Len(text) + 1

(* The string that begins at q.                                            *)
NulFrom(q) == CHOOSE k \in q .. Len(text) :
                Byte(k) = 0 /\ \A j \in q .. k - 1 : Byte(j) # 0
StringAt(q) == SubSeq(text, q + 1, NulFrom(q))
WordAt(q)   == Byte(q) + Base * Byte(q + 1)

(* Mutant: the pointer is left on the NUL.                                 *)
AtNul(q) == NulFrom(q)

AfterNul(q) == NulFrom(q) + 1

Astray == pc' = "astray" /\ UNCHANGED <<call, text, at, p, count, t>>

(* The head of parse_hook_message, or all of parse_spawn_message.          *)
ParseName ==
  /\ pc = "name"
  /\ LET q == AfterNul(p)
     IN IF ~Readable(q, Width) THEN Astray
        ELSE /\ p' = q + Width
             /\ IF call.type = "SPAWN"
                  THEN /\ t' = [t EXCEPT !.name = StringAt(p), !.pid = WordAt(q)]
                       /\ pc' = "done"
                       /\ UNCHANGED count
                  ELSE /\ t' = [t EXCEPT !.name = StringAt(p)]
                       /\ count' = WordAt(q)
                       /\ pc' = "args"
             /\ UNCHANGED <<call, text, at>>

(* Where the next argument begins, given where this one's length stands.   *)
PastValue(q) == q + Width + WordAt(q)

(* One turn of the loop of parse_hook_message.                             *)
ParseArg ==
  /\ pc = "args" /\ Len(t.args) < count
  /\ IF ~Readable(p, 1) THEN Astray
     ELSE LET q == AfterNul(p)
          IN IF ~Readable(q, Width) \/ ~Readable(q + Width, WordAt(q)) THEN Astray
             ELSE /\ t' = [t EXCEPT !.args = Append(@,
                         [name  |-> StringAt(p),
                          value |-> [i \in 1 .. WordAt(q) |-> Byte(q + Width + i - 1)]])]
                  /\ p' = PastValue(q)
                  /\ UNCHANGED <<call, pc, text, at, count>>

ParseEnds ==
  /\ pc = "args" /\ Len(t.args) >= count
  /\ pc' = "done"
  /\ UNCHANGED <<call, text, at, p, count, t>>

Next == ComposeArg \/ SendMessage \/ Read \/ ParseName \/ ParseArg \/ ParseEnds

Spec == Init /\ [][Next]_vars

-----------------------------------------------------------------------------
Intact == Total <= BufSize

(* What the process reported, in the terms of the parser.                  *)
Expected ==
  [name |-> call.name,
   pid  |-> IF call.type = "SPAWN" THEN call.pid ELSE 0,
   args |-> IF call.type = "HOOK" THEN call.args ELSE <<>>]

(* parse_*_message inverts compose_*_message for whatever names, values    *)
(* and numbers of arguments, if the message fits chRequest (yipc.h:72,94). *)
RoundTrip == pc = "done" /\ Intact => t = Expected

(* Of a message that fits, the parser never touches a byte behind the      *)
(* text, at no point of the loop, and stops at its very end.               *)
InBounds ==
  Intact => /\ pc # "astray"
            /\ p <= Len(text)
            /\ pc = "done" => p = Len(text)

ValueFrom(i) == at[i] + Len(call.args[i].name) + 1 + Width

(* Argument i's value holds all the bytes of the message that were lost.   *)
HeldByValue(i) ==
  \A k \in 1 .. Len(text) :
    Overwritten(k) \in 1 .. Width =>
      k \in ValueFrom(i) + 1 .. ValueFrom(i) + Len(call.args[i].value)

(* A message that overruns chRequest within one value loses bytes of this  *)
(* value and nothing else: the parser keeps its place.                     *)
LossContained ==
  \A i \in DOMAIN at :
    pc \in {"done", "astray"} /\ HeldByValue(i) =>
      /\ pc = "done"
      /\ t.name = call.name
      /\ Len(t.args) = Len(call.args)
      /\ \A j \in DOMAIN at \ {i} : t.args[j] = call.args[j]
      /\ t.args[i].name = call.args[i].name
      /\ Len(t.args[i].value) = Len(call.args[i].value)

(* A false count, read from overwritten bytes, makes the parser run on,    *)
(* but each argument it files costs the bytes it was read from: what it    *)
(* builds before it ends or goes astray is no larger than the message.     *)
NoMoreThanSent ==
  (Width + 1) * Len(t.args) <= p /\ (p <= Len(text) + 1 \/ pc = "compose")

(* What holds of the parser at every step, message intact or not.          *)
WireInv == TypeOK /\ InBounds /\ NoMoreThanSent
=============================================================================
