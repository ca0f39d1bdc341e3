---------------------------- MODULE HooksProofs ----------------------------
(* Proofs about Hooks, for any number of threads, calls and nested         *)
(* reports.                                                                *)
EXTENDS Hooks, SequenceTheorems, FiniteSetTheorems, TLAPS

-----------------------------------------------------------------------------
(* The inductive invariant.                                                *)

Places == {"test", "set", "compose", "write", "clear", "original"}

(* What a frame that called another one is at: a composition it has left,  *)
(* or the write it has begun.                                              *)
Calling(f, g) ==
  \/ g.fn = "runtime"   /\ f.at = "write"
  \/ g.fn = "WriteFile" /\ f.at = IF f.fn = "spawn" THEN "original" ELSE "clear"

(* A stack of frames: what a thread was called for lies at the bottom, the *)
(* calls of reports above it, each of them made by the frame below.        *)
StackOK(s) ==
  /\ \A i \in 1 .. Len(s) : s[i].fn \in {"app", "CreateFile", "spawn"} <=> i = 1
  /\ \A i \in 1 .. Len(s) - 1 : Calling(s[i], s[i + 1])
  /\ \A i \in 1 .. Len(s) : s[i].fn = "spawn" => s[i].at \in {"compose", "write", "original"}

Stacks == \A t \in Threads : StackOK(stack[t])

(* Before DllMain is through, only Main is in a hooked function, and for   *)
(* DllMain; after it has run again, nobody is.                             *)
Attaching ==
  /\ dll \in {"loaded", "hooked", "unhooked"} => stack[Main] = <<>>
  /\ dll # "attached" => \A t \in Threads \ {Main} : stack[t] = <<>>
  /\ dll \in {"loaded", "hooked", "linked", "spawned"} =>
       \A t \in Threads : /\ calls[t] = 0
                          /\ stack[t] # <<>> => stack[t][1].fn # "app"
  /\ \A t \in Threads : stack[t] # <<>> /\ stack[t][1].fn = "CreateFile" => dll = "linked"

OverlapSeen == Overlap => overlapped

(* As long as no call has met another thread's report, a report is under   *)
(* the guard, and one is begun only outside any other of its thread.       *)
Guarded ==
  ~overlapped =>
    \A t \in Threads : /\ Reporting(t) # {} => entered
                       /\ At(t, "set") => Reporting(t) = {}
                       /\ \A i, j \in Reporting(t) : i = j

(* The call of the program a stack begins with has yet to be reported: it  *)
(* is on its way to the write, or the write is being made.                 *)
Pending(s) ==
  /\ s # <<>> /\ s[1].fn = "app"
  /\ \/ s[1].at \in {"test", "set", "compose", "write"}
     \/ Len(s) > 1 /\ s[2].fn = "WriteFile"

Due(t) == reported[t] + (IF Pending(stack[t]) THEN 1 ELSE 0)

AtMostOnce == \A t \in Threads : Due(t) <= calls[t]

AllReported ==
  ~overlapped /\ ~threw /\ dll = "attached" /\ hooked /\ pipe = "open" =>
    \A t \in Threads : Due(t) = calls[t]

IInv == /\ TypeOK /\ Stacks /\ Attaching /\ OverlapSeen /\ GuardHeld /\ Guarded
        /\ AtMostOnce /\ AllReported

-----------------------------------------------------------------------------
(* The operations on stacks.                                               *)

LEMMA FrameTypes ==
  /\ \A f \in Frame : f.at \in Places
                      /\ f.fn \in {"app", "runtime", "WriteFile", "CreateFile", "spawn"}
  /\ \A f \in Frame, at \in Places : [fn |-> f.fn, at |-> at] \in Frame
  /\ \A fn \in {"app", "runtime", "WriteFile", "CreateFile", "spawn"}, at \in Places :
       [fn |-> fn, at |-> at] \in Frame
  /\ Entrance \in {"test", "original"}
BY DEF Frame, Places, Entrance

LEMMA StackTypes ==
  ASSUME TypeOK, NEW t \in Threads
  PROVE  /\ stack[t] \in Seq(Frame) /\ Len(stack[t]) \in Nat
         /\ DOMAIN stack[t] = 1 .. Len(stack[t])
         /\ \A i \in 1 .. Len(stack[t]) : stack[t][i] \in Frame
         /\ stack[t] # <<>> => Len(stack[t]) > 0 /\ Top(t) \in Frame
         /\ stack[t] = <<>> => Len(stack[t]) = 0
<1>1. stack[t] \in Seq(Frame)
  BY DEF TypeOK
<1>2. stack[t] # <<>> => Len(stack[t]) > 0
  BY <1>1, EmptySeq, LenProperties
<1> QED BY <1>1, <1>2, LenProperties, ElementOfSeq DEF Top

LEMMA BelowIs ==
  ASSUME TypeOK, NEW t \in Threads, stack[t] # <<>>
  PROVE  /\ Below(t) \in Seq(Frame) /\ Len(Below(t)) = Len(stack[t]) - 1
         /\ \A i \in 1 .. Len(stack[t]) - 1 : Below(t)[i] = stack[t][i]
<1>1. /\ stack[t] \in Seq(Frame) /\ Len(stack[t]) \in Nat \ {0}
      /\ \A i \in 1 .. Len(stack[t]) : stack[t][i] \in Frame
  BY StackTypes
<1> QED BY <1>1, SubSeqProperties DEF Below

LEMMA Pushed ==
  ASSUME NEW s \in Seq(Frame), NEW f \in Frame
  PROVE  /\ s \o <<f>> \in Seq(Frame) /\ Len(s \o <<f>>) = Len(s) + 1
         /\ \A i \in 1 .. Len(s) : (s \o <<f>>)[i] = s[i]
         /\ (s \o <<f>>)[Len(s) + 1] = f
<1>1. <<f>> \in Seq(Frame) /\ Len(<<f>>) = 1 /\ <<f>>[1] = f
  OBVIOUS
<1> QED BY <1>1, ConcatProperties, LenProperties

LEMMA GotoIs ==
  ASSUME TypeOK, NEW t \in Threads, stack[t] # <<>>, NEW at \in Places
  PROVE  /\ Goto(t, at) \in Seq(Frame) /\ Len(Goto(t, at)) = Len(stack[t])
         /\ \A i \in 1 .. Len(stack[t]) - 1 : Goto(t, at)[i] = stack[t][i]
         /\ Goto(t, at)[Len(stack[t])] = [fn |-> Top(t).fn, at |-> at]
<1> DEFINE f == [fn |-> Top(t).fn, at |-> at]
<1>1. f \in Frame
  BY StackTypes, FrameTypes
<1>2. /\ Below(t) \in Seq(Frame) /\ Len(Below(t)) = Len(stack[t]) - 1
      /\ Len(stack[t]) \in Nat \ {0}
      /\ \A i \in 1 .. Len(stack[t]) - 1 : Below(t)[i] = stack[t][i]
  BY BelowIs, StackTypes
<1> HIDE DEF f
<1>3. Goto(t, at) = Below(t) \o <<f>>
  BY DEF Goto, f
<1>4. /\ Below(t) \o <<f>> \in Seq(Frame) /\ Len(Below(t) \o <<f>>) = Len(Below(t)) + 1
      /\ \A i \in 1 .. Len(Below(t)) : (Below(t) \o <<f>>)[i] = Below(t)[i]
      /\ (Below(t) \o <<f>>)[Len(Below(t)) + 1] = f
  BY <1>1, <1>2, Pushed
<1>5. Len(Below(t)) + 1 = Len(stack[t])
  BY <1>2
<1>6. \A i \in 1 .. Len(stack[t]) - 1 : (Below(t) \o <<f>>)[i] = stack[t][i]
  BY <1>2, <1>4
<1> QED BY <1>3, <1>4, <1>5, <1>6 DEF f

ReportingIn(s) ==
  {i \in DOMAIN s : s[i].fn # "spawn" /\ s[i].at \in {"compose", "write", "clear"}}

(* What going to another place does to a stack that is well formed.        *)
LEMMA GotoKeeps ==
  ASSUME TypeOK, NEW t \in Threads, stack[t] # <<>>, StackOK(stack[t]), NEW at \in Places,
         Top(t).fn = "spawn" => at \in {"compose", "write", "original"}
  PROVE  /\ StackOK(Goto(t, at))
         /\ ReportingIn(Goto(t, at)) =
              (Reporting(t) \ {Len(stack[t])}) \cup
              (IF Top(t).fn # "spawn" /\ at \in {"compose", "write", "clear"}
               THEN {Len(stack[t])} ELSE {})
         /\ Goto(t, at) # <<>> /\ Goto(t, at)[1].fn = stack[t][1].fn
<1> DEFINE s == stack[t]
           x == Goto(t, at)
           n == Len(s)
<1>1. /\ x \in Seq(Frame) /\ Len(x) = n /\ n \in Nat \ {0}
      /\ DOMAIN x = 1 .. n /\ DOMAIN s = 1 .. n
      /\ \A i \in 1 .. n : i # n => x[i] = s[i]
      /\ x[n].fn = s[n].fn /\ x[n].at = at
  <2>1. /\ x \in Seq(Frame) /\ Len(x) = n
        /\ \A i \in 1 .. n - 1 : x[i] = s[i]
        /\ x[n] = [fn |-> s[n].fn, at |-> at]
    BY GotoIs DEF Top
  <2>2. n \in Nat \ {0} /\ DOMAIN s = 1 .. n
    BY StackTypes
  <2> HIDE DEF x
  <2>3. DOMAIN x = 1 .. n
    BY <2>1, LenProperties
  <2>4. \A i \in 1 .. n : i # n => i \in 1 .. n - 1
    BY <2>2
  <2> QED BY <2>1, <2>2, <2>3, <2>4
<1>2. \A i \in 1 .. n : x[i].fn = s[i].fn
  BY <1>1
<1> HIDE DEF x
<1>3. StackOK(x)
  <2>1. \A i \in 1 .. n : x[i].fn \in {"app", "CreateFile", "spawn"} <=> i = 1
    BY <1>1, <1>2 DEF StackOK
  <2>2. \A i \in 1 .. n - 1 : Calling(x[i], x[i + 1])
    <3> SUFFICES ASSUME NEW i \in 1 .. n - 1 PROVE Calling(x[i], x[i + 1])
      OBVIOUS
    <3>1. x[i] = s[i] /\ x[i + 1].fn = s[i + 1].fn
      BY <1>1, <1>2
    <3>2. Calling(s[i], s[i + 1])
      BY DEF StackOK
    <3> QED BY <3>1, <3>2 DEF Calling
  <2>3. \A i \in 1 .. n : x[i].fn = "spawn" => x[i].at \in {"compose", "write", "original"}
    BY <1>1, <1>2 DEF StackOK, Top
  <2> QED BY <1>1, <2>1, <2>2, <2>3 DEF StackOK
<1>4. ReportingIn(x) = (Reporting(t) \ {n}) \cup
        (IF s[n].fn # "spawn" /\ at \in {"compose", "write", "clear"} THEN {n} ELSE {})
  BY <1>1, <1>2 DEF ReportingIn, Reporting
<1>5. x # <<>> /\ x[1].fn = s[1].fn
  BY <1>1, <1>2, EmptySeq
<1> QED BY <1>3, <1>4, <1>5 DEF x, Top

(* What a call of a report does.                                           *)
LEMMA PushKeeps ==
  ASSUME NEW s \in Seq(Frame), s # <<>>, StackOK(s), NEW f \in Frame,
         f.fn \in {"runtime", "WriteFile"}, f.at \in {"test", "original"},
         Calling(s[Len(s)], f)
  PROVE  /\ StackOK(s \o <<f>>) /\ s \o <<f>> \in Seq(Frame)
         /\ ReportingIn(s \o <<f>>) = ReportingIn(s)
         /\ s \o <<f>> # <<>> /\ (s \o <<f>>)[1] = s[1]
         /\ (s \o <<f>>)[Len(s \o <<f>>)] = f
         /\ Len(s) = 1 => (s \o <<f>>)[2] = f /\ Len(s \o <<f>>) = 2
         /\ Len(s) > 1 => (s \o <<f>>)[2] = s[2] /\ Len(s \o <<f>>) > 1
<1> DEFINE x == s \o <<f>>
           n == Len(s)
<1>1. /\ x \in Seq(Frame) /\ Len(x) = n + 1 /\ n \in Nat \ {0}
      /\ DOMAIN x = 1 .. n + 1 /\ DOMAIN s = 1 .. n
      /\ \A i \in 1 .. n : x[i] = s[i]
      /\ x[n + 1] = f
  BY Pushed, EmptySeq, LenProperties
<1> HIDE DEF x
<1>2. StackOK(x)
  <2>1. \A i \in 1 .. n + 1 : x[i].fn \in {"app", "CreateFile", "spawn"} <=> i = 1
    <3> SUFFICES ASSUME NEW i \in 1 .. n + 1
                 PROVE  x[i].fn \in {"app", "CreateFile", "spawn"} <=> i = 1
      OBVIOUS
    <3>1. CASE i = n + 1
      BY <1>1, <3>1
    <3>2. CASE i # n + 1
      <4>1. i \in 1 .. n /\ x[i] = s[i]
        BY <1>1, <3>2
      <4> QED BY <4>1 DEF StackOK
    <3> QED BY <3>1, <3>2
  <2>2. \A i \in 1 .. n : Calling(x[i], x[i + 1])
    <3> SUFFICES ASSUME NEW i \in 1 .. n PROVE Calling(x[i], x[i + 1])
      OBVIOUS
    <3>1. CASE i = n
      BY <1>1, <3>1
    <3>2. CASE i # n
      <4>1. i \in 1 .. n - 1 /\ x[i] = s[i] /\ x[i + 1] = s[i + 1]
        BY <1>1, <3>2
      <4> QED BY <4>1 DEF StackOK
    <3> QED BY <3>1, <3>2
  <2>3. \A i \in 1 .. n + 1 : x[i].fn = "spawn" => x[i].at \in {"compose", "write", "original"}
    <3> SUFFICES ASSUME NEW i \in 1 .. n + 1, x[i].fn = "spawn"
                 PROVE  x[i].at \in {"compose", "write", "original"}
      OBVIOUS
    <3>1. i \in 1 .. n /\ x[i] = s[i]
      BY <1>1
    <3> QED BY <3>1 DEF StackOK
  <2> QED BY <1>1, <2>1, <2>2, <2>3 DEF StackOK
<1>3. ReportingIn(x) = ReportingIn(s)
  BY <1>1 DEF ReportingIn
<1>4. x # <<>> /\ x[1] = s[1] /\ x[Len(x)] = f
  BY <1>1, EmptySeq
<1>5. /\ n = 1 => x[2] = f /\ Len(x) = 2
      /\ n > 1 => x[2] = s[2] /\ Len(x) > 1
  BY <1>1
<1> QED BY <1>1, <1>2, <1>3, <1>4, <1>5 DEF x

(* What a return does: the frame that comes to the top goes on writing,    *)
(* clearing, or, for a spawn message, returning.                           *)
LEMMA PopKeeps ==
  ASSUME TypeOK, NEW t \in Threads, stack[t] # <<>>, StackOK(stack[t])
  PROVE  /\ StackOK(Below(t)) /\ Below(t) \in Seq(Frame)
         /\ ReportingIn(Below(t)) = Reporting(t) \ {Len(stack[t])}
         /\ Below(t) # <<>> => /\ Below(t)[1] = stack[t][1]
                               /\ Len(Below(t)) > 0
                               /\ Calling(Below(t)[Len(Below(t))], Top(t))
<1> DEFINE s == stack[t]
           x == Below(t)
           n == Len(s)
<1>1. /\ x \in Seq(Frame) /\ Len(x) = n - 1 /\ n \in Nat \ {0}
      /\ DOMAIN x = 1 .. n - 1 /\ DOMAIN s = 1 .. n
      /\ \A i \in 1 .. n - 1 : x[i] = s[i]
  BY BelowIs, StackTypes, LenProperties
<1> HIDE DEF x
<1>2. StackOK(x)
  <2>1. /\ StackOK(s) /\ 1 .. n - 1 \subseteq 1 .. n /\ Len(x) - 1 = n - 2
        /\ \A i \in 1 .. n - 2 : i \in 1 .. n - 1 /\ i + 1 \in 1 .. n - 1
    BY <1>1
  <2> HIDE DEF n
  <2>2. Len(s) = n
    BY DEF n
  <2>3. \A i \in 1 .. Len(x) : x[i].fn \in {"app", "CreateFile", "spawn"} <=> i = 1
    BY <1>1, <2>1, <2>2 DEF StackOK
  <2>4. \A i \in 1 .. Len(x) - 1 : Calling(x[i], x[i + 1])
    BY <1>1, <2>1, <2>2 DEF StackOK
  <2>5. \A i \in 1 .. Len(x) : x[i].fn = "spawn" => x[i].at \in {"compose", "write", "original"}
    BY <1>1, <2>1, <2>2 DEF StackOK
  <2> QED BY <2>3, <2>4, <2>5 DEF StackOK
<1>3. ReportingIn(x) = Reporting(t) \ {n}
  BY <1>1 DEF ReportingIn, Reporting
<1>4. ASSUME x # <<>> PROVE x[1] = s[1] /\ Len(x) > 0 /\ Calling(x[Len(x)], Top(t))
  <2>1. n > 1 /\ n - 1 \in 1 .. n - 1
    BY <1>1, <1>4, EmptySeq
  <2>2. Calling(s[n - 1], s[n])
    <3>1. Calling(s[n - 1], s[(n - 1) + 1])
      BY <2>1 DEF StackOK
    <3>2. (n - 1) + 1 = n
      BY <1>1
    <3> QED BY <3>1, <3>2
  <2> QED BY <1>1, <2>1, <2>2 DEF Top
<1> QED BY <1>1, <1>2, <1>3, <1>4 DEF x

-----------------------------------------------------------------------------
(* Steps of a thread inside a hooked function.                             *)

LEMMA Effects ==
  ASSUME TypeOK, NEW t \in Threads, NEW x \in Seq(Frame),
         stack' = [stack EXCEPT ![t] = x]
  PROVE  /\ stack' \in [Threads -> Seq(Frame)] /\ stack'[t] = x
         /\ Reporting(t)' = ReportingIn(x) /\ Reporting(t) = ReportingIn(stack[t])
         /\ \A at : At(t, at)' <=> x # <<>> /\ x[Len(x)].at = at
         /\ \A u \in Threads \ {t} :
              stack'[u] = stack[u] /\ Reporting(u)' = Reporting(u)
         /\ \A u \in Threads \ {t} : At(u, "set")' <=> At(u, "set")
<1>1. /\ stack' \in [Threads -> Seq(Frame)] /\ stack'[t] = x
      /\ \A u \in Threads \ {t} : stack'[u] = stack[u]
  BY DEF TypeOK
<1> QED BY <1>1 DEF Reporting, ReportingIn, At, Top

(* What all of these steps have in common.  The thread's frames stay in    *)
(* order and begin with the same one; the guard goes up or down with a     *)
(* report of the thread; what is due of its call is kept or forgone.       *)
LEMMA Common ==
  ASSUME IInv, TypeOK', Remember, NEW t \in Threads, stack[t] # <<>>,
         NEW x \in Seq(Frame), stack' = [stack EXCEPT ![t] = x], StackOK(x),
         x # <<>> => x[1].fn = stack[t][1].fn,
         UNCHANGED <<dll, hooked, calls>>,
         pipe' = pipe \/ dll = "linked",
         threw => threw',
         \A u \in Threads \ {t} : reported'[u] = reported[u],
         entered' /\ ~threw' =>
           Reporting(t)' # {} \/ (entered /\ Reporting(t) = {}),
         Due(t)' <= Due(t),
         Due(t)' = Due(t) \/ threw' \/ overlapped \/ pipe # "open"
  PROVE  Stacks' /\ Attaching' /\ OverlapSeen' /\ GuardHeld' /\ AtMostOnce' /\ AllReported'
<1>1. /\ stack'[t] = x
      /\ \A u \in Threads \ {t} : stack'[u] = stack[u] /\ Reporting(u)' = Reporting(u)
  BY Effects DEF IInv
<1>2. dll \notin {"loaded", "hooked", "unhooked"} /\ (dll = "attached" \/ t = Main)
  BY DEF IInv, Attaching
<1>3. Stacks'
  BY <1>1 DEF IInv, Stacks
<1>4. Attaching'
  BY <1>1, <1>2 DEF IInv, Attaching
<1>5. OverlapSeen'
  BY DEF Remember, OverlapSeen
<1>6. GuardHeld'
  BY <1>1 DEF IInv, GuardHeld
<1>7. \A u \in Threads : Due(u) \in Nat /\ Due(u)' \in Nat /\ calls[u] \in Nat
  <2>1. MaxCalls \in Nat
    BY BoundsAssumption
  <2>2. \A u \in Threads : reported[u] \in Nat /\ calls[u] \in Nat
    BY <2>1 DEF IInv, TypeOK
  <2>3. \A u \in Threads : reported'[u] \in Nat
    BY <2>1 DEF TypeOK
  <2> QED BY <2>2, <2>3 DEF Due
<1>8. \A u \in Threads \ {t} : Due(u)' = Due(u)
  BY <1>1 DEF Due
<1>9. AtMostOnce'
  BY <1>7, <1>8 DEF IInv, AtMostOnce
<1>10. AllReported'
  BY <1>2, <1>8 DEF IInv, AllReported, Remember
<1> QED BY <1>3, <1>4, <1>5, <1>6, <1>9, <1>10

(* TypeOK bounds the reports of a thread by its calls.                     *)
LEMMA ReportedBound ==
  ASSUME IInv, NEW t \in Threads
  PROVE  /\ reported[t] \in Nat /\ calls[t] \in Nat /\ calls[t] <= MaxCalls
         /\ Pending(stack[t]) => reported[t] + 1 <= MaxCalls
BY BoundsAssumption DEF IInv, TypeOK, AtMostOnce, Due

LEMMA TopOf ==
  ASSUME IInv, NEW t \in Threads, stack[t] # <<>>
  PROVE  /\ StackOK(stack[t]) /\ Top(t) \in Frame /\ Len(stack[t]) \in Nat \ {0}
         /\ Top(t) = stack[t][Len(stack[t])]
         /\ Top(t).fn = "spawn" => Top(t).at \in {"compose", "write", "original"}
         /\ Top(t).fn \in {"app", "CreateFile", "spawn"} <=> Len(stack[t]) = 1
         /\ Len(stack[t]) \in Reporting(t)
              <=> Top(t).fn # "spawn" /\ Top(t).at \in {"compose", "write", "clear"}
<1>1. /\ Len(stack[t]) \in Nat \ {0} /\ Top(t) \in Frame /\ StackOK(stack[t])
      /\ DOMAIN stack[t] = 1 .. Len(stack[t])
  BY StackTypes DEF IInv, Stacks
<1>2. Top(t) = stack[t][Len(stack[t])] /\ Len(stack[t]) \in 1 .. Len(stack[t])
  BY <1>1 DEF Top
<1>3. /\ Top(t).fn = "spawn" => Top(t).at \in {"compose", "write", "original"}
      /\ Top(t).fn \in {"app", "CreateFile", "spawn"} <=> Len(stack[t]) = 1
  BY <1>1, <1>2 DEF StackOK
<1>4. Len(stack[t]) \in Reporting(t)
        <=> Top(t).fn # "spawn" /\ Top(t).at \in {"compose", "write", "clear"}
  BY <1>1, <1>2 DEF Reporting
<1> QED BY <1>1, <1>2, <1>3, <1>4

(* Going on in the same frame: what becomes due depends on the place.      *)
LEMMA GotoDue ==
  ASSUME IInv, NEW t \in Threads, stack[t] # <<>>, NEW at \in Places
  PROVE  Pending(Goto(t, at)) <=>
           IF Len(stack[t]) = 1
           THEN Top(t).fn = "app" /\ at \in {"test", "set", "compose", "write"}
           ELSE Pending(stack[t])
<1> DEFINE x == Goto(t, at)
           n == Len(stack[t])
<1>1. /\ Len(x) = n /\ n \in Nat \ {0} /\ x # <<>>
      /\ \A i \in 1 .. n - 1 : x[i] = stack[t][i]
      /\ x[n] = [fn |-> Top(t).fn, at |-> at]
  BY GotoIs, TopOf, EmptySeq DEF IInv
<1>2. CASE n = 1
  BY <1>1, <1>2 DEF Pending
<1>3. CASE n # 1
  <2>a. n \in Nat \ {0} /\ n # 1
    BY <1>1, <1>3
  <2>b. n > 1 /\ 1 \in 1 .. n - 1 /\ (n # 2 => 2 \in 1 .. n - 1)
    <3> HIDE DEF n
    <3> QED BY <2>a
  <2>1. 1 \in 1 .. n - 1 /\ x[1] = stack[t][1] /\ n > 1
    BY <1>1, <2>b
  <2>2. x[2].fn = stack[t][2].fn
    <3>1. CASE n = 2
      BY <1>1, <3>1, TopOf
    <3>2. CASE n # 2
      <4>1. 2 \in 1 .. n - 1
        BY <2>b, <3>2
      <4> QED BY <1>1, <4>1
    <3> QED BY <3>1, <3>2
  <2> QED BY <1>1, <1>3, <2>1, <2>2 DEF Pending
<1> QED BY <1>2, <1>3

(* The rest of IInv for a step that leaves the guard and all reports.      *)
LEMMA GuardedSame ==
  ASSUME IInv, NEW t \in Threads, NEW x \in Seq(Frame), stack' = [stack EXCEPT ![t] = x],
         entered' = entered, overlapped => overlapped', Reporting(t)' = Reporting(t),
         ~overlapped /\ At(t, "set")' => Reporting(t) = {}
  PROVE  Guarded'
<1>1. \A u \in Threads : Reporting(u)' = Reporting(u)
  BY Effects DEF IInv
<1>2. \A u \in Threads \ {t} : At(u, "set")' <=> At(u, "set")
  BY Effects DEF IInv
<1> QED BY <1>1, <1>2 DEF IInv, Guarded

(* Another thread reports while t is inside a hooked function.             *)
LEMMA Meets ==
  ASSUME IInv, NEW t \in Threads, stack[t] # <<>>, NEW u \in Threads \ {t}, Reporting(u) # {}
  PROVE  overlapped
BY DEF IInv, OverlapSeen, Overlap

LEMMA TestKeeps ==
  ASSUME IInv, NEW t \in Threads, Test(t), Remember
  PROVE  IInv'
<1> DEFINE at == IF entered \/ Cardinality(Reporting(t)) = MaxReports THEN "original" ELSE "set"
           x == Goto(t, at)
           n == Len(stack[t])
<1>1. /\ stack[t] # <<>> /\ Top(t).at = "test" /\ stack' = [stack EXCEPT ![t] = x]
      /\ UNCHANGED <<dll, hooked, pipe, entered, calls, reported, threw>>
  BY DEF Test, At
<1>2. at \in Places /\ at \in {"original", "set"}
  BY DEF Places
<1>3. /\ Top(t).fn # "spawn" /\ n \notin Reporting(t) /\ n \in Nat \ {0} /\ StackOK(stack[t])
      /\ Top(t) = stack[t][n] /\ (Top(t).fn \in {"app", "CreateFile", "spawn"} <=> n = 1)
  BY <1>1, TopOf
<1> HIDE DEF at
<1>4. /\ StackOK(x) /\ x \in Seq(Frame) /\ ReportingIn(x) = Reporting(t)
      /\ x # <<>> /\ x[1].fn = stack[t][1].fn /\ Len(x) = n /\ x[n].at = at
  <2>1. x \in Seq(Frame) /\ Len(x) = n /\ x[n] = [fn |-> Top(t).fn, at |-> at]
    BY <1>1, <1>2, GotoIs DEF IInv
  <2>2. /\ StackOK(x) /\ x # <<>> /\ x[1].fn = stack[t][1].fn
        /\ ReportingIn(x) = (Reporting(t) \ {n}) \cup {}
    BY <1>1, <1>2, <1>3, GotoKeeps DEF IInv
  <2>3. Reporting(t) \ {n} = Reporting(t)
    BY <1>3
  <2> QED BY <2>1, <2>2, <2>3
<1>5. stack' \in [Threads -> Seq(Frame)] /\ stack'[t] = x /\ Reporting(t)' = Reporting(t)
  BY <1>1, <1>4, Effects DEF IInv
<1>6. TypeOK'
  BY <1>1, <1>5 DEF IInv, TypeOK, Remember
<1>7. Due(t)' <= Due(t) /\ (Due(t)' = Due(t) \/ overlapped \/ threw' \/ pipe # "open")
  <2>1. Pending(x) <=> IF n = 1 THEN Top(t).fn = "app" /\ at = "set" ELSE Pending(stack[t])
    BY <1>1, <1>2, GotoDue
  <2>2. n = 1 => (Pending(stack[t]) <=> Top(t).fn = "app")
    BY <1>1, <1>3 DEF Pending
  <2>3. CASE n = 1 /\ at = "original" /\ ~threw
    <3>1. dll # "unhooked"
      BY <1>1, ThreadsAssumption DEF IInv, Attaching
    <3>2. Reporting(t) = {}
      <4>1. DOMAIN stack[t] = 1 .. n
        BY StackTypes DEF IInv
      <4> QED BY <2>3, <1>3, <4>1 DEF Reporting
    <3>3. Cardinality(Reporting(t)) # MaxReports
      BY <3>2, FS_EmptySet, BoundsAssumption
    <3>4. entered
      BY <2>3, <3>3 DEF at
    <3>5. PICK u \in Threads : Reporting(u) # {}
      BY <2>3, <3>1, <3>4 DEF IInv, GuardHeld
    <3>6. overlapped
      BY <1>1, <3>2, <3>5, Meets
    <3>7. reported[t] \in Nat
      BY ReportedBound
    <3> QED BY <3>6, <3>7, <2>1, <2>2, <2>3, <1>1, <1>5 DEF Due
  <2>4. CASE n # 1 \/ at = "set" \/ threw
    <3>1. reported[t] \in Nat /\ reported'[t] = reported[t] /\ threw' = threw
      BY <1>1, ReportedBound
    <3>2. Pending(stack'[t]) => Pending(stack[t])
      BY <2>1, <2>2, <1>5
    <3>3. threw \/ (Pending(stack'[t]) <=> Pending(stack[t]))
      BY <2>1, <2>2, <2>4, <1>5
    <3> QED BY <3>1, <3>2, <3>3 DEF Due
  <2> QED BY <2>3, <2>4, <1>2
<1>8. Guarded'
  <2>1. ~overlapped /\ At(t, "set")' => Reporting(t) = {}
    <3> SUFFICES ASSUME ~overlapped, At(t, "set")' PROVE Reporting(t) = {}
      OBVIOUS
    <3>1. at = "set"
      <4>1. At(t, "set")' <=> stack'[t] # <<>> /\ stack'[t][Len(stack'[t])].at = "set"
        BY DEF At, Top
      <4> QED BY <4>1, <1>4, <1>5
    <3>2. ~entered
      BY <3>1 DEF at
    <3> QED BY <3>2 DEF IInv, Guarded
  <2> QED BY <2>1, <1>1, <1>4, <1>5, GuardedSame DEF Remember
<1>9. entered' /\ ~threw' => Reporting(t)' # {} \/ (entered /\ Reporting(t) = {})
  BY <1>1, <1>5
<1>10. Stacks' /\ Attaching' /\ OverlapSeen' /\ GuardHeld' /\ AtMostOnce' /\ AllReported'
  <2> HIDE DEF x
  <2> QED BY <1>1, <1>4, <1>6, <1>7, <1>9, Common
<1> QED BY <1>6, <1>8, <1>10 DEF IInv

LEMMA SetEnteredKeeps ==
  ASSUME IInv, NEW t \in Threads, SetEntered(t), Remember
  PROVE  IInv'
<1> DEFINE x == Goto(t, "compose")
           n == Len(stack[t])
<1>1. /\ stack[t] # <<>> /\ Top(t).at = "set" /\ stack' = [stack EXCEPT ![t] = x]
      /\ entered' = TRUE /\ UNCHANGED <<dll, hooked, pipe, calls, reported, threw>>
  BY DEF SetEntered, At
<1>2. "compose" \in Places
  BY DEF Places
<1>3. /\ Top(t).fn # "spawn" /\ n \notin Reporting(t) /\ n \in Nat \ {0} /\ StackOK(stack[t])
      /\ Top(t) = stack[t][n] /\ (Top(t).fn \in {"app", "CreateFile", "spawn"} <=> n = 1)
  BY <1>1, TopOf
<1>4. /\ StackOK(x) /\ x \in Seq(Frame) /\ ReportingIn(x) = Reporting(t) \cup {n}
      /\ x # <<>> /\ x[1].fn = stack[t][1].fn /\ Len(x) = n /\ x[n].at = "compose"
  <2>1. x \in Seq(Frame) /\ Len(x) = n /\ x[n] = [fn |-> Top(t).fn, at |-> "compose"]
    BY <1>1, <1>2, GotoIs DEF IInv
  <2>2. /\ StackOK(x) /\ x # <<>> /\ x[1].fn = stack[t][1].fn
        /\ ReportingIn(x) = (Reporting(t) \ {n}) \cup {n}
    BY <1>1, <1>2, <1>3, GotoKeeps DEF IInv
  <2> QED BY <2>1, <2>2
<1>5. /\ stack' \in [Threads -> Seq(Frame)] /\ stack'[t] = x
      /\ Reporting(t)' = Reporting(t) \cup {n}
      /\ \A u \in Threads \ {t} : stack'[u] = stack[u] /\ Reporting(u)' = Reporting(u)
      /\ \A u \in Threads \ {t} : At(u, "set")' <=> At(u, "set")
  BY <1>1, <1>4, Effects DEF IInv
<1>6. TypeOK'
  BY <1>1, <1>5 DEF IInv, TypeOK, Remember
<1>7. Due(t)' = Due(t)
  <2>1. Pending(x) <=> IF n = 1 THEN Top(t).fn = "app" ELSE Pending(stack[t])
    BY <1>1, <1>2, GotoDue
  <2>2. n = 1 => (Pending(stack[t]) <=> Top(t).fn = "app")
    BY <1>1, <1>3 DEF Pending
  <2> QED BY <2>1, <2>2, <1>1, <1>5 DEF Due
<1>8. Guarded'
  <2> SUFFICES ASSUME ~overlapped', NEW u \in Threads
               PROVE  /\ Reporting(u)' # {} => entered'
                      /\ At(u, "set")' => Reporting(u)' = {}
                      /\ \A i, j \in Reporting(u)' : i = j
    BY DEF Guarded
  <2>1. ~overlapped
    BY DEF Remember
  <2>2. CASE u = t
    <3>1. Reporting(t) = {}
      BY <1>1, <2>1 DEF IInv, Guarded, At
    <3>2. ~At(t, "set")'
      BY <1>4, <1>5 DEF At, Top
    <3> QED BY <2>2, <3>1, <3>2, <1>1, <1>5
  <2>3. CASE u # t
    BY <2>1, <2>3, <1>1, <1>5 DEF IInv, Guarded
  <2> QED BY <2>2, <2>3
<1>9. Due(t)' <= Due(t)
  <2>1. reported[t] \in Nat
    BY ReportedBound
  <2> QED BY <1>7, <2>1 DEF Due
<1>10. Stacks' /\ Attaching' /\ OverlapSeen' /\ GuardHeld' /\ AtMostOnce' /\ AllReported'
  <2>1. Reporting(t)' # {}
    BY <1>5
  <2> HIDE DEF x
  <2> QED BY <1>1, <1>4, <1>6, <1>7, <1>9, <2>1, Common
<1> QED BY <1>6, <1>8, <1>10 DEF IInv

(* A report goes on to its next place, and may call a hooked function as   *)
(* it does.                                                                *)
LEMMA OnwardKeeps ==
  ASSUME IInv, Remember, NEW t \in Threads, stack[t] # <<>>,
         NEW at \in Places, NEW x, NEW fn \in {"runtime", "WriteFile"},
         \/ Top(t).at = "compose" /\ at = "write" /\ fn = "runtime"
         \/ Top(t).at = "write" /\ at = AfterWrite(t) /\ fn = "WriteFile",
         \/ x = Goto(t, at) \o <<[fn |-> fn, at |-> Entrance]>>
         \/ x = Goto(t, at) /\ (at = "write" \/ pipe # "open"),
         stack' = [stack EXCEPT ![t] = x],
         UNCHANGED <<dll, hooked, pipe, entered, calls, reported, threw>>
  PROVE  IInv'
<1> DEFINE f == [fn |-> fn, at |-> Entrance]
           y == Goto(t, at)
           n == Len(stack[t])
<1>1. /\ f \in Frame /\ f.fn = fn /\ f.at \in {"test", "original"}
      /\ Calling([fn |-> Top(t).fn, at |-> at], f)
  BY FrameTypes DEF Calling, AfterWrite, Entrance, Places
<1>2. /\ Top(t).fn = "spawn" => at \in {"write", "original"}
      /\ Top(t).fn # "spawn" => at \in {"write", "clear"}
      /\ n \in Nat \ {0} /\ StackOK(stack[t]) /\ Top(t) = stack[t][n]
      /\ Top(t).fn \in {"app", "CreateFile", "spawn"} <=> n = 1
      /\ n \in Reporting(t) <=> Top(t).fn # "spawn"
  BY TopOf DEF AfterWrite
<1>3. /\ y \in Seq(Frame) /\ Len(y) = n /\ y[n] = [fn |-> Top(t).fn, at |-> at]
      /\ StackOK(y) /\ y # <<>> /\ y[1].fn = stack[t][1].fn
      /\ ReportingIn(y) = Reporting(t)
  <2>1. y \in Seq(Frame) /\ Len(y) = n /\ y[n] = [fn |-> Top(t).fn, at |-> at]
    BY GotoIs DEF IInv
  <2>2. /\ StackOK(y) /\ y # <<>> /\ y[1].fn = stack[t][1].fn
        /\ ReportingIn(y) = (Reporting(t) \ {n}) \cup
              (IF Top(t).fn # "spawn" /\ at \in {"compose", "write", "clear"} THEN {n} ELSE {})
    <3>1. Top(t).fn = "spawn" => at \in {"compose", "write", "original"}
      BY <1>2
    <3> QED BY <1>2, <3>1, GotoKeeps DEF IInv
  <2>3. ReportingIn(y) = Reporting(t)
    <3>1. CASE Top(t).fn = "spawn"
      BY <3>1, <1>2, <2>2
    <3>2. CASE Top(t).fn # "spawn"
      BY <3>2, <1>2, <2>2
    <3> QED BY <3>1, <3>2
  <2> QED BY <2>1, <2>2, <2>3
<1> HIDE DEF f, y
<1>4. x = y \o <<f>> \/ (x = y /\ (at = "write" \/ pipe # "open"))
  BY DEF f, y
<1>5. /\ y \o <<f>> \in Seq(Frame) /\ StackOK(y \o <<f>>) /\ y \o <<f>> # <<>>
      /\ ReportingIn(y \o <<f>>) = ReportingIn(y) /\ (y \o <<f>>)[1] = y[1]
      /\ (y \o <<f>>)[Len(y \o <<f>>)] = f
      /\ Len(y) = 1 => (y \o <<f>>)[2] = f /\ Len(y \o <<f>>) = 2
      /\ Len(y) > 1 => (y \o <<f>>)[2] = y[2] /\ Len(y \o <<f>>) > 1
  <2>1. f.fn \in {"runtime", "WriteFile"} /\ Calling(y[Len(y)], f)
    BY <1>1, <1>3
  <2> QED BY <1>1, <1>3, <2>1, PushKeeps
<1>6. /\ x \in Seq(Frame) /\ StackOK(x) /\ x # <<>> /\ x[1].fn = stack[t][1].fn
      /\ ReportingIn(x) = Reporting(t) /\ x[Len(x)].at # "set"
  <2>1. CASE x = y
    BY <2>1, <1>2, <1>3
  <2>2. CASE x = y \o <<f>>
    BY <2>2, <1>1, <1>3, <1>5
  <2> QED BY <2>1, <2>2, <1>4
<1>7. stack' \in [Threads -> Seq(Frame)] /\ stack'[t] = x /\ Reporting(t)' = Reporting(t)
  BY <1>6, Effects DEF IInv
<1>8. TypeOK'
  BY <1>7 DEF IInv, TypeOK, Remember
<1>9. Due(t)' <= Due(t) /\ (Due(t)' = Due(t) \/ pipe # "open")
  <2>1. Pending(y) <=> IF n = 1 THEN Top(t).fn = "app" /\ at = "write" ELSE Pending(stack[t])
    <3>1. Pending(y) <=> IF n = 1 THEN Top(t).fn = "app" /\ at \in {"test", "set", "compose", "write"}
                                  ELSE Pending(stack[t])
      BY GotoDue DEF y
    <3> QED BY <3>1, <1>2
  <2>2. n = 1 => (Pending(stack[t]) <=> Top(t).fn = "app")
    BY <1>2 DEF Pending
  <2>3. (Pending(x) <=> Pending(stack[t])) \/ (pipe # "open" /\ ~Pending(x))
    <3>1. CASE x = y
      <4>1. CASE n # 1 \/ at = "write"
        BY <4>1, <3>1, <2>1, <2>2
      <4>2. CASE n = 1 /\ at # "write"
        BY <4>2, <3>1, <2>1, <1>4, <1>5
      <4> QED BY <4>1, <4>2
    <3>2. CASE x = y \o <<f>> /\ n # 1
      <4>1. Len(y) > 1
        BY <3>2, <1>2, <1>3
      <4>2. Pending(x) <=> Pending(y)
        BY <3>2, <4>1, <1>3, <1>5 DEF Pending
      <4> QED BY <3>2, <4>2, <2>1
    <3>3. CASE x = y \o <<f>> /\ n = 1
      <4>1. /\ x[1].fn = Top(t).fn /\ x[1].at = at /\ x[2].fn = fn /\ Len(x) = 2
            /\ x # <<>>
        BY <3>3, <1>1, <1>3, <1>5
      <4>2. at = "write" \/ fn = "WriteFile"
        OBVIOUS
      <4> QED BY <3>3, <4>1, <4>2, <2>2 DEF Pending
    <3> QED BY <3>1, <3>2, <3>3, <1>4
  <2>4. reported[t] \in Nat /\ reported'[t] = reported[t] /\ stack'[t] = x
    BY <1>7, ReportedBound
  <2> QED BY <2>3, <2>4 DEF Due
<1>10. Guarded'
  <2>1. ~At(t, "set")'
    BY <1>6, <1>7 DEF At, Top
  <2> QED BY <2>1, <1>6, <1>7, GuardedSame DEF Remember
<1>11. Stacks' /\ Attaching' /\ OverlapSeen' /\ GuardHeld' /\ AtMostOnce' /\ AllReported'
  <2>1. entered' /\ ~threw' => Reporting(t)' # {} \/ (entered /\ Reporting(t) = {})
    BY <1>7
  <2> QED BY <1>6, <1>8, <1>9, <2>1, Common
<1> QED BY <1>8, <1>10, <1>11 DEF IInv

LEMMA ComposeKeeps ==
  ASSUME IInv, NEW t \in Threads, Compose(t), Remember
  PROVE  IInv'
<1> DEFINE x == stack'[t]
<1>1. /\ stack[t] # <<>> /\ Top(t).at = "compose"
      /\ UNCHANGED <<dll, hooked, pipe, entered, calls, reported, threw>>
  BY DEF Compose, At
<1>2. "write" \in Places
  BY DEF Places
<1>3. CASE stack' = [stack EXCEPT ![t] = Goto(t, "write")]
  BY <1>1, <1>2, <1>3, OnwardKeeps
<1>4. CASE stack' = [stack EXCEPT ![t] =
                       Goto(t, "write") \o <<[fn |-> "runtime", at |-> Entrance]>>]
  BY <1>1, <1>2, <1>4, OnwardKeeps
<1> QED BY <1>3, <1>4 DEF Compose

LEMMA WritePipeKeeps ==
  ASSUME IInv, NEW t \in Threads, WritePipe(t), Remember
  PROVE  IInv'
<1> DEFINE y == Goto(t, AfterWrite(t))
<1>1. /\ stack[t] # <<>> /\ Top(t).at = "write"
      /\ UNCHANGED <<dll, hooked, pipe, entered, calls, reported, threw>>
  BY DEF WritePipe, At
<1>2. AfterWrite(t) \in Places
  BY DEF Places, AfterWrite
<1>3. CASE pipe = "invalid"
  <2>1. y \o <<>> = y
    <3>1. y \in Seq(Frame)
      BY <1>1, <1>2, GotoIs DEF IInv
    <3> HIDE DEF y
    <3> QED BY <3>1, ConcatEmptySeq
  <2>2. stack' = [stack EXCEPT ![t] = y]
    BY <1>3, <2>1 DEF WritePipe
  <2> QED BY <1>1, <1>2, <1>3, <2>2, OnwardKeeps
<1>4. CASE pipe # "invalid"
  <2>1. stack' = [stack EXCEPT ![t] = y \o <<[fn |-> "WriteFile", at |-> Entrance]>>]
    BY <1>4 DEF WritePipe
  <2> QED BY <1>1, <1>2, <2>1, OnwardKeeps
<1> QED BY <1>3, <1>4

LEMMA ClearEnteredKeeps ==
  ASSUME IInv, NEW t \in Threads, ClearEntered(t), Remember
  PROVE  IInv'
<1> DEFINE x == Goto(t, "original")
           n == Len(stack[t])
<1>1. /\ stack[t] # <<>> /\ Top(t).at = "clear" /\ stack' = [stack EXCEPT ![t] = x]
      /\ entered' = FALSE /\ UNCHANGED <<dll, hooked, pipe, calls, reported, threw>>
  BY DEF ClearEntered, At
<1>2. "original" \in Places
  BY DEF Places
<1>3. /\ Top(t).fn # "spawn" /\ n \in Reporting(t) /\ n \in Nat \ {0} /\ StackOK(stack[t])
      /\ Top(t) = stack[t][n] /\ (Top(t).fn \in {"app", "CreateFile", "spawn"} <=> n = 1)
  BY <1>1, TopOf
<1>4. /\ StackOK(x) /\ x \in Seq(Frame) /\ ReportingIn(x) = Reporting(t) \ {n}
      /\ x # <<>> /\ x[1].fn = stack[t][1].fn /\ Len(x) = n /\ x[n].at = "original"
  <2>1. x \in Seq(Frame) /\ Len(x) = n /\ x[n] = [fn |-> Top(t).fn, at |-> "original"]
    BY <1>1, <1>2, GotoIs DEF IInv
  <2>2. /\ StackOK(x) /\ x # <<>> /\ x[1].fn = stack[t][1].fn
        /\ ReportingIn(x) = (Reporting(t) \ {n}) \cup {}
    BY <1>1, <1>2, <1>3, GotoKeeps DEF IInv
  <2> QED BY <2>1, <2>2
<1>5. /\ stack' \in [Threads -> Seq(Frame)] /\ stack'[t] = x
      /\ Reporting(t)' = Reporting(t) \ {n}
      /\ \A u \in Threads \ {t} : stack'[u] = stack[u] /\ Reporting(u)' = Reporting(u)
      /\ \A u \in Threads \ {t} : At(u, "set")' <=> At(u, "set")
  BY <1>1, <1>4, Effects DEF IInv
<1>6. TypeOK'
  BY <1>1, <1>5 DEF IInv, TypeOK, Remember
<1>7. Due(t)' = Due(t)
  <2>1. Pending(x) <=> IF n = 1 THEN FALSE ELSE Pending(stack[t])
    BY <1>1, <1>2, GotoDue
  <2>2. n = 1 => ~Pending(stack[t])
    BY <1>1, <1>3 DEF Pending
  <2> QED BY <2>1, <2>2, <1>1, <1>5 DEF Due
<1>8. Guarded'
  <2> SUFFICES ASSUME ~overlapped', NEW u \in Threads PROVE Reporting(u)' = {}
    BY DEF Guarded
  <2>1. ~overlapped
    BY DEF Remember
  <2>2. CASE u = t
    BY <2>1, <2>2, <1>3, <1>5 DEF IInv, Guarded
  <2>3. CASE u # t
    BY <2>1, <2>3, <1>1, <1>5, Meets
  <2> QED BY <2>2, <2>3
<1>9. Due(t)' <= Due(t)
  <2>1. reported[t] \in Nat
    BY ReportedBound
  <2> QED BY <1>7, <2>1 DEF Due
<1>10. Stacks' /\ Attaching' /\ OverlapSeen' /\ GuardHeld' /\ AtMostOnce' /\ AllReported'
  <2> HIDE DEF x
  <2> QED BY <1>1, <1>4, <1>6, <1>7, <1>9, Common
<1> QED BY <1>6, <1>8, <1>10 DEF IInv

(* A frame is left: no report of the thread is affected but its own.       *)
LEMMA Popped ==
  ASSUME IInv, NEW t \in Threads, stack[t] # <<>>,
         stack' = [stack EXCEPT ![t] = Below(t)]
  PROVE  /\ stack' \in [Threads -> Seq(Frame)] /\ stack'[t] = Below(t)
         /\ Reporting(t)' = Reporting(t) \ {Len(stack[t])}
         /\ \A u \in Threads \ {t} : stack'[u] = stack[u] /\ Reporting(u)' = Reporting(u)
         /\ \A u \in Threads \ {t} : At(u, "set")' <=> At(u, "set")
         /\ ~At(t, "set")'
<1>1. /\ Below(t) \in Seq(Frame) /\ ReportingIn(Below(t)) = Reporting(t) \ {Len(stack[t])}
      /\ Below(t) # <<>> => Calling(Below(t)[Len(Below(t))], Top(t))
  BY PopKeeps DEF IInv, Stacks
<1>2. Below(t) # <<>> => Below(t)[Len(Below(t))].at # "set"
  BY <1>1 DEF Calling
<1>3. /\ stack' \in [Threads -> Seq(Frame)] /\ stack'[t] = Below(t)
      /\ Reporting(t)' = ReportingIn(Below(t))
      /\ \A u \in Threads \ {t} : stack'[u] = stack[u] /\ Reporting(u)' = Reporting(u)
      /\ \A u \in Threads \ {t} : At(u, "set")' <=> At(u, "set")
  BY <1>1, Effects DEF IInv
<1>4. ~At(t, "set")'
  BY <1>2, <1>3 DEF At, Top
<1> QED BY <1>1, <1>3, <1>4

LEMMA ComposeThrowsKeeps ==
  ASSUME IInv, NEW t \in Threads, ComposeThrows(t), Remember
  PROVE  IInv'
<1> DEFINE x == Below(t)
           n == Len(stack[t])
<1>1. /\ stack[t] # <<>> /\ Top(t).at = "compose" /\ Top(t).fn = "app"
      /\ stack' = [stack EXCEPT ![t] = x] /\ threw' = TRUE
      /\ UNCHANGED <<dll, hooked, pipe, entered, calls, reported>>
  BY DEF ComposeThrows, At
<1>2. n = 1 /\ n \in Reporting(t) /\ StackOK(stack[t]) /\ Top(t) = stack[t][n]
  BY <1>1, TopOf
<1>3. x \in Seq(Frame) /\ StackOK(x) /\ x = <<>>
  <2>1. x \in Seq(Frame) /\ Len(x) = n - 1
    BY <1>1, BelowIs DEF IInv
  <2>2. StackOK(x)
    BY <1>1, <1>2, PopKeeps DEF IInv
  <2> HIDE DEF x
  <2>3. Len(x) = 0
    BY <2>1, <1>2
  <2> QED BY <2>1, <2>2, <2>3, EmptySeq
<1>4. /\ stack' \in [Threads -> Seq(Frame)] /\ stack'[t] = x
      /\ Reporting(t)' = Reporting(t) \ {n}
      /\ \A u \in Threads \ {t} : stack'[u] = stack[u] /\ Reporting(u)' = Reporting(u)
      /\ \A u \in Threads \ {t} : At(u, "set")' <=> At(u, "set")
      /\ ~At(t, "set")'
  BY <1>1, Popped
<1>5. TypeOK'
  BY <1>1, <1>4 DEF IInv, TypeOK, Remember
<1>6. Due(t)' <= Due(t)
  <2>1. reported[t] \in Nat /\ reported' = reported
    BY <1>1, ReportedBound
  <2>2. ~Pending(x)
    BY <1>3 DEF Pending
  <2> QED BY <2>1, <2>2, <1>4 DEF Due
<1>7. Guarded'
  <2> SUFFICES ASSUME ~overlapped', NEW u \in Threads
               PROVE  /\ Reporting(u)' # {} => entered'
                      /\ At(u, "set")' => Reporting(u)' = {}
                      /\ \A i, j \in Reporting(u)' : i = j
    BY DEF Guarded
  <2>1. /\ Reporting(u) # {} => entered
        /\ At(u, "set") => Reporting(u) = {}
        /\ \A i, j \in Reporting(u) : i = j
    BY DEF Remember, IInv, Guarded
  <2>2. CASE u = t
    BY <2>1, <2>2, <1>1, <1>4
  <2>3. CASE u # t
    BY <2>1, <2>3, <1>1, <1>4
  <2> QED BY <2>2, <2>3
<1>8. Stacks' /\ Attaching' /\ OverlapSeen' /\ GuardHeld' /\ AtMostOnce' /\ AllReported'
  <2> HIDE DEF x
  <2> QED BY <1>1, <1>3, <1>5, <1>6, Common
<1> QED BY <1>5, <1>7, <1>8 DEF IInv

LEMMA OriginalKeeps ==
  ASSUME IInv, NEW t \in Threads, Original(t), Remember
  PROVE  IInv'
<1> DEFINE s == stack[t]
           x == Below(t)
           n == Len(s)
<1>1. /\ s # <<>> /\ Top(t).at = "original" /\ stack' = [stack EXCEPT ![t] = x]
      /\ UNCHANGED <<dll, hooked, entered, calls, threw>>
      /\ pipe' \in IF Top(t).fn = "CreateFile" THEN {"open", "invalid"} ELSE {pipe}
  BY DEF Original, At
<1>2. /\ n \notin Reporting(t) /\ n \in Nat \ {0} /\ StackOK(s) /\ Top(t) = s[n]
      /\ Top(t).fn \in {"app", "CreateFile", "spawn"} <=> n = 1
      /\ Top(t).fn \in {"app", "runtime", "WriteFile", "CreateFile", "spawn"}
  BY <1>1, TopOf, FrameTypes
<1>3. /\ x \in Seq(Frame) /\ Len(x) = n - 1 /\ StackOK(x)
      /\ \A i \in 1 .. n - 1 : x[i] = s[i]
      /\ x # <<>> => x[1] = s[1]
  BY <1>1, <1>2, PopKeeps, BelowIs DEF IInv
<1>4. /\ stack' \in [Threads -> Seq(Frame)] /\ stack'[t] = x
      /\ Reporting(t)' = Reporting(t)
      /\ ~At(t, "set")'
  <2>1. /\ stack' \in [Threads -> Seq(Frame)] /\ stack'[t] = x
        /\ Reporting(t)' = Reporting(t) \ {n}
        /\ ~At(t, "set")'
    BY <1>1, Popped
  <2>2. Reporting(t) \ {n} = Reporting(t)
    BY <1>2
  <2> QED BY <2>1, <2>2
<1>5. pipe' = pipe \/ (dll = "linked" /\ pipe' \in {"open", "invalid"})
  <2>1. CASE Top(t).fn = "CreateFile"
    <3>1. s[1].fn = "CreateFile"
      BY <2>1, <1>2
    <3> QED BY <3>1, <2>1, <1>1 DEF IInv, Attaching
  <2>2. CASE Top(t).fn # "CreateFile"
    BY <2>2, <1>1
  <2> QED BY <2>1, <2>2
<1> DEFINE counts == Top(t).fn = "WriteFile" /\ pipe = "open" /\ x[n - 1].fn = "app"
<1>6. reported' = IF counts THEN [reported EXCEPT ![t] = @ + 1] ELSE reported
  BY DEF Original
<1>a. n = 1 \/ (n > 1 /\ n - 1 \in 1 .. n - 1 /\ n - 1 \in 1 .. n /\ 1 \in 1 .. n - 1 /\ (n - 1) + 1 = n
                /\ (n # 2 => n > 2 /\ 2 \in 1 .. n - 1 /\ n - 1 # 1))
  <2> HIDE DEF n
  <2> QED BY <1>2
<1>7. n # 1 => /\ x[n - 1] = s[n - 1] /\ Calling(s[n - 1], s[n])
               /\ s[n - 1].fn \in {"app", "CreateFile", "spawn"} <=> n = 2
  <2> SUFFICES ASSUME n # 1
               PROVE  /\ x[n - 1] = s[n - 1] /\ Calling(s[n - 1], s[n])
                      /\ s[n - 1].fn \in {"app", "CreateFile", "spawn"} <=> n = 2
    OBVIOUS
  <2>1. n - 1 \in 1 .. n - 1 /\ n - 1 \in 1 .. n /\ (n - 1) + 1 = n /\ (n - 1 = 1 <=> n = 2)
    BY <1>a
  <2>2. x[n - 1] = s[n - 1]
    BY <2>1, <1>3
  <2>3. Calling(s[n - 1], s[(n - 1) + 1])
    BY <2>1, <1>2 DEF StackOK
  <2>4. s[n - 1].fn \in {"app", "CreateFile", "spawn"} <=> n - 1 = 1
    BY <2>1, <1>2 DEF StackOK
  <2> QED BY <2>1, <2>2, <2>3, <2>4
<1>8. counts => n = 2 /\ Pending(s) /\ ~Pending(x)
  <2> SUFFICES ASSUME counts PROVE n = 2 /\ Pending(s) /\ ~Pending(x)
    OBVIOUS
  <2>1. n # 1
    BY <1>2
  <2>2. n = 2 /\ x[1].fn = "app" /\ s[1] = x[1] /\ s[2].fn = "WriteFile"
    <3>1. x[n - 1].fn = "app" /\ s[n].fn = "WriteFile" /\ x[n - 1] = s[n - 1]
      BY <2>1, <1>2, <1>7
    <3>2. n = 2
      BY <2>1, <3>1, <1>7
    <3>3. x[1].fn = "app" /\ s[1] = x[1]
      <4>1. n - 1 = 1
        BY <3>2
      <4> QED BY <3>1, <4>1
    <3> QED BY <3>1, <3>2, <3>3
  <2>3. s[1].at = "clear"
    BY <2>1, <2>2, <1>7 DEF Calling
  <2> QED BY <2>2, <2>3, <1>1, <1>3 DEF Pending
<1>9. ~counts => (Pending(x) <=> Pending(s)) \/ (pipe # "open" /\ ~Pending(x))
  <2> SUFFICES ASSUME ~counts
               PROVE  (Pending(x) <=> Pending(s)) \/ (pipe # "open" /\ ~Pending(x))
    OBVIOUS
  <2>1. CASE n = 1
    <3>1. x = <<>>
      BY <2>1, <1>3, EmptySeq
    <3>2. ~Pending(s)
      BY <2>1, <1>1, <1>2 DEF Pending
    <3> QED BY <3>1, <3>2 DEF Pending
  <2>2. CASE n = 2
    <3>1. /\ x # <<>> /\ Len(x) = 1 /\ x[1] = s[1] /\ Calling(s[1], s[2])
          /\ Top(t) = s[2] /\ s[2].fn \in {"runtime", "WriteFile"}
      BY <2>2, <1>2, <1>3, <1>7, EmptySeq
    <3>2. CASE s[2].fn = "runtime"
      BY <3>1, <3>2, <2>2, <1>1 DEF Pending, Calling
    <3>3. CASE s[2].fn = "WriteFile"
      <4>1. s[1].fn = "app" => pipe # "open" /\ s[1].at = "clear"
        BY <3>1, <3>3, <2>2 DEF Calling
      <4> QED BY <3>1, <4>1 DEF Pending
    <3> QED BY <3>1, <3>2, <3>3
  <2>3. CASE n # 1 /\ n # 2
    <3>1. n > 2 /\ 2 \in 1 .. n - 1 /\ 1 \in 1 .. n - 1
      BY <2>3, <1>a
    <3>2. x[1] = s[1] /\ x[2] = s[2]
      BY <3>1, <1>3
    <3>3. Len(x) > 1 /\ x # <<>>
      BY <3>1, <1>2, <1>3, EmptySeq
    <3> QED BY <3>1, <3>2, <3>3, <1>1 DEF Pending
  <2> QED BY <2>1, <2>2, <2>3
<1> HIDE DEF counts, x, n, s
<1>10. /\ reported[t] \in Nat /\ calls[t] \in Nat /\ calls[t] <= MaxCalls
       /\ Pending(s) => reported[t] + 1 <= MaxCalls
       /\ reported \in [Threads -> 0 .. MaxCalls]
  BY ReportedBound DEF IInv, TypeOK, s
<1>11. /\ reported' \in [Threads -> 0 .. MaxCalls]
       /\ \A u \in Threads \ {t} : reported'[u] = reported[u]
       /\ reported'[t] = IF counts THEN reported[t] + 1 ELSE reported[t]
  <2>1. CASE counts
    BY <2>1, <1>6, <1>8, <1>10, BoundsAssumption
  <2>2. CASE ~counts
    BY <2>2, <1>6, <1>10
  <2> QED BY <2>1, <2>2
<1>12. TypeOK'
  <2>1. pipe' \in {"null", "open", "invalid", "closed"}
    BY <1>5 DEF IInv, TypeOK
  <2> QED BY <2>1, <1>1, <1>4, <1>11 DEF IInv, TypeOK, Remember
<1>13. Due(t)' <= Due(t) /\ (Due(t)' = Due(t) \/ pipe # "open")
  <2>1. CASE counts
    BY <2>1, <1>4, <1>8, <1>10, <1>11 DEF Due, s
  <2>2. CASE ~counts
    BY <2>2, <1>4, <1>9, <1>10, <1>11 DEF Due, s
  <2> QED BY <2>1, <2>2
<1>14. Guarded'
  BY <1>1, <1>3, <1>4, GuardedSame DEF Remember
<1>15. Stacks' /\ Attaching' /\ OverlapSeen' /\ GuardHeld' /\ AtMostOnce' /\ AllReported'
  <2>1. x # <<>> => x[1].fn = stack[t][1].fn
    BY <1>3 DEF s
  <2>2. pipe' = pipe \/ dll = "linked"
    BY <1>5
  <2>3. entered' /\ ~threw' => Reporting(t)' # {} \/ (entered /\ Reporting(t) = {})
    BY <1>1, <1>4
  <2>4. stack[t] # <<>>
    BY <1>1 DEF s
  <2> QED BY <1>1, <1>3, <1>11, <1>12, <1>13, <2>1, <2>2, <2>3, <2>4, Common
<1> QED BY <1>12, <1>14, <1>15 DEF IInv

-----------------------------------------------------------------------------
(* Steps that put a first frame on an empty stack, or touch no stack.      *)

LEMMA EmptyStack ==
  StackOK(<<>>) /\ <<>> \in Seq(Frame) /\ ReportingIn(<<>>) = {} /\ ~Pending(<<>>)
<1>1. Len(<<>>) = 0 /\ DOMAIN <<>> = {} /\ <<>> \in Seq(Frame)
  OBVIOUS
<1> QED BY <1>1 DEF StackOK, ReportingIn, Pending

LEMMA FirstFrame ==
  ASSUME NEW f \in Frame, f.fn \in {"app", "CreateFile", "spawn"},
         IF f.fn = "spawn" THEN f.at = "compose" ELSE f.at = Entrance
  PROVE  /\ StackOK(<<f>>) /\ <<f>> \in Seq(Frame) /\ ReportingIn(<<f>>) = {}
         /\ <<f>> # <<>> /\ <<f>>[1] = f /\ <<f>>[Len(<<f>>)].at # "set"
         /\ Pending(<<f>>) <=> f.fn = "app" /\ hooked
<1> DEFINE x == <<f>>
<1>1. x \in Seq(Frame) /\ Len(x) = 1 /\ DOMAIN x = {1} /\ x[1] = f /\ x # <<>>
  OBVIOUS
<1> HIDE DEF x
<1>2. StackOK(x)
  BY <1>1 DEF StackOK
<1>3. ReportingIn(x) = {} /\ x[Len(x)].at # "set"
  BY <1>1 DEF ReportingIn, Entrance
<1>4. Pending(x) <=> f.fn = "app" /\ hooked
  BY <1>1 DEF Pending, Entrance
<1> QED BY <1>1, <1>2, <1>3, <1>4 DEF x

LEMMA EnterKeeps ==
  ASSUME IInv, Remember, NEW t \in Threads, stack[t] = <<>>,
         NEW fn \in {"app", "CreateFile", "spawn"}, NEW at,
         at = IF fn = "spawn" THEN "compose" ELSE Entrance, Enter(t, fn, at),
         \/ fn = "app" /\ dll = "attached" /\ dll' = dll /\ calls[t] < MaxCalls
                       /\ calls' = [calls EXCEPT ![t] = @ + 1]
         \/ t = Main /\ fn = "CreateFile" /\ dll = "hooked" /\ dll' = "linked" /\ calls' = calls
         \/ t = Main /\ fn = "spawn" /\ dll = "linked" /\ dll' = "spawned" /\ calls' = calls,
         UNCHANGED <<hooked, pipe, entered, reported, threw>>
  PROVE  IInv'
<1> DEFINE f == [fn |-> fn, at |-> at]
           x == <<f>>
<1>1. f \in Frame /\ f.fn = fn /\ f.at = at
  BY DEF Frame, Entrance
<1> HIDE DEF f
<1>2. /\ StackOK(x) /\ x \in Seq(Frame) /\ ReportingIn(x) = {}
      /\ x # <<>> /\ x[1] = f /\ x[Len(x)].at # "set"
      /\ Pending(x) <=> fn = "app" /\ hooked
  BY <1>1, FirstFrame
<1> HIDE DEF x
<1>3. stack' = [stack EXCEPT ![t] = x]
  BY DEF Enter, x, f
<1>4. /\ stack' \in [Threads -> Seq(Frame)] /\ stack'[t] = x
      /\ Reporting(t)' = {} /\ Reporting(t) = {}
      /\ \A u \in Threads \ {t} : stack'[u] = stack[u] /\ Reporting(u)' = Reporting(u)
      /\ ~At(t, "set")'
  BY <1>2, <1>3, Effects, EmptyStack DEF IInv
<1>5. \A u \in Threads : /\ reported[u] \in Nat /\ calls[u] \in Nat /\ calls[u] <= MaxCalls
                         /\ reported'[u] = reported[u]
  BY ReportedBound
<1>6. /\ calls' \in [Threads -> 0 .. MaxCalls]
      /\ calls'[t] = IF fn = "app" THEN calls[t] + 1 ELSE calls[t]
      /\ \A u \in Threads \ {t} : calls'[u] = calls[u]
  BY <1>5, BoundsAssumption DEF IInv, TypeOK
<1>7. TypeOK'
  <2>1. dll' \in {"loaded", "hooked", "linked", "spawned", "attached", "unhooked"}
    BY DEF IInv, TypeOK
  <2> QED BY <2>1, <1>4, <1>6 DEF IInv, TypeOK, Remember
<1>8. /\ Due(t) = reported[t]
      /\ Due(t)' = IF fn = "app" /\ hooked THEN reported[t] + 1 ELSE reported[t]
      /\ \A u \in Threads \ {t} : Due(u)' = Due(u)
  BY <1>2, <1>4, <1>5, EmptyStack DEF Due
<1>9. Stacks'
  BY <1>2, <1>4 DEF IInv, Stacks
<1>a. Attaching /\ fn \in {"app", "CreateFile", "spawn"} /\ dll' \in {"attached", "linked", "spawned"}
  BY DEF IInv
<1>b. /\ dll # "attached" => \A u \in Threads \ {Main} : stack[u] = <<>>
      /\ dll # "attached" => t = Main /\ fn # "app" /\ calls' = calls
      /\ dll \in {"hooked", "linked", "spawned"} =>
           \A u \in Threads : /\ calls[u] = 0
                              /\ stack[u] # <<>> => stack[u][1].fn # "app"
      /\ dll = "attached" => dll' = "attached"
      /\ dll # "attached" => dll \in {"hooked", "linked"}
  BY <1>a DEF Attaching
<1>c. \A u \in Threads : stack'[u] # <<>> =>
        stack'[u][1].fn = IF u = t THEN fn ELSE stack[u][1].fn
  BY <1>1, <1>2, <1>4
<1>10. Attaching'
  <2>1. dll' \in {"loaded", "hooked", "unhooked"} => stack'[Main] = <<>>
    BY <1>a
  <2>2. dll' # "attached" => \A u \in Threads \ {Main} : stack'[u] = <<>>
    BY <1>4, <1>b
  <2>3. dll' \in {"loaded", "hooked", "linked", "spawned"} =>
          \A u \in Threads : /\ calls'[u] = 0
                             /\ stack'[u] # <<>> => stack'[u][1].fn # "app"
    BY <1>4, <1>b, <1>c
  <2>4. \A u \in Threads : stack'[u] # <<>> /\ stack'[u][1].fn = "CreateFile" => dll' = "linked"
    <3> SUFFICES ASSUME NEW u \in Threads, stack'[u] # <<>>, stack'[u][1].fn = "CreateFile"
                 PROVE  dll' = "linked"
      OBVIOUS
    <3>1. CASE u = t
      BY <3>1, <1>c
    <3>2. CASE u # t
      <4>1. dll = "linked" /\ stack[u] # <<>>
        BY <3>2, <1>a, <1>c, <1>4 DEF Attaching
      <4>2. t = Main /\ u # Main
        BY <4>1, <3>2, <1>b
      <4> QED BY <4>1, <4>2, <1>b
    <3> QED BY <3>1, <3>2
  <2> QED BY <2>1, <2>2, <2>3, <2>4 DEF Attaching
<1>11. OverlapSeen'
  BY DEF Remember, OverlapSeen
<1>12. GuardHeld'
  BY <1>4 DEF IInv, GuardHeld
<1>13. Guarded'
  BY <1>2, <1>3, <1>4, GuardedSame DEF Remember
<1>14. AtMostOnce'
  BY <1>5, <1>6, <1>8 DEF IInv, AtMostOnce
<1>15. AllReported'
  BY <1>5, <1>6, <1>8 DEF IInv, AllReported, Remember
<1> QED BY <1>7, <1>9, <1>10, <1>11, <1>12, <1>13, <1>14, <1>15 DEF IInv

LEMMA IdleKeeps ==
  ASSUME IInv, (overlapped' = overlapped) \/ Remember,
         UNCHANGED <<entered, stack, calls, reported, threw>>, TypeOK',
         Attaching', GuardHeld', AllReported'
  PROVE  IInv'
<1>1. OverlapSeen' /\ (overlapped => overlapped')
  BY DEF IInv, OverlapSeen, Overlap, Remember, Reporting
<1>2. Stacks'
  BY DEF IInv, Stacks
<1>3. Guarded'
  BY <1>1 DEF IInv, Guarded, Reporting, At, Top
<1>4. AtMostOnce'
  BY DEF IInv, AtMostOnce, Due
<1> QED BY <1>1, <1>2, <1>3, <1>4 DEF IInv

LEMMA DllMainKeeps ==
  ASSUME IInv, DllMain, Remember
  PROVE  IInv'
<1>1. CASE Hook
  <2>1. TypeOK' /\ Attaching' /\ AllReported'
    BY <1>1 DEF Hook, Remember, IInv, TypeOK, Attaching, AllReported
  <2>2. GuardHeld'
    BY <1>1 DEF Hook, IInv, GuardHeld, Reporting
  <2> QED BY <1>1, <2>1, <2>2, IdleKeeps DEF Hook
<1>2. CASE StartIpc
  <2>1. stack[Main] = <<>>
    BY <1>2 DEF StartIpc, IInv, Attaching
  <2> QED BY <1>2, <2>1, EnterKeeps, ThreadsAssumption DEF StartIpc
<1>3. CASE SendSpawnMessage
  BY <1>3, EnterKeeps, ThreadsAssumption DEF SendSpawnMessage
<1>4. CASE Attached
  <2>1. TypeOK' /\ GuardHeld'
    BY <1>4 DEF Attached, Remember, IInv, TypeOK, GuardHeld, Reporting
  <2>2. \A t \in Threads : stack[t] = <<>> /\ calls[t] = 0
    BY <1>4 DEF Attached, IInv, Attaching
  <2>3. Attaching'
    BY <1>4, <2>2 DEF Attached, Attaching
  <2>4. AllReported'
    <3>1. \A t \in Threads : Due(t) = reported[t] /\ reported[t] \in Nat /\ Due(t) <= calls[t]
      BY <2>2, EmptyStack, ReportedBound DEF Due, IInv, AtMostOnce
    <3>2. \A t \in Threads : Due(t) = calls[t]
      BY <2>2, <3>1
    <3> QED BY <3>2, <1>4 DEF Attached, AllReported, Due
  <2> QED BY <1>4, <2>1, <2>3, <2>4, IdleKeeps DEF Attached
<1>5. CASE Detach
  <2>1. \A t \in Threads : stack'[t] = <<>> /\ Reporting(t)' = {} /\ Due(t)' = reported[t]
    <3>1. \A t \in Threads : stack'[t] = <<>> /\ reported'[t] = reported[t]
      BY <1>5 DEF Detach
    <3>2. \A t \in Threads : Reporting(t)' = {}
      BY <3>1, EmptyStack DEF Reporting, ReportingIn
    <3>3. \A t \in Threads : Due(t)' = reported[t]
      <4>1. \A t \in Threads : reported[t] + 0 = reported[t]
        BY ReportedBound
      <4> QED BY <3>1, <4>1, EmptyStack DEF Due
    <3> QED BY <3>1, <3>2, <3>3
  <2>2. TypeOK' /\ Attaching' /\ GuardHeld' /\ AllReported' /\ OverlapSeen'
    <3>1. TypeOK'
      BY <1>5, EmptyStack DEF Detach, Remember, IInv, TypeOK
    <3> QED BY <1>5, <2>1, <3>1, ThreadsAssumption
            DEF Detach, Remember, Attaching, GuardHeld, AllReported, OverlapSeen
  <2>3. Stacks'
    BY <2>1, EmptyStack DEF Stacks
  <2>4. Guarded'
    BY <2>1 DEF Guarded, At
  <2>5. AtMostOnce'
    <3>1. \A t \in Threads : /\ Due(t) \in Nat /\ calls[t] \in Nat /\ reported[t] \in Nat
                             /\ reported[t] <= Due(t) /\ Due(t) <= calls[t]
      BY ReportedBound DEF Due, IInv, AtMostOnce
    <3> QED BY <1>5, <2>1, <3>1 DEF Detach, AtMostOnce
  <2> QED BY <2>2, <2>3, <2>4, <2>5 DEF IInv
<1>6. CASE CloseIpc
  <2>1. TypeOK' /\ Attaching' /\ AllReported' /\ GuardHeld'
    BY <1>6 DEF CloseIpc, Remember, IInv, TypeOK, Attaching, AllReported, GuardHeld
  <2> QED BY <1>6, <2>1, IdleKeeps DEF CloseIpc
<1> QED BY <1>1, <1>2, <1>3, <1>4, <1>5, <1>6 DEF DllMain

-----------------------------------------------------------------------------
(* The theorems.                                                           *)

LEMMA InitInv == Init => IInv
<1> SUFFICES ASSUME Init PROVE IInv
  OBVIOUS
<1>1. TypeOK
  <2>1. 0 \in 0 .. MaxCalls
    BY BoundsAssumption
  <2>2. stack \in [Threads -> Seq(Frame)]
    BY EmptyStack DEF Init
  <2> QED BY <2>1, <2>2 DEF Init, TypeOK
<1>2. \A t \in Threads : stack[t] = <<>> /\ Reporting(t) = {} /\ Due(t) = 0 /\ calls[t] = 0
  BY EmptyStack DEF Init, Reporting, ReportingIn, Due
<1>3. Stacks
  BY <1>2, EmptyStack DEF Stacks
<1>4. Attaching /\ OverlapSeen /\ GuardHeld /\ Guarded /\ AtMostOnce /\ AllReported
  BY <1>2, ThreadsAssumption
     DEF Init, Attaching, OverlapSeen, Overlap, GuardHeld, Guarded, At, AtMostOnce, AllReported
<1> QED BY <1>1, <1>3, <1>4 DEF IInv

LEMMA NextInv == IInv /\ [Next]_vars => IInv'
<1> SUFFICES ASSUME IInv, [Next]_vars PROVE IInv'
  OBVIOUS
<1>1. CASE UNCHANGED vars
  <2>1. TypeOK' /\ Attaching' /\ GuardHeld' /\ AllReported'
    BY <1>1 DEF vars, IInv, TypeOK, Attaching, GuardHeld, AllReported, Reporting, Due
  <2> QED BY <1>1, <2>1, IdleKeeps DEF vars
<1>2. CASE DllMain /\ Remember
  BY <1>2, DllMainKeeps
<1>3. ASSUME NEW t \in Threads, Call(t), Remember PROVE IInv'
  BY <1>3, EnterKeeps DEF Call
<1>4. ASSUME NEW t \in Threads, ComposeThrows(t), Remember PROVE IInv'
  BY <1>4, ComposeThrowsKeeps
<1>5. ASSUME NEW t \in Threads, Step(t) PROVE IInv'
  BY <1>5, TestKeeps, SetEnteredKeeps, ComposeKeeps, WritePipeKeeps, ClearEnteredKeeps,
     OriginalKeeps DEF Step
<1> QED BY <1>1, <1>2, <1>3, <1>4, <1>5 DEF Next

(* Everything below holds in every state any number of threads can reach.  *)
THEOREM Invariant == Spec => []IInv
<1> QED BY InitInv, NextInv, PTL DEF Spec

(* The flag entered is never left up by the hooks themselves: only by an   *)
(* exception, or by the end of the process; and no call is reported twice. *)
THEOREM GuardInvHolds == Spec => []GuardInv
<1>1. IInv => GuardInv
  BY DEF IInv, GuardInv
<1> QED BY <1>1, Invariant, PTL

(* No thread reports a call its own report makes, unless calls of two      *)
(* threads met: the one flag of yhookmap.h cannot tell threads apart.      *)
THEOREM RecursionNeedsOverlapHolds == Spec => []RecursionNeedsOverlap
<1>1. IInv => RecursionNeedsOverlap
  <2> SUFFICES ASSUME IInv, ~overlapped, NEW t \in Threads
               PROVE  Cardinality(Reporting(t)) <= 1
    BY DEF RecursionNeedsOverlap, PreventRecursion
  <2>1. \A i, j \in Reporting(t) : i = j
    BY DEF IInv, Guarded
  <2>2. CASE Reporting(t) = {}
    <3>1. Cardinality({}) = 0
      BY FS_EmptySet
    <3> QED BY <2>2, <3>1
  <2>3. CASE Reporting(t) # {}
    <3>1. PICK i \in Reporting(t) : TRUE
      BY <2>3
    <3>2. Reporting(t) = {i}
      BY <2>1, <3>1
    <3>3. Cardinality({i}) = 1
      BY FS_Singleton
    <3> QED BY <3>2, <3>3
  <2> QED BY <2>2, <2>3
<1> QED BY <1>1, Invariant, PTL

(* With the detours and the pipe in place and no exception, a thread that  *)
(* is in no hooked function has had all its calls reported, once each,     *)
(* until a call first meets another thread's report.                       *)
THEOREM EveryCallReportedHolds == Spec => []EveryCallReported
<1>1. IInv => EveryCallReported
  <2> SUFFICES ASSUME IInv, ~overlapped, ~threw, dll = "attached", hooked, pipe = "open",
                      NEW t \in Threads, stack[t] = <<>>
               PROVE  reported[t] = calls[t]
    BY DEF EveryCallReported
  <2>1. Due(t) = calls[t]
    BY DEF IInv, AllReported
  <2>2. reported[t] \in Nat /\ Due(t) = reported[t] + 0
    BY EmptyStack, ReportedBound DEF Due
  <2> QED BY <2>1, <2>2
<1> QED BY <1>1, Invariant, PTL
=============================================================================
