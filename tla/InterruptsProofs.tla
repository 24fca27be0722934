-------------------------- MODULE InterruptsProofs --------------------------
(***************************************************************************)
(* For every number of tasks, nesting depth, set of devices and number of  *)
(* keys, the end of interrupt that a handler sends ends the handler's own  *)
(* interrupt, although the command does not name a line; the queue of scan *)
(* codes holds the latest ones in order, and no key is lost on its way.    *)
(*                                                                         *)
(* InServiceHeld is not inductive.  The timer's handler ends its interrupt *)
(* before anything else, so while it has not, it is the innermost handler  *)
(* of the task that runs and nothing can switch away from it: when the     *)
(* keyboard's handler sends its command, the timer is not in service.      *)
(* From this it follows that there is one keyboard handler at most,        *)
(* whichever stack it waits on, and the other two theorems rest on that.   *)
(***************************************************************************)
EXTENDS Interrupts, TLAPS

\* Stacks are sequences, whatever the codes in their frames are.
IsStack(s) == Len(s) \in Nat /\ s = [k \in 1 .. Len(s) |-> s[k]]

\* A frame is one of the timer's handler, of the keyboard's or of an exception.
IsFrame(f) ==
    /\ f = [line |-> f.line, at |-> f.at, code |-> f.code]
    /\ \/ f.line = PIC_IRQ0 /\ f.at \in {"timer_eoi", "switch"}
       \/ f.line = PIC_IRQ1 /\ f.at \in {"read", "store", "advance", "eoi"}
       \/ f.line = NoLine /\ f.at = "panic"

IsPic(p) == p = [base |-> p.base, mask |-> p.mask, irr |-> p.irr, isr |-> p.isr]

PicOK ==
    /\ IsPic(pic)
    /\ iflag => pic.base = PIC1_INT_OFFSET

CpuOK ==
    /\ current \in Task
    /\ Main \in ready /\ ready \subseteq Task
    /\ DOMAIN irq = Task
    /\ halted \in BOOLEAN /\ iflag \in BOOLEAN

\* Until idt_init nothing has interrupted task 0.
BeforeInit ==
    /\ ~ iflag <=> pc = "idt_init"
    /\ ~ iflag => current = Main /\ \A t \in Task : irq[t] = <<>>

StacksOK ==
    \A t \in Task :
        /\ IsStack(irq[t]) /\ Len(irq[t]) <= MaxNest
        /\ \A k \in 1 .. Len(irq[t]) : IsFrame(irq[t][k])

\* A timer handler that has not ended its interrupt is the innermost handler of
\* the task that runs.
TimerInnermost ==
    \A t \in Task : \A k \in 1 .. Len(irq[t]) :
        irq[t][k].at = "timer_eoi" => t = current /\ k = Len(irq[t])

OneKeyboardHandler ==
    \A t, u \in Task : \A j \in 1 .. Len(irq[t]), k \in 1 .. Len(irq[u]) :
        irq[t][j].line = PIC_IRQ1 /\ irq[u][k].line = PIC_IRQ1 => t = u /\ j = k

InServiceExact ==
    /\ pic.isr \subseteq {PIC_IRQ0, PIC_IRQ1}
    /\ PIC_IRQ0 \in pic.isr <=>
        \E t \in Task : \E k \in 1 .. Len(irq[t]) : irq[t][k].at = "timer_eoi"
    /\ PIC_IRQ1 \in pic.isr <=>
        \E t \in Task : \E k \in 1 .. Len(irq[t]) : irq[t][k].line = PIC_IRQ1

Handlers == StacksOK /\ TimerInnermost /\ OneKeyboardHandler /\ InServiceExact

IInv == ~ halted => PicOK /\ CpuOK /\ BeforeInit /\ Handlers
-----------------------------------------------------------------------------
(* What pushing, popping and replacing frames does to a stack.             *)

LEMMA StackIsSeq ==
    ASSUME NEW s, NEW S, IsStack(s), \A k \in 1 .. Len(s) : s[k] \in S
    PROVE  s \in Seq(S)
<1>1. s \in [1 .. Len(s) -> S]
  BY Zenon DEF IsStack
<1> QED BY <1>1 DEF IsStack

LEMMA SeqIsStack == \A S : \A s \in Seq(S) : IsStack(s)
BY DEF IsStack

LEMMA PushFact ==
    ASSUME NEW s, NEW f, IsStack(s)
    PROVE  /\ IsStack(Append(s, f)) /\ Len(Append(s, f)) = Len(s) + 1
           /\ \A k \in 1 .. Len(s) : Append(s, f)[k] = s[k]
           /\ Append(s, f)[Len(s) + 1] = f
<1> DEFINE S == {s[k] : k \in 1 .. Len(s)} \cup {f}
<1>1. s \in Seq(S)
  BY StackIsSeq, Zenon
<1>2. f \in S
  BY Zenon
<1> HIDE DEF S
<1>3. Append(s, f) \in Seq(S)
  BY <1>1, <1>2
<1>4. IsStack(Append(s, f))
  BY <1>3, SeqIsStack, Zenon
<1> QED BY <1>1, <1>2, <1>4

LEMMA PopFact ==
    ASSUME NEW s, IsStack(s), s # <<>>
    PROVE  /\ Len(s) \in Nat \ {0} /\ TopOf(s) = s[Len(s)]
           /\ IsStack(Under(s)) /\ Len(Under(s)) = Len(s) - 1
           /\ \A k \in 1 .. Len(s) - 1 : Under(s)[k] = s[k]
<1> DEFINE S == {s[k] : k \in 1 .. Len(s)}
<1>1. s \in Seq(S)
  BY StackIsSeq, Zenon
<1> HIDE DEF S
<1>2. Len(s) \in Nat \ {0}
  BY <1>1
<1>3. /\ SubSeq(s, 1, Len(s) - 1) \in Seq(S) /\ Len(SubSeq(s, 1, Len(s) - 1)) = Len(s) - 1
      /\ \A k \in 1 .. Len(s) - 1 : SubSeq(s, 1, Len(s) - 1)[k] = s[k]
  BY <1>1, <1>2
<1> QED BY <1>2, <1>3, SeqIsStack, Zenon DEF Under, TopOf

LEMMA ReplaceFact ==
    ASSUME NEW s, NEW f, IsStack(s), s # <<>>
    PROVE  /\ IsStack(Append(Under(s), f)) /\ Len(Append(Under(s), f)) = Len(s)
           /\ \A k \in 1 .. Len(s) - 1 : Append(Under(s), f)[k] = s[k]
           /\ Append(Under(s), f)[Len(s)] = f
<1>1. /\ Len(s) \in Nat \ {0} /\ IsStack(Under(s)) /\ Len(Under(s)) = Len(s) - 1
      /\ \A k \in 1 .. Len(s) - 1 : Under(s)[k] = s[k]
  BY PopFact, Zenon
<1> DEFINE r == Under(s)
<1> HIDE DEF r
<1>2. /\ IsStack(Append(r, f)) /\ Len(Append(r, f)) = Len(r) + 1
      /\ \A k \in 1 .. Len(r) : Append(r, f)[k] = r[k]
      /\ Append(r, f)[Len(r) + 1] = f
  BY <1>1, PushFact, Zenon DEF r
<1> QED BY <1>1, <1>2 DEF r

\* What the operators on the interrupt controller do.
LEMMA PicFact ==
    ASSUME NEW p, IsPic(p), NEW l
    PROVE  /\ IsPic(pic_clear_mask(p, l))
           /\ pic_clear_mask(p, l).base = p.base /\ pic_clear_mask(p, l).isr = p.isr
           /\ IsPic(Request(p, l)) /\ Request(p, l).base = p.base /\ Request(p, l).isr = p.isr
           /\ IsPic(Acknowledge(p, l)) /\ Acknowledge(p, l).base = p.base
           /\ Acknowledge(p, l).isr = p.isr \cup {l}
           /\ IsPic(pic_send_eoi(p, l)) /\ pic_send_eoi(p, l).base = p.base
           /\ pic_send_eoi(p, l).isr = p.isr \ InService(p)
<1> DEFINE P(b, m, r, s) == [base |-> b, mask |-> m, irr |-> r, isr |-> s]
<1>1. p = P(p.base, p.mask, p.irr, p.isr)
  BY Zenon DEF IsPic
<1>2. pic_clear_mask(p, l) = P(p.base, p.mask \ {l}, p.irr, p.isr)
  BY <1>1 DEF pic_clear_mask
<1>3. Request(p, l) = P(p.base, p.mask, p.irr \cup {l}, p.isr)
  BY <1>1 DEF Request
<1>4. Acknowledge(p, l) = P(p.base, p.mask, p.irr \ {l}, p.isr \cup {l})
  BY Zenon DEF Acknowledge
<1>5. pic_send_eoi(p, l) = P(p.base, p.mask, p.irr, p.isr \ InService(p))
  BY <1>1 DEF pic_send_eoi
<1>6. \A b, m, r, s : IsPic(P(b, m, r, s)) /\ P(b, m, r, s).base = b /\ P(b, m, r, s).isr = s
  BY DEF IsPic
<1> HIDE DEF P
<1> QED BY <1>2, <1>3, <1>4, <1>5, <1>6
-----------------------------------------------------------------------------
(* What a step does to the stacks: a frame is pushed, popped or replaced.  *)

Pushed(t, f) ==
    /\ DOMAIN irq' = Task /\ \A u \in Task \ {t} : irq'[u] = irq[u]
    /\ IsStack(irq'[t]) /\ Len(irq'[t]) = Len(irq[t]) + 1
    /\ \A k \in 1 .. Len(irq[t]) : irq'[t][k] = irq[t][k]
    /\ irq'[t][Len(irq[t]) + 1] = f

PoppedOff(t) ==
    /\ DOMAIN irq' = Task /\ \A u \in Task \ {t} : irq'[u] = irq[u]
    /\ IsStack(irq'[t]) /\ Len(irq'[t]) = Len(irq[t]) - 1
    /\ \A k \in 1 .. Len(irq[t]) - 1 : irq'[t][k] = irq[t][k]

ReplacedBy(t, f) ==
    /\ DOMAIN irq' = Task /\ \A u \in Task \ {t} : irq'[u] = irq[u]
    /\ IsStack(irq'[t]) /\ Len(irq'[t]) = Len(irq[t])
    /\ \A k \in 1 .. Len(irq[t]) - 1 : irq'[t][k] = irq[t][k]
    /\ irq'[t][Len(irq[t])] = f

LEMMA PushStep ==
    ASSUME CpuOK, StacksOK, NEW t \in Task, NEW f, irq' = [irq EXCEPT ![t] = Append(@, f)]
    PROVE  Pushed(t, f)
<1>1. DOMAIN irq' = Task /\ irq'[t] = Append(irq[t], f) /\ \A u \in Task \ {t} : irq'[u] = irq[u]
  BY Zenon DEF CpuOK
<1>2. IsStack(irq[t])
  BY Zenon DEF StacksOK
<1> QED BY <1>1, <1>2, PushFact DEF Pushed

LEMMA PopStep ==
    ASSUME CpuOK, StacksOK, NEW t \in Task, irq[t] # <<>>, irq' = Popped(t)
    PROVE  PoppedOff(t)
<1>1. DOMAIN irq' = Task /\ irq'[t] = Under(irq[t]) /\ \A u \in Task \ {t} : irq'[u] = irq[u]
  BY Zenon DEF CpuOK, Popped
<1>2. IsStack(irq[t])
  BY Zenon DEF StacksOK
<1> QED BY <1>1, <1>2, PopFact DEF PoppedOff

LEMMA ReplaceStep ==
    ASSUME CpuOK, StacksOK, NEW t \in Task, NEW f, irq[t] # <<>>, irq' = Replaced(t, f)
    PROVE  ReplacedBy(t, f)
<1>1. /\ DOMAIN irq' = Task /\ irq'[t] = Append(Under(irq[t]), f)
      /\ \A u \in Task \ {t} : irq'[u] = irq[u]
  BY Zenon DEF CpuOK, Replaced
<1>2. IsStack(irq[t])
  BY Zenon DEF StacksOK
<1> DEFINE s == irq[t]
<1> HIDE DEF s
<1>3. /\ IsStack(Append(Under(s), f)) /\ Len(Append(Under(s), f)) = Len(s)
      /\ \A k \in 1 .. Len(s) - 1 : Append(Under(s), f)[k] = s[k]
      /\ Append(Under(s), f)[Len(s)] = f
  BY <1>2, ReplaceFact, Zenon DEF s
<1> QED BY <1>1, <1>3, Zenon DEF ReplacedBy, s

\* The innermost handler of the running task, and where it goes on.
LEMMA TopFact ==
    ASSUME StacksOK, NEW t \in Task, irq[t] # <<>>
    PROVE  /\ Len(irq[t]) \in Nat \ {0} /\ Top(t) = irq[t][Len(irq[t])] /\ IsFrame(Top(t))
           /\ \A a : [Top(t) EXCEPT !.at = a] = [line |-> Top(t).line, at |-> a, code |-> Top(t).code]
<1>1. Len(irq[t]) \in Nat \ {0} /\ Top(t) = irq[t][Len(irq[t])]
  BY PopFact, Zenon DEF StacksOK, Top
<1>2. IsFrame(Top(t))
  BY <1>1 DEF StacksOK
<1>3. \A f : IsFrame(f) => \A a : [f EXCEPT !.at = a] = [line |-> f.line, at |-> a, code |-> f.code]
  <2> SUFFICES ASSUME NEW f, f = [line |-> f.line, at |-> f.at, code |-> f.code], NEW a
               PROVE  [f EXCEPT !.at = a] = [line |-> f.line, at |-> a, code |-> f.code]
    BY Zenon DEF IsFrame
  <2> QED OBVIOUS
<1> QED BY <1>1, <1>2, <1>3, Zenon

\* A handler starts on the running task while the timer is not in service; a
\* keyboard handler only while the keyboard is not in service either.
LEMMA PushHandlers ==
    ASSUME CpuOK, Handlers, NEW f, IsFrame(f), f.at # "switch",
           Pushed(current, f), UNCHANGED current, Len(irq[current]) < MaxNest,
           PIC_IRQ0 \notin pic.isr, f.line = PIC_IRQ1 => PIC_IRQ1 \notin pic.isr,
           pic'.isr = pic.isr \cup ({f.line} \ {NoLine})
    PROVE  Handlers'
<1> DEFINE n == Len(irq[current])
<1>1. n \in Nat /\ current \in Task /\ MaxNest \in Nat
  BY InterruptsAssumption, Zenon DEF CpuOK, Handlers, StacksOK, IsStack
<1>2. \A u \in Task : \A k \in 1 .. Len(irq'[u]) :
        \/ k \in 1 .. Len(irq[u]) /\ irq'[u][k] = irq[u][k]
        \/ u = current /\ k = n + 1 /\ irq'[u][k] = f
  BY <1>1 DEF Pushed
<1>3. \A u \in Task : \A k \in 1 .. Len(irq[u]) : k \in 1 .. Len(irq'[u]) /\ irq'[u][k] = irq[u][k]
  BY <1>1 DEF Pushed
<1>4. n + 1 \in 1 .. Len(irq'[current]) /\ Len(irq'[current]) = n + 1 /\ irq'[current][n + 1] = f
  BY <1>1 DEF Pushed
<1>5. \A u \in Task : IsStack(irq'[u]) /\ Len(irq'[u]) <= MaxNest
  <2>1. IsStack(irq'[current]) /\ Len(irq'[current]) <= MaxNest
    BY <1>1 DEF Pushed
  <2> QED BY <2>1, Zenon DEF Pushed, Handlers, StacksOK
<1>6. \A u \in Task : \A k \in 1 .. Len(irq[u]) : irq[u][k].at # "timer_eoi"
  BY Zenon DEF Handlers, InServiceExact
<1>7. f.line = PIC_IRQ1 => \A u \in Task : \A k \in 1 .. Len(irq[u]) : irq[u][k].line # PIC_IRQ1
  BY Zenon DEF Handlers, InServiceExact
<1> HIDE DEF n
<1>8. StacksOK'
  BY <1>2, <1>5 DEF Handlers, StacksOK
<1>9. TimerInnermost'
  BY <1>2, <1>4, <1>6 DEF TimerInnermost
<1>10. OneKeyboardHandler'
  <2> SUFFICES ASSUME NEW u \in Task, NEW v \in Task,
                      NEW j \in 1 .. Len(irq'[u]), NEW k \in 1 .. Len(irq'[v]),
                      irq'[u][j].line = PIC_IRQ1, irq'[v][k].line = PIC_IRQ1
               PROVE  u = v /\ j = k
    BY DEF OneKeyboardHandler
  <2>1. CASE f.line = PIC_IRQ1
    <3>1. u = current /\ j = n + 1
      BY <1>2, <1>7, <2>1
    <3>2. v = current /\ k = n + 1
      BY <1>2, <1>7, <2>1
    <3> QED BY <3>1, <3>2, Zenon
  <2>2. CASE f.line # PIC_IRQ1
    <3>1. /\ j \in 1 .. Len(irq[u]) /\ irq[u][j].line = PIC_IRQ1
          /\ k \in 1 .. Len(irq[v]) /\ irq[v][k].line = PIC_IRQ1
      BY <1>2, <2>2, Zenon
    <3> QED BY <3>1 DEF Handlers, OneKeyboardHandler
  <2> QED BY <2>1, <2>2, Zenon
<1>11. InServiceExact'
  <2>1. f.line = PIC_IRQ0 <=> f.at = "timer_eoi"
    BY DEF IsFrame, PIC_IRQ0, PIC_IRQ1, NoLine
  <2>2. pic'.isr \subseteq {PIC_IRQ0, PIC_IRQ1}
    BY Zenon DEF IsFrame, Handlers, InServiceExact
  <2>3. PIC_IRQ0 \in pic'.isr <=> f.at = "timer_eoi"
    BY <2>1 DEF PIC_IRQ0, NoLine
  <2>4. PIC_IRQ1 \in pic'.isr <=> PIC_IRQ1 \in pic.isr \/ f.line = PIC_IRQ1
    BY DEF PIC_IRQ1, NoLine
  <2>5. f.at = "timer_eoi" <=>
          \E u \in Task : \E k \in 1 .. Len(irq'[u]) : irq'[u][k].at = "timer_eoi"
    <3>1. ASSUME NEW u \in Task, NEW k \in 1 .. Len(irq'[u]), irq'[u][k].at = "timer_eoi"
          PROVE  f.at = "timer_eoi"
      BY <1>2, <1>6, <3>1
    <3>2. f.at = "timer_eoi" => \E k \in 1 .. Len(irq'[current]) : irq'[current][k].at = "timer_eoi"
      BY <1>4, Zenon
    <3> QED BY <1>1, <3>1, <3>2, Zenon
  <2>6. PIC_IRQ1 \in pic.isr \/ f.line = PIC_IRQ1 <=>
          \E u \in Task : \E k \in 1 .. Len(irq'[u]) : irq'[u][k].line = PIC_IRQ1
    <3>1. ASSUME NEW u \in Task, NEW k \in 1 .. Len(irq'[u]), irq'[u][k].line = PIC_IRQ1
          PROVE  f.line = PIC_IRQ1 \/ \E j \in 1 .. Len(irq[u]) : irq[u][j].line = PIC_IRQ1
      BY <1>2, <3>1, Zenon
    <3>2. ASSUME NEW u \in Task, NEW k \in 1 .. Len(irq[u]), irq[u][k].line = PIC_IRQ1
          PROVE  \E j \in 1 .. Len(irq'[u]) : irq'[u][j].line = PIC_IRQ1
      BY <1>3, <3>2, Zenon
    <3>3. f.line = PIC_IRQ1 => \E k \in 1 .. Len(irq'[current]) : irq'[current][k].line = PIC_IRQ1
      BY <1>4, Zenon
    <3>4. PIC_IRQ1 \in pic.isr <=>
            \E u \in Task : \E k \in 1 .. Len(irq[u]) : irq[u][k].line = PIC_IRQ1
      BY Zenon DEF Handlers, InServiceExact
    <3> QED BY <1>1, <3>1, <3>2, <3>3, <3>4, Zenon
  <2> QED BY <2>2, <2>3, <2>4, <2>5, <2>6, Zenon DEF InServiceExact
<1> QED BY <1>8, <1>9, <1>10, <1>11, Zenon DEF Handlers

\* The innermost handler goes on, with the timer's interrupt ended if it was
\* the timer's.
LEMMA ReplaceHandlers ==
    ASSUME CpuOK, Handlers, irq[current] # <<>>, NEW f, IsFrame(f), f.line = Top(current).line,
           f.at # "timer_eoi", ReplacedBy(current, f), UNCHANGED current,
           pic'.isr = pic.isr \ {PIC_IRQ0}
    PROVE  Handlers'
<1> DEFINE n == Len(irq[current])
<1>1. n \in Nat \ {0} /\ current \in Task /\ Top(current) = irq[current][n] /\ IsFrame(Top(current))
  BY TopFact, Zenon DEF CpuOK, Handlers
<1>2. \A u \in Task : Len(irq'[u]) = Len(irq[u]) /\ IsStack(irq'[u])
  BY <1>1, Zenon DEF ReplacedBy, Handlers, StacksOK
<1>3. \A u \in Task : \A k \in 1 .. Len(irq[u]) :
        \/ irq'[u][k] = irq[u][k] /\ (u # current \/ k # n)
        \/ u = current /\ k = n /\ irq'[u][k] = f
  BY <1>1 DEF ReplacedBy
<1>4. \A u \in Task : \A k \in 1 .. Len(irq[u]) : irq'[u][k].line = irq[u][k].line
  BY <1>1, <1>3, Zenon
<1>5. \A u \in Task : \A k \in 1 .. Len(irq[u]) : irq'[u][k].at # "timer_eoi"
  BY <1>1, <1>3 DEF Handlers, TimerInnermost
<1>6. StacksOK'
  BY <1>2, <1>3, Zenon DEF Handlers, StacksOK
<1>7. TimerInnermost'
  BY <1>2, <1>5, Zenon DEF TimerInnermost
<1>8. OneKeyboardHandler'
  <2> SUFFICES ASSUME NEW u \in Task, NEW v \in Task,
                      NEW j \in 1 .. Len(irq'[u]), NEW k \in 1 .. Len(irq'[v]),
                      irq'[u][j].line = PIC_IRQ1, irq'[v][k].line = PIC_IRQ1
               PROVE  u = v /\ j = k
    BY DEF OneKeyboardHandler
  <2>1. /\ j \in 1 .. Len(irq[u]) /\ irq[u][j].line = PIC_IRQ1
        /\ k \in 1 .. Len(irq[v]) /\ irq[v][k].line = PIC_IRQ1
    BY <1>2, <1>4, Zenon
  <2> QED BY <2>1 DEF Handlers, OneKeyboardHandler
<1>9. InServiceExact'
  <2>1. PIC_IRQ0 \notin pic'.isr /\ (PIC_IRQ1 \in pic'.isr <=> PIC_IRQ1 \in pic.isr)
    BY DEF PIC_IRQ0, PIC_IRQ1
  <2>2. pic'.isr \subseteq {PIC_IRQ0, PIC_IRQ1}
    BY Zenon DEF Handlers, InServiceExact
  <2>3. (\E u \in Task : \E k \in 1 .. Len(irq[u]) : irq[u][k].line = PIC_IRQ1) <=>
          \E u \in Task : \E k \in 1 .. Len(irq'[u]) : irq'[u][k].line = PIC_IRQ1
    BY <1>2, <1>4
  <2>4. ~ \E u \in Task : \E k \in 1 .. Len(irq'[u]) : irq'[u][k].at = "timer_eoi"
    BY <1>2, <1>5, Zenon
  <2> QED BY <2>1, <2>2, <2>3, <2>4, Zenon DEF Handlers, InServiceExact
<1> QED BY <1>6, <1>7, <1>8, <1>9, Zenon DEF Handlers

\* The innermost handler returns, its interrupt having been ended.
LEMMA PopHandlers ==
    ASSUME CpuOK, Handlers, irq[current] # <<>>, PoppedOff(current), current' \in Task,
           pic'.isr = (pic.isr \ {PIC_IRQ0}) \ {Top(current).line}
    PROVE  Handlers'
<1> DEFINE n == Len(irq[current])
<1>1. n \in Nat \ {0} /\ current \in Task /\ Top(current) = irq[current][n] /\ IsFrame(Top(current))
  BY TopFact, Zenon DEF CpuOK, Handlers
<1>2. \A u \in Task : IsStack(irq'[u]) /\ Len(irq'[u]) <= MaxNest
  <2>1. n <= MaxNest /\ MaxNest \in Nat
    BY <1>1, InterruptsAssumption, Zenon DEF Handlers, StacksOK
  <2> QED BY <1>1, <2>1 DEF PoppedOff, Handlers, StacksOK
<1>3. \A u \in Task : \A k \in 1 .. Len(irq'[u]) :
        k \in 1 .. Len(irq[u]) /\ irq'[u][k] = irq[u][k] /\ (u # current \/ k # n)
  BY <1>1 DEF PoppedOff
<1>4. \A u \in Task : \A k \in 1 .. Len(irq[u]) :
        (u # current \/ k # n) => k \in 1 .. Len(irq'[u]) /\ irq'[u][k] = irq[u][k]
  BY <1>1 DEF PoppedOff
<1>5. \A u \in Task : \A k \in 1 .. Len(irq'[u]) : irq'[u][k].at # "timer_eoi"
  BY <1>1, <1>3 DEF Handlers, TimerInnermost
<1> HIDE DEF n
<1>6. StacksOK'
  BY <1>2, <1>3 DEF Handlers, StacksOK
<1>7. TimerInnermost'
  BY <1>5, Zenon DEF TimerInnermost
<1>8. OneKeyboardHandler'
  <2> SUFFICES ASSUME NEW u \in Task, NEW v \in Task,
                      NEW j \in 1 .. Len(irq'[u]), NEW k \in 1 .. Len(irq'[v]),
                      irq'[u][j].line = PIC_IRQ1, irq'[v][k].line = PIC_IRQ1
               PROVE  u = v /\ j = k
    BY DEF OneKeyboardHandler
  <2>1. /\ j \in 1 .. Len(irq[u]) /\ irq[u][j].line = PIC_IRQ1
        /\ k \in 1 .. Len(irq[v]) /\ irq[v][k].line = PIC_IRQ1
    BY <1>3, Zenon
  <2> QED BY <2>1 DEF Handlers, OneKeyboardHandler
<1>9. InServiceExact'
  <2>1. PIC_IRQ1 \in pic'.isr <=> PIC_IRQ1 \in pic.isr /\ Top(current).line # PIC_IRQ1
    BY DEF PIC_IRQ0, PIC_IRQ1
  <2>2. ASSUME Top(current).line = PIC_IRQ1
        PROVE  \A u \in Task : \A k \in 1 .. Len(irq'[u]) : irq'[u][k].line # PIC_IRQ1
    <3>1. n \in 1 .. Len(irq[current])
      BY <1>1 DEF n
    <3> SUFFICES ASSUME NEW u \in Task, NEW k \in 1 .. Len(irq'[u]), irq'[u][k].line = PIC_IRQ1
                 PROVE  FALSE
      BY Zenon
    <3>2. k \in 1 .. Len(irq[u]) /\ irq[u][k].line = PIC_IRQ1 /\ (u # current \/ k # n)
      BY <1>3, Zenon
    <3>3. irq[current][n].line = PIC_IRQ1
      BY <1>1, <2>2, Zenon
    <3> QED BY <1>1, <3>1, <3>2, <3>3 DEF Handlers, OneKeyboardHandler
  <2>3. ASSUME Top(current).line # PIC_IRQ1
        PROVE  PIC_IRQ1 \in pic.isr <=>
                 \E u \in Task : \E k \in 1 .. Len(irq'[u]) : irq'[u][k].line = PIC_IRQ1
    <3>1. ASSUME NEW u \in Task, NEW k \in 1 .. Len(irq[u]), irq[u][k].line = PIC_IRQ1
          PROVE  k \in 1 .. Len(irq'[u]) /\ irq'[u][k].line = PIC_IRQ1
      <4>1. u # current \/ k # n
        BY <1>1, <2>3, <3>1, Zenon
      <4> QED BY <1>4, <3>1, <4>1, Zenon
    <3>2. ASSUME NEW u \in Task, NEW k \in 1 .. Len(irq'[u]), irq'[u][k].line = PIC_IRQ1
          PROVE  k \in 1 .. Len(irq[u]) /\ irq[u][k].line = PIC_IRQ1
      BY <1>3, <3>2, Zenon
    <3> QED BY <3>1, <3>2 DEF Handlers, InServiceExact
  <2>4. PIC_IRQ0 \notin pic'.isr /\ pic'.isr \subseteq {PIC_IRQ0, PIC_IRQ1}
    BY Zenon DEF Handlers, InServiceExact
  <2> QED BY <1>5, <2>1, <2>2, <2>3, <2>4, Zenon DEF InServiceExact
<1> QED BY <1>6, <1>7, <1>8, <1>9, Zenon DEF Handlers
-----------------------------------------------------------------------------
(* Steps that leave the handlers alone.                                    *)

LEMMA InitIInv == Init => IInv
<1> SUFFICES ASSUME Init PROVE IInv
  BY Zenon
<1>1. Main \in Task
  BY InterruptsAssumption DEF Task, Main
<1>2. \A t \in Task : irq[t] = <<>> /\ Len(irq[t]) = 0 /\ IsStack(irq[t])
  BY DEF Init, IsStack
<1>3. Handlers
  BY <1>2, InterruptsAssumption DEF Init, Handlers, StacksOK, TimerInnermost, OneKeyboardHandler, InServiceExact
<1> QED BY <1>1, <1>2, <1>3, Zenon DEF Init, IInv, PicOK, IsPic, CpuOK, BeforeInit

LEMMA SameHandlers ==
    ASSUME Handlers, UNCHANGED <<irq, current>>, pic'.isr = pic.isr
    PROVE  Handlers'
BY DEF Handlers, StacksOK, TimerInnermost, OneKeyboardHandler, InServiceExact

LEMMA Ps2BecomesFact ==
    ASSUME PicOK, NEW p, Ps2Becomes(p), UNCHANGED iflag
    PROVE  PicOK' /\ pic'.isr = pic.isr
<1>1. pic' = pic \/ pic' = Request(pic, PIC_IRQ1)
  BY Zenon DEF Ps2Becomes
<1> QED BY <1>1, PicFact DEF PicOK

LEMMA ControllerIInv == IInv /\ controller => IInv'
<1> SUFFICES ASSUME IInv, controller PROVE IInv'
  BY Zenon
<1>1. ~ halted /\ UNCHANGED <<iflag, cpu, pc>>
  BY Zenon DEF controller, controller_cmd, controller_data, controller_receive, main
<1>2. \E p : Ps2Becomes(p)
  BY Zenon DEF controller, controller_cmd, controller_data, controller_receive
<1>3. PicOK' /\ pic'.isr = pic.isr
  BY <1>1, <1>2, Ps2BecomesFact, Zenon DEF IInv
<1>4. Handlers'
  BY <1>1, <1>3, SameHandlers, Zenon DEF IInv, cpu
<1> QED BY <1>1, <1>3, <1>4, Zenon DEF IInv, CpuOK, BeforeInit, cpu

LEMMA KeyPressIInv == IInv /\ key_press => IInv'
<1> SUFFICES ASSUME IInv, key_press PROVE IInv'
  BY Zenon
<1>1. ~ halted /\ UNCHANGED <<pic, iflag, cpu, pc>>
  BY Zenon DEF key_press, main
<1>2. Handlers'
  BY <1>1, SameHandlers, Zenon DEF IInv, cpu
<1> QED BY <1>1, <1>2, Zenon DEF IInv, PicOK, CpuOK, BeforeInit, cpu

\* Every step of ps2_init_devices leaves the handlers and the interrupt
\* controller alone, and none goes back to idt_init.
LEMMA InitDevicesFact ==
    ASSUME ps2_init_devices
    PROVE  /\ ~ halted /\ UNCHANGED <<pic, iflag, cpu>>
           /\ pc # "idt_init" /\ pc' # "idt_init"
<1>1. CASE init_scancode_queue
  BY <1>1, Zenon DEF init_scancode_queue, MainAt, Runs
<1>2. CASE \E at, to, cmd : ps2_controller_send_cmd(at, cmd, to) /\ at # "idt_init" /\ to # "idt_init"
  BY <1>2, Zenon DEF ps2_controller_send_cmd, MainAt, Runs
<1>3. CASE \E at, to : OutbData(at, to) /\ at # "idt_init" /\ to # "idt_init"
  BY <1>3, Zenon DEF OutbData, MainAt, Runs
<1>4. CASE \E at, to : InbData(at, to) /\ at # "idt_init" /\ to # "idt_init"
  BY <1>4, Zenon DEF InbData, MainAt, Runs
<1>5. CASE flush_test \/ configure_read
  BY <1>5, Zenon DEF flush_test, configure_read, MainAt, Runs
<1> QED BY <1>1, <1>2, <1>3, <1>4, <1>5, Zenon
        DEF ps2_init_devices, ps2_flush_controller_output_buffer, ps2_controller_configure,
            ps2_controller_self_test, ps2_interface_self_test

LEMMA MainStepIInv == IInv /\ main_step => IInv'
<1> SUFFICES ASSUME IInv, main_step PROVE IInv'
  BY Zenon
<1>1. CASE idt_init
  <2>1. ~ halted /\ pc = "idt_init" /\ UNCHANGED cpu /\ iflag' = TRUE /\ pc' = "init_queue"
    BY <1>1, Zenon DEF idt_init, MainAt, Runs
  <2>2. pic'.isr = {} /\ PicOK'
    <3>1. /\ IsPic(pic_init(pic)) /\ pic_init(pic).isr = {}
          /\ pic_init(pic).base = PIC1_INT_OFFSET
      BY Zenon DEF pic_init, IsPic
    <3>2. /\ IsPic(pic_clear_mask(pic_init(pic), PIC_IRQ0))
          /\ pic_clear_mask(pic_init(pic), PIC_IRQ0).isr = {}
          /\ pic_clear_mask(pic_init(pic), PIC_IRQ0).base = PIC1_INT_OFFSET
      BY <3>1, PicFact, Zenon
    <3>3. IsPic(pic') /\ pic'.isr = {} /\ pic'.base = PIC1_INT_OFFSET
      BY <1>1, <3>2, PicFact DEF idt_init
    <3> QED BY <3>3, Zenon DEF PicOK
  <2>3. \A t \in Task : irq[t] = <<>> /\ Len(irq[t]) = 0 /\ IsStack(irq[t])
    BY <2>1 DEF IInv, BeforeInit, IsStack
  <2>4. Handlers'
    BY <2>1, <2>2, <2>3, InterruptsAssumption
       DEF Handlers, StacksOK, TimerInnermost, OneKeyboardHandler, InServiceExact, cpu
  <2> QED BY <2>1, <2>2, <2>4, Zenon DEF IInv, CpuOK, BeforeInit, cpu
<1>2. CASE ps2_init_devices
  <2>1. Handlers'
    BY <1>2, InitDevicesFact, SameHandlers, Zenon DEF IInv, cpu
  <2> QED BY <1>2, <2>1, InitDevicesFact, Zenon DEF IInv, PicOK, CpuOK, BeforeInit, cpu
<1>3. CASE start_tasks
  <2>1. /\ ~ halted /\ UNCHANGED <<pic, iflag, irq, current, halted>> /\ ready' = Task
        /\ pc = "init_sched" /\ pc' = "run"
    BY <1>3, Zenon DEF start_tasks, MainAt, Runs
  <2>2. Main \in Task
    BY InterruptsAssumption DEF Task, Main
  <2>3. Handlers'
    BY <2>1, SameHandlers, Zenon DEF IInv
  <2> QED BY <2>1, <2>2, <2>3, Zenon DEF IInv, PicOK, CpuOK, BeforeInit
<1> QED BY <1>1, <1>2, <1>3, Zenon DEF main_step

LEMMA LeaveIInv == \A t : IInv /\ leave(t) => IInv'
<1> SUFFICES ASSUME NEW t, IInv, leave(t) PROVE IInv'
  BY Zenon
<1>1. /\ ~ halted /\ UNCHANGED <<pic, iflag, irq, current, halted, pc>>
      /\ t # Main /\ ready' = ready \ {t}
  BY InterruptsAssumption, Zenon DEF leave, Runs, main
<1>2. Handlers'
  BY <1>1, SameHandlers, Zenon DEF IInv
<1> QED BY <1>1, <1>2, Zenon DEF IInv, PicOK, CpuOK, BeforeInit
-----------------------------------------------------------------------------
(* The handlers.                                                           *)

\* The timer is in service only if its handler is the innermost of the running
\* task.
LEMMA TimerInService ==
    ASSUME CpuOK, Handlers, PIC_IRQ0 \in pic.isr
    PROVE  irq[current] # <<>> /\ Top(current).at = "timer_eoi"
<1>1. PICK t \in Task : \E k \in 1 .. Len(irq[t]) : irq[t][k].at = "timer_eoi"
  BY Zenon DEF Handlers, InServiceExact
<1>2. PICK k \in 1 .. Len(irq[t]) : irq[t][k].at = "timer_eoi"
  BY <1>1, Zenon
<1>3. t = current /\ k = Len(irq[current]) /\ Len(irq[current]) \in Nat
  BY <1>2, Zenon DEF Handlers, TimerInnermost, StacksOK, IsStack
<1>4. irq[current] # <<>>
  BY <1>3
<1> QED BY <1>2, <1>3, <1>4, TopFact, Zenon DEF Handlers

LEMMA ExceptionIInv == \A t : IInv /\ exception_handler(t) => IInv'
<1> SUFFICES ASSUME NEW t, IInv, exception_handler(t) PROVE IInv'
  BY Zenon
<1> DEFINE f == Frame(NoLine, "panic")
<1>1. /\ ~ halted /\ current = t /\ irq[t] = <<>> /\ t # Main /\ Len(irq[t]) < MaxNest
      /\ irq' = [irq EXCEPT ![t] = Append(@, f)]
      /\ UNCHANGED <<pic, iflag, current, ready, halted, pc>>
  BY InterruptsAssumption DEF exception_handler, Runs, main
<1>2. f = [line |-> NoLine, at |-> "panic", code |-> 0] /\ IsFrame(f)
  BY Zenon DEF Frame, IsFrame
<1> HIDE DEF f
<1>3. Pushed(current, f)
  BY <1>1, PushStep, Zenon DEF IInv, Handlers, CpuOK
<1>4. PIC_IRQ0 \notin pic.isr
  BY <1>1, TimerInService, Zenon DEF IInv
<1>5. Handlers'
  BY <1>1, <1>2, <1>3, <1>4, PushHandlers DEF IInv, NoLine, PIC_IRQ1
<1> QED BY <1>1, <1>3, <1>5, Zenon DEF IInv, PicOK, CpuOK, BeforeInit, Pushed

\* The CPU takes an interrupt for a line that the controller may present.
LEMMA EnterFact ==
    ASSUME IInv, NEW l \in 0 .. 15, NEW p, IsPic(p), p.base = pic.base, p.isr = pic.isr,
           l \in Pending(p), pic' = Acknowledge(p, l), Enter(l)
    PROVE  IInv'
<1>1. /\ ~ halted /\ iflag /\ Len(irq[current]) < MaxNest
      /\ UNCHANGED <<iflag, current, ready, pc>> /\ current \in Task
  BY Zenon DEF IInv, CpuOK, Enter, main
<1>2. pic.base = 32 /\ IsPic(pic') /\ pic'.base = 32 /\ pic'.isr = pic.isr \cup {l}
  BY <1>1, PicFact DEF IInv, PicOK, PIC1_INT_OFFSET
<1>3. \A k \in pic.isr : l < k
  BY Zenon DEF Pending
<1>4. PIC_IRQ0 \notin pic.isr /\ l \notin pic.isr
  BY <1>3 DEF PIC_IRQ0
<1>5. CASE l \notin {PIC_IRQ0, PIC_IRQ1}
  <2>1. Gate(32 + l) = "default_exception_handler"
    BY <1>5 DEF Gate, ExceptionVectors, PIC_IRQ0, PIC_IRQ1
  <2>2. halted'
    BY <1>2, <2>1, Zenon DEF Enter
  <2> QED BY <2>2, Zenon DEF IInv
<1>6. CASE l \in {PIC_IRQ0, PIC_IRQ1}
  <2> DEFINE f == Frame(l, IF l = PIC_IRQ0 THEN "timer_eoi" ELSE "read")
  <2>1. Gate(32 + l) = IF l = PIC_IRQ0 THEN "timer_irq_handler" ELSE "keyboard_irq_handler"
    BY <1>6 DEF Gate, ExceptionVectors, PIC_IRQ0, PIC_IRQ1
  <2>2. irq' = [irq EXCEPT ![current] = Append(@, f)] /\ halted' = FALSE
    BY <1>2, <2>1, Zenon DEF Enter
  <2>3. IsFrame(f) /\ f.line = l /\ f.at # "switch"
    BY <1>6, Zenon DEF Frame, IsFrame, PIC_IRQ0, PIC_IRQ1
  <2> HIDE DEF f
  <2>4. Pushed(current, f)
    BY <1>1, <2>2, PushStep, Zenon DEF IInv, Handlers
  <2>5. {f.line} \ {NoLine} = {l}
    BY <2>3 DEF NoLine
  <2>6. Handlers'
    BY <1>1, <1>2, <1>4, <2>3, <2>4, <2>5, PushHandlers, Zenon DEF IInv
  <2> QED BY <1>1, <1>2, <2>2, <2>4, <2>6, Zenon
        DEF IInv, PicOK, CpuOK, BeforeInit, Pushed, PIC1_INT_OFFSET
<1> QED BY <1>5, <1>6, Zenon

LEMMA InterruptIInv ==
    IInv /\ (tick \/ keyboard_irq \/ \E l \in OtherLines : other_irq(l)) => IInv'
<1> SUFFICES ASSUME IInv, tick \/ keyboard_irq \/ \E l \in OtherLines : other_irq(l) PROVE IInv'
  BY Zenon
<1>1. IsPic(pic)
  BY Zenon DEF IInv, PicOK, tick, keyboard_irq, other_irq, Enter
<1>2. \A l : IsPic(Request(pic, l)) /\ Request(pic, l).base = pic.base /\ Request(pic, l).isr = pic.isr
  BY <1>1, PicFact, Zenon
<1>3. CASE tick
  BY <1>2, <1>3, EnterFact DEF tick, PIC_IRQ0
<1>4. CASE keyboard_irq
  BY <1>1, <1>4, EnterFact DEF keyboard_irq, PIC_IRQ1
<1>5. CASE \E l \in OtherLines : other_irq(l)
  <2>1. PICK l \in OtherLines : other_irq(l)
    BY <1>5, Zenon
  <2>2. l \in 0 .. 15
    BY InterruptsAssumption
  <2> QED BY <1>2, <2>1, <2>2, EnterFact, Zenon DEF other_irq
<1> QED BY <1>3, <1>4, <1>5, Zenon

\* The handler t runs in has a frame, and is not the code before idt_init.
LEMMA HandlerFact ==
    ASSUME IInv, NEW t, NEW a, HandlerAt(t, a)
    PROVE  /\ ~ halted /\ t = current /\ t \in Task /\ irq[t] # <<>> /\ Top(t).at = a
           /\ IsFrame(Top(t)) /\ iflag
           /\ PicOK /\ CpuOK /\ BeforeInit /\ Handlers /\ StacksOK
           /\ a # "timer_eoi" => PIC_IRQ0 \notin pic.isr
<1>1. ~ halted /\ t = current /\ irq[t] # <<>> /\ Top(t).at = a
  BY Zenon DEF HandlerAt
<1>2. PicOK /\ CpuOK /\ BeforeInit /\ Handlers /\ StacksOK /\ t \in Task
  BY <1>1, Zenon DEF IInv, CpuOK, Handlers
<1>3. iflag
  BY <1>1, <1>2, Zenon DEF BeforeInit
<1>4. IsFrame(Top(t))
  BY <1>1, <1>2, TopFact, Zenon
<1>5. a # "timer_eoi" => PIC_IRQ0 \notin pic.isr
  BY <1>1, <1>2, TimerInService, Zenon
<1> QED BY <1>1, <1>2, <1>3, <1>4, <1>5, Zenon

\* The line that an end of interrupt ends.
LEMMA EoiFact ==
    ASSUME PicOK, Handlers, NEW l
    PROVE  /\ IsPic(pic_send_eoi(pic, l)) /\ pic_send_eoi(pic, l).base = pic.base
           /\ PIC_IRQ0 \in pic.isr => pic_send_eoi(pic, l).isr = pic.isr \ {PIC_IRQ0}
           /\ PIC_IRQ0 \notin pic.isr => pic_send_eoi(pic, l).isr = {}
<1>1. /\ IsPic(pic_send_eoi(pic, l)) /\ pic_send_eoi(pic, l).base = pic.base
      /\ pic_send_eoi(pic, l).isr = pic.isr \ InService(pic)
  BY PicFact, Zenon DEF PicOK
<1>2. pic.isr \subseteq {0, 1}
  BY Zenon DEF Handlers, InServiceExact, PIC_IRQ0, PIC_IRQ1
<1>3. ASSUME PIC_IRQ0 \in pic.isr PROVE InService(pic) = {PIC_IRQ0}
  BY <1>2, <1>3 DEF InService, PIC_IRQ0
<1>4. ASSUME PIC_IRQ0 \notin pic.isr PROVE InService(pic) = pic.isr
  BY <1>2, <1>4 DEF InService, PIC_IRQ0
<1> QED BY <1>1, <1>3, <1>4, Zenon

LEMMA TimerEoiIInv == \A t : IInv /\ timer_eoi(t) => IInv'
<1> SUFFICES ASSUME NEW t, IInv, timer_eoi(t) PROVE IInv'
  BY Zenon
<1>1. /\ HandlerAt(t, "timer_eoi") /\ pic' = pic_send_eoi(pic, PIC_IRQ0)
      /\ irq' = IF sched_init THEN To(t, "switch") ELSE Popped(t)
      /\ UNCHANGED <<iflag, current, ready, halted, pc>>
  BY Zenon DEF timer_eoi, main
<1>2. /\ t = current /\ t \in Task /\ irq[t] # <<>> /\ Top(t).at = "timer_eoi" /\ IsFrame(Top(t))
      /\ PicOK /\ CpuOK /\ BeforeInit /\ Handlers /\ StacksOK /\ ~ halted /\ iflag
  BY <1>1, HandlerFact, Zenon
<1>3. Len(irq[t]) \in 1 .. Len(irq[t]) /\ Top(t) = irq[t][Len(irq[t])]
  BY <1>2, TopFact
<1>4. PIC_IRQ0 \in pic.isr
  BY <1>2, <1>3, Zenon DEF Handlers, InServiceExact
<1>5. IsPic(pic') /\ pic'.base = pic.base /\ pic'.isr = pic.isr \ {PIC_IRQ0}
  BY <1>1, <1>2, <1>4, EoiFact, Zenon
<1>6. Top(t).line = PIC_IRQ0
  BY <1>2, Zenon DEF IsFrame
<1>7. Handlers' /\ DOMAIN irq' = Task
  <2>1. CASE sched_init
    <3> DEFINE f == [line |-> PIC_IRQ0, at |-> "switch", code |-> Top(t).code]
    <3>1. irq' = Replaced(t, f)
      BY <1>1, <1>2, <1>6, <2>1, TopFact, Zenon DEF To
    <3>2. IsFrame(f) /\ f.line = PIC_IRQ0 /\ f.at # "timer_eoi"
      BY Zenon DEF IsFrame
    <3> HIDE DEF f
    <3>3. ReplacedBy(t, f)
      BY <1>2, <3>1, ReplaceStep, Zenon
    <3> QED BY <1>1, <1>2, <1>5, <1>6, <3>2, <3>3, ReplaceHandlers DEF ReplacedBy
  <2>2. CASE ~ sched_init
    <3>1. PoppedOff(t)
      BY <1>1, <1>2, <2>2, PopStep, Zenon
    <3>2. pic'.isr = (pic.isr \ {PIC_IRQ0}) \ {Top(t).line}
      BY <1>5, <1>6, Zenon
    <3> QED BY <1>1, <1>2, <3>1, <3>2, PopHandlers, Zenon DEF PoppedOff
  <2> QED BY <2>1, <2>2, Zenon
<1> QED BY <1>1, <1>2, <1>5, <1>7, Zenon DEF IInv, PicOK, CpuOK, BeforeInit

LEMMA TimerSwitchIInv == \A t : IInv /\ timer_switch(t) => IInv'
<1> SUFFICES ASSUME NEW t, IInv, timer_switch(t) PROVE IInv'
  BY Zenon
<1>1. /\ HandlerAt(t, "switch") /\ irq' = Popped(t) /\ current' \in ready
      /\ UNCHANGED <<pic, iflag, ready, halted, pc>>
  BY Zenon DEF timer_switch, Successor, main
<1>2. /\ t = current /\ t \in Task /\ irq[t] # <<>> /\ Top(t).at = "switch" /\ IsFrame(Top(t))
      /\ PicOK /\ CpuOK /\ BeforeInit /\ Handlers /\ StacksOK /\ ~ halted /\ iflag
      /\ PIC_IRQ0 \notin pic.isr
  BY <1>1, HandlerFact
<1>3. PoppedOff(t) /\ current' \in Task
  BY <1>1, <1>2, PopStep, Zenon DEF CpuOK
<1>4. pic'.isr = (pic.isr \ {PIC_IRQ0}) \ {Top(t).line}
  BY <1>1, <1>2, Zenon DEF IsFrame
<1>5. Handlers'
  BY <1>2, <1>3, <1>4, PopHandlers, Zenon
<1> QED BY <1>1, <1>2, <1>3, <1>5, Zenon DEF IInv, PicOK, CpuOK, BeforeInit, PoppedOff

\* The keyboard's handler takes a step before it ends its interrupt.
LEMMA KeyboardStep ==
    ASSUME IInv, NEW t, NEW a \in {"read", "store", "advance"}, HandlerAt(t, a),
           NEW f, IsFrame(f), f.line = Top(t).line, f.at # "timer_eoi",
           irq' = Replaced(t, f), UNCHANGED <<pic, iflag, current, ready, halted, pc>>
    PROVE  IInv'
<1>1. /\ t = current /\ t \in Task /\ irq[t] # <<>>
      /\ PicOK /\ CpuOK /\ BeforeInit /\ Handlers /\ StacksOK /\ ~ halted /\ iflag
      /\ PIC_IRQ0 \notin pic.isr
  BY HandlerFact, Zenon
<1>2. ReplacedBy(t, f)
  BY <1>1, ReplaceStep, Zenon
<1>3. pic'.isr = pic.isr \ {PIC_IRQ0}
  BY <1>1, Zenon
<1>4. Handlers'
  BY <1>1, <1>2, <1>3, ReplaceHandlers, Zenon
<1> QED BY <1>1, <1>2, <1>4, Zenon DEF IInv, PicOK, CpuOK, BeforeInit, ReplacedBy

LEMMA KeyboardIInv == \A t : IInv /\ ps2_handle_irq1(t) => IInv'
<1> SUFFICES ASSUME NEW t, IInv, ps2_handle_irq1(t) PROVE IInv'
  BY Zenon
<1>1. ASSUME NEW a \in {"read", "store", "advance", "eoi"}, HandlerAt(t, a)
      PROVE  Top(t).line = PIC_IRQ1
  BY <1>1, HandlerFact, Zenon DEF IsFrame
<1>2. \A a, c : a \in {"store", "advance", "eoi"} =>
        IsFrame([line |-> PIC_IRQ1, at |-> a, code |-> c])
  BY Zenon DEF IsFrame
<1>3. ASSUME NEW a, NEW b, HandlerAt(t, b)
      PROVE  To(t, a) = Replaced(t, [line |-> Top(t).line, at |-> a, code |-> Top(t).code])
  BY <1>3, HandlerFact, TopFact, Zenon DEF To
<1>4. CASE keyboard_read(t)
  <2> DEFINE f == [line |-> PIC_IRQ1, at |-> "store", code |-> ps2.latch]
  <2>1. HandlerAt(t, "read") /\ Top(t).line = PIC_IRQ1 /\ irq' = Replaced(t, f)
    BY <1>1, <1>4, Zenon DEF keyboard_read
  <2>2. UNCHANGED <<pic, iflag, current, ready, halted, pc>>
    BY <1>4, Zenon DEF keyboard_read, main
  <2>3. IsFrame(f) /\ f.line = PIC_IRQ1 /\ f.at # "timer_eoi"
    BY <1>2
  <2> HIDE DEF f
  <2> QED BY <2>1, <2>2, <2>3, KeyboardStep, Zenon
<1>5. CASE keyboard_store(t)
  <2> DEFINE f == [line |-> PIC_IRQ1, at |-> "advance", code |-> Top(t).code]
  <2>1. HandlerAt(t, "store") /\ Top(t).line = PIC_IRQ1 /\ irq' = Replaced(t, f)
    BY <1>1, <1>3, <1>5, Zenon DEF keyboard_store, Store
  <2>2. UNCHANGED <<pic, iflag, current, ready, halted, pc>>
    BY <1>5, Zenon DEF keyboard_store, Store, main
  <2>3. IsFrame(f) /\ f.line = PIC_IRQ1 /\ f.at # "timer_eoi"
    BY <1>2
  <2> HIDE DEF f
  <2> QED BY <2>1, <2>2, <2>3, KeyboardStep, Zenon
<1>6. CASE keyboard_advance(t)
  <2> DEFINE f == [line |-> PIC_IRQ1, at |-> "eoi", code |-> Top(t).code]
  <2>1. HandlerAt(t, "advance") /\ Top(t).line = PIC_IRQ1 /\ irq' = Replaced(t, f)
    BY <1>1, <1>3, <1>6, Zenon DEF keyboard_advance
  <2>2. UNCHANGED <<pic, iflag, current, ready, halted, pc>>
    BY <1>6, Zenon DEF keyboard_advance, main
  <2>3. IsFrame(f) /\ f.line = PIC_IRQ1 /\ f.at # "timer_eoi"
    BY <1>2
  <2> HIDE DEF f
  <2> QED BY <2>1, <2>2, <2>3, KeyboardStep, Zenon
<1>7. CASE keyboard_eoi(t)
  <2>1. /\ HandlerAt(t, "eoi") /\ irq' = Popped(t) /\ pic' = pic_send_eoi(pic, PIC_IRQ1)
        /\ UNCHANGED <<iflag, current, ready, halted, pc>>
    BY <1>7, Zenon DEF keyboard_eoi, main
  <2>2. /\ t = current /\ t \in Task /\ irq[t] # <<>> /\ Top(t).line = PIC_IRQ1
        /\ PicOK /\ CpuOK /\ BeforeInit /\ Handlers /\ StacksOK /\ ~ halted /\ iflag
        /\ PIC_IRQ0 \notin pic.isr
    BY <1>1, <2>1, HandlerFact
  <2>3. IsPic(pic') /\ pic'.base = pic.base /\ pic'.isr = {}
    BY <2>1, <2>2, EoiFact, Zenon
  <2>4. pic'.isr = (pic.isr \ {PIC_IRQ0}) \ {Top(t).line}
    BY <2>2, <2>3, Zenon DEF Handlers, InServiceExact
  <2>5. PoppedOff(t) /\ current' \in Task
    BY <2>1, <2>2, PopStep, Zenon
  <2>6. Handlers'
    BY <2>2, <2>4, <2>5, PopHandlers, Zenon
  <2> QED BY <2>1, <2>2, <2>3, <2>5, <2>6, Zenon DEF IInv, PicOK, CpuOK, BeforeInit, PoppedOff
<1> QED BY <1>4, <1>5, <1>6, <1>7, Zenon DEF ps2_handle_irq1
-----------------------------------------------------------------------------
LEMMA NextIInv == IInv /\ [Next]_vars => IInv'
<1> SUFFICES ASSUME IInv, [Next]_vars PROVE IInv'
  BY Zenon
<1>1. CASE main_step
  BY <1>1, MainStepIInv, Zenon
<1>2. CASE controller \/ key_press
  BY <1>2, ControllerIInv, KeyPressIInv, Zenon
<1>3. CASE tick \/ keyboard_irq \/ \E l \in OtherLines : other_irq(l)
  BY <1>3, InterruptIInv, Zenon
<1>4. CASE \E t \in Task : leave(t) \/ exception_handler(t)
  BY <1>4, LeaveIInv, ExceptionIInv, Zenon
<1>5. CASE \E t \in Task : timer_irq_handler(t)
  BY <1>5, TimerEoiIInv, TimerSwitchIInv, Zenon DEF timer_irq_handler
<1>6. CASE \E t \in Task : ps2_handle_irq1(t)
  BY <1>6, KeyboardIInv, Zenon
<1>7. CASE \E t \in Task : panic(t)
  BY <1>7, Zenon DEF panic, IInv
<1>8. CASE UNCHANGED vars
  <2>1. UNCHANGED <<pic, iflag, irq, current, ready, halted, pc>>
    BY <1>8, Zenon DEF vars, cpu, main
  <2>2. Handlers => Handlers'
    BY <2>1, SameHandlers, Zenon
  <2> QED BY <2>1, <2>2, Zenon DEF IInv, PicOK, CpuOK, BeforeInit
<1> QED BY <1>1, <1>2, <1>3, <1>4, <1>5, <1>6, <1>7, <1>8, Zenon DEF Next, handler_step, Stopped

LEMMA IInvImplies == IInv => InServiceHeld
<1> SUFFICES ASSUME IInv, ~ halted, NEW l \in Lines
             PROVE  /\ (l \in pic.isr) <=> (Unended(l) # {})
                    /\ \A a, b \in Unended(l) : a = b
  BY Zenon DEF InServiceHeld
<1>1. CpuOK /\ Handlers
  BY Zenon DEF IInv
<1>2. \A u \in Task : \A k \in 1 .. Len(irq[u]) : k \in 1 .. MaxNest
  <2> SUFFICES ASSUME NEW u \in Task, NEW k \in 1 .. Len(irq[u]) PROVE k \in 1 .. MaxNest
    BY Zenon
  <2>1. Len(irq[u]) \in Nat /\ Len(irq[u]) <= MaxNest /\ MaxNest \in Nat
    BY <1>1, InterruptsAssumption, Zenon DEF Handlers, StacksOK, IsStack
  <2> QED BY <2>1
<1>3. \A u, k : <<u, k>> \in Unended(l) <=>
        /\ u \in Task /\ k \in 1 .. Len(irq[u])
        /\ irq[u][k].line = l /\ irq[u][k].at # "switch"
  BY <1>1, <1>2, InterruptsAssumption DEF Unended, Handlers, StacksOK, IsStack
<1>4. \A h \in Unended(l) : h = <<h[1], h[2]>> /\ <<h[1], h[2]>> \in Unended(l)
  BY DEF Unended
<1>5. \A f : IsFrame(f) =>
        /\ f.line \in {PIC_IRQ0, PIC_IRQ1, NoLine}
        /\ f.line = PIC_IRQ0 /\ f.at # "switch" <=> f.at = "timer_eoi"
        /\ f.line = PIC_IRQ1 => f.at # "switch"
  <2> SUFFICES ASSUME NEW f, IsFrame(f)
               PROVE  /\ f.line \in {PIC_IRQ0, PIC_IRQ1, NoLine}
                      /\ f.line = PIC_IRQ0 /\ f.at # "switch" <=> f.at = "timer_eoi"
                      /\ f.line = PIC_IRQ1 => f.at # "switch"
    BY Zenon
  <2> DEFINE line == f.line
             at == f.at
  <2>1. \/ line = 0 /\ at \in {"timer_eoi", "switch"}
        \/ line = 1 /\ at \in {"read", "store", "advance", "eoi"}
        \/ line = -1 /\ at = "panic"
    BY Zenon DEF IsFrame, PIC_IRQ0, PIC_IRQ1, NoLine
  <2> HIDE DEF line, at
  <2>2. /\ line \in {0, 1, -1} /\ (line = 0 /\ at # "switch" <=> at = "timer_eoi")
        /\ line = 1 => at # "switch"
    BY <2>1
  <2> QED BY <2>2, Zenon DEF line, at, PIC_IRQ0, PIC_IRQ1, NoLine
<1>6. \A u \in Task : \A k \in 1 .. Len(irq[u]) :
        /\ irq[u][k].line \in {PIC_IRQ0, PIC_IRQ1, NoLine}
        /\ irq[u][k].line = PIC_IRQ0 /\ irq[u][k].at # "switch" <=> irq[u][k].at = "timer_eoi"
        /\ irq[u][k].line = PIC_IRQ1 => irq[u][k].at # "switch"
  BY <1>1, <1>5, Zenon DEF Handlers, StacksOK
<1>7. ASSUME (l \in pic.isr) <=> \E u, k : <<u, k>> \in Unended(l),
             \A u, k, v, j : <<u, k>> \in Unended(l) /\ <<v, j>> \in Unended(l) => u = v /\ k = j
      PROVE  /\ (l \in pic.isr) <=> (Unended(l) # {})
             /\ \A a, b \in Unended(l) : a = b
  <2>1. (Unended(l) # {}) <=> \E u, k : <<u, k>> \in Unended(l)
    <3>1. ASSUME NEW h \in Unended(l) PROVE \E u, k : <<u, k>> \in Unended(l)
      BY <1>4, <3>1, Zenon
    <3> QED BY <3>1, Zenon
  <2>2. ASSUME NEW a \in Unended(l), NEW b \in Unended(l) PROVE a = b
    <3>1. a = <<a[1], a[2]>> /\ b = <<b[1], b[2]>>
      BY <1>4, Zenon
    <3>2. <<a[1], a[2]>> \in Unended(l) /\ <<b[1], b[2]>> \in Unended(l)
      BY <1>4, Zenon
    <3>3. a[1] = b[1] /\ a[2] = b[2]
      <4> DEFINE U == Unended(l)
      <4>1. /\ \A u, k, v, j : <<u, k>> \in U /\ <<v, j>> \in U => u = v /\ k = j
            /\ <<a[1], a[2]>> \in U /\ <<b[1], b[2]>> \in U
        BY <1>7, <3>2, Zenon
      <4> HIDE DEF U
      <4> QED BY <4>1, Zenon
    <3> QED BY <3>1, <3>3, Zenon
  <2> QED BY <1>7, <2>1, <2>2, Zenon
<1>8. CASE l = PIC_IRQ0
  <2>1. \A u, k : <<u, k>> \in Unended(l) <=>
          u \in Task /\ k \in 1 .. Len(irq[u]) /\ irq[u][k].at = "timer_eoi"
    BY <1>3, <1>6, <1>8, Zenon
  <2>2. (l \in pic.isr) <=> \E u, k : <<u, k>> \in Unended(l)
    BY <1>1, <1>8, <2>1, Zenon DEF Handlers, InServiceExact
  <2>3. \A u, k : <<u, k>> \in Unended(l) => u = current /\ k = Len(irq[current])
    BY <1>1, <2>1, Zenon DEF Handlers, TimerInnermost
  <2>4. \A u, k, v, j : <<u, k>> \in Unended(l) /\ <<v, j>> \in Unended(l) => u = v /\ k = j
    BY <2>3
  <2> QED BY <1>7, <2>2, <2>4, Zenon
<1>9. CASE l = PIC_IRQ1
  <2>1. \A u, k : <<u, k>> \in Unended(l) <=>
          u \in Task /\ k \in 1 .. Len(irq[u]) /\ irq[u][k].line = PIC_IRQ1
    BY <1>3, <1>6, <1>9, Zenon
  <2>2. (l \in pic.isr) <=> \E u, k : <<u, k>> \in Unended(l)
    BY <1>1, <1>9, <2>1, Zenon DEF Handlers, InServiceExact
  <2>3. \A u, k, v, j : <<u, k>> \in Unended(l) /\ <<v, j>> \in Unended(l) => u = v /\ k = j
    <3>1. \A u, v \in Task : \A j \in 1 .. Len(irq[u]), k \in 1 .. Len(irq[v]) :
            irq[u][j].line = PIC_IRQ1 /\ irq[v][k].line = PIC_IRQ1 => u = v /\ j = k
      BY <1>1, Zenon DEF Handlers, OneKeyboardHandler
    <3> SUFFICES ASSUME NEW u, NEW k, NEW v, NEW j,
                        <<u, k>> \in Unended(l), <<v, j>> \in Unended(l)
                 PROVE  u = v /\ k = j
      BY Zenon
    <3>2. /\ u \in Task /\ k \in 1 .. Len(irq[u]) /\ irq[u][k].line = PIC_IRQ1
          /\ v \in Task /\ j \in 1 .. Len(irq[v]) /\ irq[v][j].line = PIC_IRQ1
      BY <2>1, Zenon
    <3> QED BY <3>1, <3>2, Zenon
  <2> QED BY <1>7, <2>2, <2>3, Zenon
<1>10. CASE l \in OtherLines
  <2>1. l \notin {PIC_IRQ0, PIC_IRQ1, NoLine}
    BY <1>10, InterruptsAssumption DEF PIC_IRQ0, PIC_IRQ1, NoLine
  <2>2. l \notin pic.isr
    BY <1>1, <2>1, Zenon DEF Handlers, InServiceExact
  <2>3. \A u, k : <<u, k>> \notin Unended(l)
    <3> SUFFICES ASSUME NEW u, NEW k, <<u, k>> \in Unended(l) PROVE FALSE
      BY Zenon
    <3>1. u \in Task /\ k \in 1 .. Len(irq[u]) /\ irq[u][k].line = l
      BY <1>3, Zenon
    <3>2. irq[u][k].line \in {PIC_IRQ0, PIC_IRQ1, NoLine}
      BY <1>6, <3>1, Zenon
    <3> QED BY <2>1, <3>1, <3>2, Zenon
  <2>4. (l \in pic.isr) <=> \E u, k : <<u, k>> \in Unended(l)
    BY <2>2, <2>3, Zenon
  <2>5. \A u, k, v, j : <<u, k>> \in Unended(l) /\ <<v, j>> \in Unended(l) => u = v /\ k = j
    BY <2>3, Zenon
  <2> QED BY <1>7, <2>4, <2>5, Zenon
<1> QED BY <1>8, <1>9, <1>10, Zenon DEF Lines

\* However the handlers of timer_irq_handler and ps2_handle_irq1 are nested and
\* on whichever tasks' stacks they wait, the end of interrupt that pic_send_eoi
\* sends is never credited to another handler's line: a line is in service
\* exactly while one handler for it is active.
THEOREM EndsOwnInterrupt == Spec => []InServiceHeld
<1>1. Init => IInv
  BY InitIInv, Zenon
<1>2. IInv /\ [Next]_vars => IInv'
  BY NextIInv, Zenon
<1>3. IInv => InServiceHeld
  BY IInvImplies, Zenon
<1> QED BY <1>1, <1>2, <1>3, PTL DEF Spec

-----------------------------------------------------------------------------
(* What steps do to the handlers that have a key in hand.                  *)

\* All frames, on whichever stack.
Frames == UNION {{irq[t][k] : k \in DOMAIN irq[t]} : t \in Task}

LEMMA FramesFact == \A f : f \in Frames <=> \E t \in Task : \E k \in DOMAIN irq[t] : f = irq[t][k]
BY DEF Frames

\* The same about the next state.
LEMMA FramesNext ==
    \A f : f \in Frames' <=> \E t \in Task : \E k \in DOMAIN irq'[t] : f = irq'[t][k]
BY DEF Frames

LEMMA StackDomain == ASSUME NEW s, IsStack(s) PROVE DOMAIN s = 1 .. Len(s)
BY Zenon DEF IsStack

LEMMA PushFrames ==
    ASSUME StacksOK, NEW t \in Task, NEW f, Pushed(t, f)
    PROVE  Frames' = Frames \cup {f}
<1>1. /\ \A u \in Task : IsStack(irq[u]) /\ DOMAIN irq[u] = 1 .. Len(irq[u]) /\ Len(irq[u]) \in Nat
      /\ DOMAIN irq'[t] = 1 .. Len(irq[t]) + 1
  BY StackDomain, Zenon DEF StacksOK, Pushed, IsStack
<1>2. ASSUME NEW g \in Frames' PROVE g \in Frames \cup {f}
  <2>1. PICK u \in Task : \E k \in DOMAIN irq'[u] : g = irq'[u][k]
    BY FramesNext, Zenon
  <2>2. PICK k \in DOMAIN irq'[u] : g = irq'[u][k]
    BY <2>1, Zenon
  <2> QED BY <1>1, <2>2, FramesFact DEF Pushed
<1>3. ASSUME NEW g \in Frames PROVE g \in Frames'
  <2>1. PICK u \in Task : \E k \in DOMAIN irq[u] : g = irq[u][k]
    BY FramesFact, Zenon
  <2>2. PICK k \in DOMAIN irq[u] : g = irq[u][k]
    BY <2>1, Zenon
  <2>3. k \in DOMAIN irq'[u] /\ g = irq'[u][k]
    BY <1>1, <2>2 DEF Pushed
  <2> QED BY <2>3, FramesNext, Zenon
<1>4. f \in Frames'
  BY <1>1, FramesNext DEF Pushed
<1> QED BY <1>2, <1>3, <1>4, Zenon

LEMMA PopFrames ==
    ASSUME StacksOK, NEW t \in Task, irq[t] # <<>>, PoppedOff(t)
    PROVE  Frames' \subseteq Frames /\ Frames \subseteq Frames' \cup {Top(t)} /\ Top(t) \in Frames
<1>1. /\ \A u \in Task : IsStack(irq[u]) /\ DOMAIN irq[u] = 1 .. Len(irq[u])
      /\ DOMAIN irq'[t] = 1 .. Len(irq[t]) - 1
      /\ Len(irq[t]) \in Nat \ {0} /\ Top(t) = irq[t][Len(irq[t])]
  BY StackDomain, TopFact, Zenon DEF StacksOK, PoppedOff
<1>2. ASSUME NEW g \in Frames' PROVE g \in Frames
  <2>1. PICK u \in Task : \E k \in DOMAIN irq'[u] : g = irq'[u][k]
    BY FramesNext, Zenon
  <2>2. PICK k \in DOMAIN irq'[u] : g = irq'[u][k]
    BY <2>1, Zenon
  <2> QED BY <1>1, <2>2, FramesFact DEF PoppedOff
<1>3. ASSUME NEW g \in Frames PROVE g \in Frames' \cup {Top(t)}
  <2>1. PICK u \in Task : \E k \in DOMAIN irq[u] : g = irq[u][k]
    BY FramesFact, Zenon
  <2>2. PICK k \in DOMAIN irq[u] : g = irq[u][k]
    BY <2>1, Zenon
  <2>3. g = Top(t) \/ (k \in DOMAIN irq'[u] /\ g = irq'[u][k])
    BY <1>1, <2>2 DEF PoppedOff
  <2> QED BY <2>3, FramesNext, Zenon
<1>4. Top(t) \in Frames
  BY <1>1, FramesFact
<1> QED BY <1>2, <1>3, <1>4, Zenon

\* There is one frame of the keyboard's handler at most.
LEMMA ReplaceFrames ==
    ASSUME StacksOK, OneKeyboardHandler, NEW t \in Task, irq[t] # <<>>, NEW f, ReplacedBy(t, f)
    PROVE  /\ Frames' \subseteq Frames \cup {f} /\ Frames \subseteq Frames' \cup {Top(t)}
           /\ Top(t) \in Frames /\ f \in Frames'
           /\ Top(t).line = PIC_IRQ1 =>
                /\ \A g \in Frames : g.line = PIC_IRQ1 => g = Top(t)
                /\ \A g \in Frames' : g.line = PIC_IRQ1 => g = f
<1> DEFINE n == Len(irq[t])
<1>1. /\ \A u \in Task : IsStack(irq[u]) /\ DOMAIN irq[u] = 1 .. Len(irq[u])
      /\ DOMAIN irq'[t] = 1 .. n
      /\ n \in Nat \ {0} /\ Top(t) = irq[t][n] /\ irq'[t][n] = f
      /\ \A u \in Task \ {t} : irq'[u] = irq[u]
      /\ \A k \in 1 .. n - 1 : irq'[t][k] = irq[t][k]
  BY StackDomain, TopFact, Zenon DEF StacksOK, ReplacedBy
<1> HIDE DEF n
<1>2. ASSUME NEW g \in Frames'
      PROVE  /\ g \in Frames \cup {f}
             /\ Top(t).line = PIC_IRQ1 /\ g.line = PIC_IRQ1 => g = f
  <2>1. PICK u \in Task : \E k \in DOMAIN irq'[u] : g = irq'[u][k]
    BY FramesNext, Zenon
  <2>2. PICK k \in DOMAIN irq'[u] : g = irq'[u][k]
    BY <2>1, Zenon
  <2>3. \/ g = f
        \/ k \in 1 .. Len(irq[u]) /\ g = irq[u][k] /\ (u # t \/ k # n)
    BY <1>1, <2>2 DEF n
  <2>4. n \in 1 .. Len(irq[t])
    BY <1>1 DEF n
  <2> QED BY <1>1, <2>3, <2>4, FramesFact DEF OneKeyboardHandler
<1>3. ASSUME NEW g \in Frames
      PROVE  /\ g \in Frames' \cup {Top(t)}
             /\ Top(t).line = PIC_IRQ1 /\ g.line = PIC_IRQ1 => g = Top(t)
  <2>1. PICK u \in Task : \E k \in DOMAIN irq[u] : g = irq[u][k]
    BY FramesFact, Zenon
  <2>2. PICK k \in DOMAIN irq[u] : g = irq[u][k]
    BY <2>1, Zenon
  <2>3. g = Top(t) \/ (k \in DOMAIN irq'[u] /\ g = irq'[u][k])
    BY <1>1, <2>2 DEF n
  <2>4. n \in 1 .. Len(irq[t]) /\ k \in 1 .. Len(irq[u])
    BY <1>1, <2>2 DEF n
  <2>5. g \in Frames' \cup {Top(t)}
    BY <2>3, FramesNext, Zenon
  <2> QED BY <1>1, <2>2, <2>4, <2>5 DEF OneKeyboardHandler
<1>4. Top(t) \in Frames /\ f \in Frames'
  BY <1>1, FramesFact, FramesNext DEF n
<1> QED BY <1>2, <1>3, <1>4, Zenon

\* The frames of the keyboard's handler in which a byte is on its way.
KeyFrames == {f \in Frames : f.at \in {"read", "store", "advance"}}

LEMMA SameFrames == UNCHANGED irq => UNCHANGED <<Frames, KeyFrames>>
BY DEF Frames, KeyFrames

LEMMA EnterPushes ==
    ASSUME IInv, NEW l \in 0 .. 15, Enter(l)
    PROVE  /\ current \in Task /\ UNCHANGED current /\ CpuOK /\ Handlers /\ PicOK
           /\ \E f : /\ Pushed(current, f)
                     /\ f.at = IF l = PIC_IRQ0 THEN "timer_eoi"
                               ELSE IF l = PIC_IRQ1 THEN "read" ELSE "panic"
<1> DEFINE a == IF l = PIC_IRQ0 THEN "timer_eoi" ELSE IF l = PIC_IRQ1 THEN "read" ELSE "panic"
           f == Frame(l, a)
<1>1. /\ ~ halted /\ iflag /\ current \in Task /\ UNCHANGED current
      /\ CpuOK /\ Handlers /\ StacksOK /\ PicOK
  BY Zenon DEF IInv, CpuOK, Handlers, Enter
<1>2. pic.base = 32
  BY <1>1, Zenon DEF PicOK, PIC1_INT_OFFSET
<1>3. Gate(32 + l) = IF l = PIC_IRQ0 THEN "timer_irq_handler"
                     ELSE IF l = PIC_IRQ1 THEN "keyboard_irq_handler"
                     ELSE "default_exception_handler"
  BY DEF Gate, ExceptionVectors, PIC_IRQ0, PIC_IRQ1
<1>4. irq' = [irq EXCEPT ![current] = Append(@, f)]
  <2>1. CASE l = PIC_IRQ0
    BY <1>2, <1>3, <2>1, Zenon DEF Enter
  <2>2. CASE l = PIC_IRQ1
    BY <1>2, <1>3, <2>2, Zenon DEF Enter, PIC_IRQ0, PIC_IRQ1
  <2>3. CASE l # PIC_IRQ0 /\ l # PIC_IRQ1
    BY <1>2, <1>3, <2>3, Zenon DEF Enter
  <2> QED BY <2>1, <2>2, <2>3, Zenon
<1>5. f.at = a
  BY Zenon DEF Frame
<1> HIDE DEF f
<1>6. Pushed(current, f)
  BY <1>1, <1>4, PushStep, Zenon
<1> QED BY <1>1, <1>5, <1>6, Zenon

\* No other step changes them.
Bystander ==
    \/ main_step \/ controller \/ key_press \/ tick \/ \E l \in OtherLines : other_irq(l)
    \/ \E t \in Task : \/ leave(t) \/ exception_handler(t) \/ panic(t)
                       \/ timer_irq_handler(t) \/ keyboard_eoi(t)
    \/ UNCHANGED vars

LEMMA BystanderFact == IInv /\ Bystander => UNCHANGED KeyFrames
<1> SUFFICES ASSUME IInv, Bystander PROVE UNCHANGED KeyFrames
  BY Zenon
<1>1. CASE UNCHANGED irq
  BY <1>1, SameFrames, Zenon
<1>2. CASE main_step
  BY <1>1, <1>2, InitDevicesFact, Zenon DEF main_step, idt_init, start_tasks, cpu
<1>3. CASE controller \/ key_press
  BY <1>1, <1>3, Zenon DEF controller, controller_cmd, controller_data, controller_receive, key_press, cpu
<1>4. CASE \E l \in 0 .. 15 : l # PIC_IRQ1 /\ Enter(l)
  <2>1. PICK f : /\ Pushed(current, f) /\ f.at \in {"timer_eoi", "panic"}
                 /\ current \in Task /\ StacksOK
    BY <1>4, EnterPushes, Zenon DEF Handlers
  <2>2. Frames' = Frames \cup {f}
    BY <2>1, PushFrames, Zenon
  <2> QED BY <2>1, <2>2, Zenon DEF KeyFrames
<1>5. CASE tick \/ \E l \in OtherLines : other_irq(l)
  BY <1>4, <1>5, InterruptsAssumption DEF tick, other_irq, PIC_IRQ0, PIC_IRQ1
<1>6. CASE \E t \in Task : leave(t) \/ panic(t)
  BY <1>1, <1>6, Zenon DEF leave, panic
<1>7. ASSUME NEW t \in Task, exception_handler(t) PROVE UNCHANGED KeyFrames
  <2> DEFINE f == Frame(NoLine, "panic")
  <2>1. irq' = [irq EXCEPT ![t] = Append(@, f)] /\ CpuOK /\ StacksOK /\ f.at = "panic"
    BY <1>7, Zenon DEF exception_handler, Runs, IInv, Handlers, Frame
  <2> HIDE DEF f
  <2>2. Frames' = Frames \cup {f}
    BY <2>1, PushStep, PushFrames, Zenon
  <2> QED BY <2>1, <2>2, Zenon DEF KeyFrames
<1>8. ASSUME NEW t \in Task, NEW a \in {"timer_eoi", "switch", "eoi"}, HandlerAt(t, a), irq' = Popped(t)
      PROVE  UNCHANGED KeyFrames
  <2>1. irq[t] # <<>> /\ Top(t).at = a /\ CpuOK /\ StacksOK
    BY <1>8, HandlerFact, Zenon
  <2>2. Frames' \subseteq Frames /\ Frames \subseteq Frames' \cup {Top(t)}
    BY <1>8, <2>1, PopStep, PopFrames, Zenon
  <2> QED BY <2>1, <2>2, Zenon DEF KeyFrames
<1>9. ASSUME NEW t \in Task, HandlerAt(t, "timer_eoi"), irq' = To(t, "switch")
      PROVE  UNCHANGED KeyFrames
  <2>1. /\ irq[t] # <<>> /\ Top(t).at = "timer_eoi" /\ CpuOK /\ StacksOK /\ OneKeyboardHandler
    BY <1>9, HandlerFact, Zenon DEF Handlers
  <2> DEFINE f == [line |-> Top(t).line, at |-> "switch", code |-> Top(t).code]
  <2>2. irq' = Replaced(t, f) /\ f.at = "switch"
    BY <1>9, <2>1, TopFact, Zenon DEF To
  <2> HIDE DEF f
  <2>3. Frames' \subseteq Frames \cup {f} /\ Frames \subseteq Frames' \cup {Top(t)}
    BY <2>1, <2>2, ReplaceStep, ReplaceFrames, Zenon
  <2> QED BY <2>1, <2>2, <2>3, Zenon DEF KeyFrames
<1>10. ASSUME NEW t \in Task, timer_irq_handler(t) \/ keyboard_eoi(t) PROVE UNCHANGED KeyFrames
  BY <1>8, <1>9, <1>10, Zenon DEF timer_irq_handler, timer_eoi, timer_switch, keyboard_eoi
<1>11. CASE UNCHANGED vars
  BY <1>1, <1>11, Zenon DEF vars, cpu
<1> QED BY <1>2, <1>3, <1>5, <1>6, <1>7, <1>10, <1>11, Zenon DEF Bystander

\* A step of the keyboard's handler before its end of interrupt.
LEMMA KeyboardFrames ==
    ASSUME IInv, NEW t \in Task, NEW a \in {"read", "store", "advance"}, HandlerAt(t, a),
           NEW f, f.line = PIC_IRQ1, irq' = Replaced(t, f)
    PROVE  /\ Top(t).at = a /\ KeyFrames = {Top(t)}
           /\ KeyFrames' = IF f.at \in {"read", "store", "advance"} THEN {f} ELSE {}
           /\ Frames' \subseteq Frames \cup {f}
<1>1. /\ irq[t] # <<>> /\ Top(t).at = a /\ IsFrame(Top(t))
      /\ CpuOK /\ StacksOK /\ OneKeyboardHandler
  BY HandlerFact, Zenon DEF Handlers
<1>2. Top(t).line = PIC_IRQ1
  BY <1>1, Zenon DEF IsFrame
<1>3. /\ Frames' \subseteq Frames \cup {f} /\ Frames \subseteq Frames' \cup {Top(t)}
      /\ Top(t) \in Frames /\ f \in Frames'
      /\ \A g \in Frames : g.line = PIC_IRQ1 => g = Top(t)
      /\ \A g \in Frames' : g.line = PIC_IRQ1 => g = f
  BY <1>1, <1>2, ReplaceStep, ReplaceFrames, Zenon
<1>4. \A g \in Frames : g.at \in {"read", "store", "advance"} => g.line = PIC_IRQ1
  <2>1. \A g \in Frames : IsFrame(g)
    BY <1>1, FramesFact, StackDomain DEF StacksOK
  <2> QED BY <2>1, Zenon DEF IsFrame
<1> QED BY <1>1, <1>3, <1>4, Zenon DEF KeyFrames
-----------------------------------------------------------------------------
(* The queue.                                                              *)

\* The queue is a ring buffer, and its history at most one round of it.
QueueOK ==
    /\ queue = [start |-> queue.start, end |-> queue.end, buf |-> queue.buf]
    /\ queue.end \in 0 .. PS2_SCANCODE_QUEUE_SIZE - 1
    /\ queue.buf = [i \in 0 .. PS2_SCANCODE_QUEUE_SIZE - 1 |-> queue.buf[i]]
    /\ IsStack(recent) /\ Len(recent) <= PS2_SCANCODE_QUEUE_SIZE

QueueInv == QueueOK /\ QueueHoldsLatest

LEMMA AdvancingFact == Advancing <=> \E f \in KeyFrames : f.at = "advance"
BY FramesFact DEF Advancing, KeyFrames

LEMMA AdvancingNext == Advancing' <=> \E f \in KeyFrames' : f.at = "advance"
BY FramesNext DEF Advancing, KeyFrames

LEMMA InitQueueInv == Init => QueueInv
<1> SUFFICES ASSUME Init PROVE QueueInv
  BY Zenon
<1> DEFINE N == PS2_SCANCODE_QUEUE_SIZE
<1>1. N \in Nat \ {0}
  BY InterruptsAssumption, Zenon
<1>2. queue.end = 0 /\ queue.buf = [i \in 0 .. N - 1 |-> 0] /\ recent = <<>>
  BY Zenon DEF Init
<1>3. queue = [start |-> queue.start, end |-> queue.end, buf |-> queue.buf]
  BY Zenon DEF Init
<1>4. IsStack(recent) /\ Len(recent) = 0
  BY <1>2 DEF IsStack
<1> QED BY <1>1, <1>2, <1>3, <1>4 DEF QueueInv, QueueOK, QueueHoldsLatest

LEMMA SameQueue ==
    ASSUME QueueInv, UNCHANGED <<queue, recent, KeyFrames>>
    PROVE  QueueInv'
<1>1. Advancing' <=> Advancing
  BY AdvancingFact, AdvancingNext, Zenon
<1> QED BY <1>1, Zenon DEF QueueInv, QueueOK, QueueHoldsLatest

LEMMA InitScancodeQueue == QueueInv /\ init_scancode_queue => QueueInv'
<1> SUFFICES ASSUME QueueInv, init_scancode_queue PROVE QueueInv'
  BY Zenon
<1> DEFINE N == PS2_SCANCODE_QUEUE_SIZE
<1>1. N \in Nat \ {0}
  BY InterruptsAssumption, Zenon
<1>2. queue' = [start |-> 0, end |-> 0, buf |-> queue.buf] /\ recent' = <<>>
  BY Zenon DEF init_scancode_queue
<1>3. queue.buf = [i \in 0 .. N - 1 |-> queue.buf[i]]
  BY Zenon DEF QueueInv, QueueOK
<1>4. IsStack(recent') /\ Len(recent') = 0
  BY <1>2 DEF IsStack
<1>5. /\ queue' = [start |-> queue'.start, end |-> queue'.end, buf |-> queue'.buf]
      /\ queue'.end = 0 /\ queue'.buf = queue.buf
  BY <1>2, Zenon
<1> QED BY <1>1, <1>3, <1>4, <1>5 DEF QueueInv, QueueOK, QueueHoldsLatest

\* What Recent does with a byte.
LEMMA RecentFact ==
    ASSUME QueueOK, NEW b
    PROVE  /\ IsStack(Recent(b)) /\ Len(Recent(b)) \in 1 .. PS2_SCANCODE_QUEUE_SIZE
           /\ Len(Recent(b)) <= Len(recent) + 1
           /\ Recent(b)[Len(Recent(b))] = b
           /\ \A i \in 1 .. Len(Recent(b)) - 1 :
                Recent(b)[Len(Recent(b)) - i] = recent[Len(recent) + 1 - i]
<1> DEFINE N == PS2_SCANCODE_QUEUE_SIZE
           all == Append(recent, b)
           n == Len(recent)
<1>1. N \in Nat \ {0} /\ n \in Nat /\ n <= N
  BY InterruptsAssumption, Zenon DEF QueueOK, IsStack
<1>2. /\ IsStack(all) /\ Len(all) = n + 1 /\ all[n + 1] = b
      /\ \A k \in 1 .. n : all[k] = recent[k]
  BY PushFact DEF QueueOK
<1>3. Recent(b) = IF n + 1 > N THEN Tail(all) ELSE all
  BY <1>2, Zenon DEF Recent
<1> HIDE DEF all, n, N
<1>4. IsStack(Tail(all)) /\ Len(Tail(all)) = n /\ \A k \in 1 .. n : Tail(all)[k] = all[k + 1]
  <2> DEFINE S == {all[k] : k \in 1 .. Len(all)}
  <2>1. all \in Seq(S)
    BY <1>2, StackIsSeq, Zenon
  <2> HIDE DEF S
  <2>2. /\ Tail(all) \in Seq(S) /\ Len(Tail(all)) = n
        /\ \A k \in 1 .. n : Tail(all)[k] = all[k + 1]
    BY <1>1, <1>2, <2>1
  <2> QED BY <2>2, SeqIsStack, Zenon
<1>5. CASE n + 1 > N
  <2>1. Recent(b) = Tail(all) /\ n = N
    BY <1>1, <1>3, <1>5
  <2>2. Tail(all)[n] = b
    BY <1>1, <1>2, <1>4, <2>1
  <2>3. ASSUME NEW i \in 1 .. n - 1 PROVE Tail(all)[n - i] = recent[n + 1 - i]
    <3>1. n - i \in 1 .. n /\ (n - i) + 1 \in 1 .. n /\ (n - i) + 1 = n + 1 - i
      BY <1>1
    <3>2. Tail(all)[n - i] = all[(n - i) + 1]
      BY <1>4, <3>1, Zenon
    <3>3. all[(n - i) + 1] = recent[(n - i) + 1]
      BY <1>2, <3>1, Zenon
    <3> QED BY <3>1, <3>2, <3>3, Zenon
  <2>4. n \in 1 .. N /\ n <= n + 1
    BY <1>1, <2>1
  <2>5. Len(Recent(b)) = n /\ IsStack(Recent(b))
    BY <1>4, <2>1, Zenon
  <2>6. Recent(b)[n] = b /\ \A i \in 1 .. n - 1 : Recent(b)[n - i] = recent[n + 1 - i]
    BY <2>1, <2>2, <2>3, Zenon
  <2> QED BY <2>4, <2>5, <2>6, Zenon DEF n, N
<1>6. CASE ~ (n + 1 > N)
  BY <1>1, <1>2, <1>3, <1>6 DEF n, N
<1> QED BY <1>5, <1>6, Zenon

\* The byte is stored behind the last one while no other handler is between its
\* two writes.
LEMMA StoreQueueInv == \A t \in Task : IInv /\ QueueInv /\ keyboard_store(t) => QueueInv'
<1> SUFFICES ASSUME NEW t \in Task, IInv, QueueInv, keyboard_store(t) PROVE QueueInv'
  BY Zenon
<1> DEFINE N == PS2_SCANCODE_QUEUE_SIZE
           e == queue.end
           c == Top(t).code
           n == Len(recent')
<1>1. N \in Nat \ {0} /\ e \in 0 .. N - 1
  BY InterruptsAssumption, Zenon DEF QueueInv, QueueOK
<1>2. ~ Advancing /\ Advancing'
  <2>1. HandlerAt(t, "store") /\ Top(t).line = PIC_IRQ1 /\ irq[t] # <<>> /\ StacksOK
    BY HandlerFact DEF keyboard_store, Store, IsFrame
  <2> DEFINE f == [line |-> PIC_IRQ1, at |-> "advance", code |-> c]
  <2>2. irq' = Replaced(t, f) /\ f.line = PIC_IRQ1 /\ f.at = "advance"
    BY <2>1, TopFact, Zenon DEF keyboard_store, Store, To
  <2> HIDE DEF f
  <2>3. Top(t).at = "store" /\ KeyFrames = {Top(t)} /\ KeyFrames' = {f}
    BY <2>1, <2>2, KeyboardFrames, Zenon
  <2> QED BY <2>2, <2>3, AdvancingFact, AdvancingNext, Zenon
<1>3. /\ queue' = [start |-> queue.start, end |-> e, buf |-> [queue.buf EXCEPT ![e] = c]]
      /\ recent' = Recent(c)
  BY Zenon DEF keyboard_store, Store, QueueInv, QueueOK
<1>4. /\ queue' = [start |-> queue'.start, end |-> queue'.end, buf |-> queue'.buf]
      /\ queue'.end = e
      /\ queue'.buf = [i \in 0 .. N - 1 |-> queue'.buf[i]]
      /\ queue'.buf[e] = c
      /\ \A i \in (0 .. N - 1) \ {e} : queue'.buf[i] = queue.buf[i]
  <2>1. queue.buf = [i \in 0 .. N - 1 |-> queue.buf[i]]
    BY Zenon DEF QueueInv, QueueOK
  <2> QED BY <1>1, <1>3, <2>1, Zenon
<1>5. /\ IsStack(recent') /\ n \in 1 .. N /\ n <= Len(recent) + 1 /\ recent'[n] = c
      /\ \A i \in 1 .. n - 1 : recent'[n - i] = recent[Len(recent) + 1 - i]
  BY <1>3, RecentFact DEF QueueInv
<1>6. Len(recent) \in Nat
  BY Zenon DEF QueueInv, QueueOK, IsStack
<1>7. \A i \in 0 .. Len(recent) - 1 : queue.buf[(e - 1 - i) % N] = recent[Len(recent) - i]
  BY <1>2, Zenon DEF QueueInv, QueueHoldsLatest
<1> HIDE DEF N, e, c, n
<1>8. ASSUME NEW i \in 0 .. n - 1 PROVE queue'.buf[(e - 0 - i) % N] = recent'[n - i]
  <2>1. CASE i = 0
    <3>1. (e - 0 - i) % N = e
      BY <1>1, <2>1
    <3> QED BY <1>1, <1>4, <1>5, <2>1, <3>1
  <2>2. CASE i # 0
    <3>1. i \in 1 .. n - 1 /\ i \in 1 .. N - 1 /\ i - 1 \in 0 .. Len(recent) - 1
      BY <1>1, <1>5, <1>6, <2>2
    <3>2. (e - 0 - i) % N \in (0 .. N - 1) \ {e} /\ e - 0 - i = e - 1 - (i - 1)
      BY <1>1, <3>1
    <3>3. queue'.buf[(e - 0 - i) % N] = queue.buf[(e - 1 - (i - 1)) % N]
      BY <1>4, <3>2, Zenon
    <3>4. recent'[n - i] = recent[Len(recent) - (i - 1)]
      BY <1>5, <1>6, <3>1
    <3> QED BY <1>7, <3>1, <3>3, <3>4, Zenon
  <2> QED BY <2>1, <2>2, Zenon
<1> QED BY <1>1, <1>2, <1>4, <1>5, <1>8 DEF QueueInv, QueueOK, QueueHoldsLatest, N, n

LEMMA AdvanceQueueInv == \A t \in Task : IInv /\ QueueInv /\ keyboard_advance(t) => QueueInv'
<1> SUFFICES ASSUME NEW t \in Task, IInv, QueueInv, keyboard_advance(t) PROVE QueueInv'
  BY Zenon
<1> DEFINE N == PS2_SCANCODE_QUEUE_SIZE
           e == queue.end
<1>1. N \in Nat \ {0} /\ e \in 0 .. N - 1
  BY InterruptsAssumption, Zenon DEF QueueInv, QueueOK
<1>2. Advancing /\ ~ Advancing'
  <2>1. HandlerAt(t, "advance") /\ Top(t).line = PIC_IRQ1 /\ irq[t] # <<>> /\ StacksOK
    BY HandlerFact DEF keyboard_advance, IsFrame
  <2> DEFINE f == [line |-> PIC_IRQ1, at |-> "eoi", code |-> Top(t).code]
  <2>2. irq' = Replaced(t, f) /\ f.line = PIC_IRQ1 /\ f.at = "eoi"
    BY <2>1, TopFact, Zenon DEF keyboard_advance, To
  <2> HIDE DEF f
  <2>3. Top(t).at = "advance" /\ KeyFrames = {Top(t)} /\ KeyFrames' = {}
    BY <2>1, <2>2, KeyboardFrames, Zenon
  <2> QED BY <2>2, <2>3, AdvancingFact, AdvancingNext, Zenon
<1>3. /\ queue' = [start |-> queue.start, end |-> (e + 1) % N, buf |-> queue.buf]
      /\ recent' = recent
  BY Zenon DEF keyboard_advance, QueueInv, QueueOK, history
<1>4. /\ queue' = [start |-> queue'.start, end |-> queue'.end, buf |-> queue'.buf]
      /\ queue'.end = (e + 1) % N /\ queue'.end \in 0 .. N - 1 /\ queue'.buf = queue.buf
  BY <1>1, <1>3
<1>5. /\ \A i \in 0 .. Len(recent) - 1 : queue.buf[(e - 0 - i) % N] = recent[Len(recent) - i]
      /\ Len(recent) \in Nat /\ Len(recent) <= N
  BY <1>2, Zenon DEF QueueInv, QueueHoldsLatest, QueueOK, IsStack
<1> HIDE DEF N, e
<1>6. ASSUME NEW i \in 0 .. Len(recent) - 1
      PROVE  queue'.buf[(queue'.end - 1 - i) % N] = recent[Len(recent) - i]
  <2>1. i \in 0 .. N - 1
    BY <1>1, <1>5
  <2>2. (queue'.end = e + 1 /\ e + 1 < N) \/ (queue'.end = 0 /\ e = N - 1)
    <3>1. N % N = 0
      BY <1>1
    <3>2. e + 1 \in 0 .. N - 1 => (e + 1) % N = e + 1
      BY <1>1
    <3>3. e + 1 = N \/ e + 1 \in 0 .. N - 1
      BY <1>1
    <3> QED BY <1>1, <1>4, <3>1, <3>2, <3>3
  <2>3. (queue'.end - 1 - i) % N = (e - 0 - i) % N
    <3>1. CASE queue'.end = e + 1
      <4>1. queue'.end - 1 - i = e - 0 - i
        BY <1>1, <2>1, <3>1
      <4> QED BY <4>1, Zenon
    <3>2. CASE queue'.end = 0 /\ e = N - 1
      <4>1. (0 - 1 - i) % N = N - 1 - i /\ (N - 1 - i) % N = N - 1 - i
        BY <1>1, <2>1
      <4> QED BY <1>1, <2>1, <3>2, <4>1
    <3> QED BY <2>2, <3>1, <3>2, Zenon
  <2> QED BY <1>4, <1>5, <2>3, Zenon
<1>7. /\ queue.buf = [i \in 0 .. N - 1 |-> queue.buf[i]]
      /\ IsStack(recent)
  BY Zenon DEF QueueInv, QueueOK, N
<1> QED BY <1>1, <1>2, <1>3, <1>4, <1>5, <1>6, <1>7, Zenon DEF QueueInv, QueueOK, QueueHoldsLatest, N

LEMMA NextQueueInv == IInv /\ QueueInv /\ [Next]_vars => QueueInv'
<1> SUFFICES ASSUME IInv, QueueInv, [Next]_vars PROVE QueueInv'
  BY Zenon
<1>1. CASE init_scancode_queue
  BY <1>1, InitScancodeQueue, Zenon
<1>2. CASE \E t \in Task : keyboard_store(t) \/ keyboard_advance(t)
  BY <1>2, StoreQueueInv, AdvanceQueueInv, Zenon
<1>3. CASE Bystander /\ ~ init_scancode_queue
  <2>1. UNCHANGED <<queue, recent>>
    <3>1. CASE ps2_init_devices
      BY <1>3, <3>1, Zenon
         DEF ps2_init_devices, ps2_flush_controller_output_buffer, ps2_controller_configure,
             ps2_controller_self_test, ps2_interface_self_test, ps2_controller_send_cmd, OutbData,
             InbData, flush_test, configure_read, driver, history
    <3>2. CASE idt_init \/ start_tasks \/ controller \/ key_press
      BY <3>2, Zenon DEF idt_init, start_tasks, controller, controller_cmd, controller_data,
                  controller_receive, key_press, driver, history
    <3>3. CASE tick \/ \E l \in OtherLines : other_irq(l)
      BY <3>3, Zenon DEF tick, other_irq, Enter, driver, history
    <3>4. CASE \E t \in Task : \/ leave(t) \/ exception_handler(t) \/ panic(t)
                               \/ timer_irq_handler(t) \/ keyboard_eoi(t)
      BY <3>4, Zenon DEF leave, exception_handler, panic, timer_irq_handler, timer_eoi, timer_switch,
                  keyboard_eoi, driver, history
    <3>5. CASE UNCHANGED vars
      BY <3>5, Zenon DEF vars, driver, history
    <3> QED BY <1>3, <3>1, <3>2, <3>3, <3>4, <3>5, Zenon DEF Bystander, main_step
  <2> QED BY <1>3, <2>1, BystanderFact, SameQueue, Zenon
<1>4. CASE keyboard_irq
  <2>1. UNCHANGED <<queue, recent>>
    BY <1>4, Zenon DEF keyboard_irq, Enter, driver, history
  <2>2. PICK f : /\ Pushed(current, f) /\ f.at = "read" /\ current \in Task /\ StacksOK
    BY <1>4, EnterPushes DEF keyboard_irq, Handlers, PIC_IRQ0, PIC_IRQ1
  <2>3. Frames' = Frames \cup {f}
    BY <2>2, PushFrames, Zenon
  <2>4. Advancing' <=> Advancing
    BY <2>2, <2>3, AdvancingFact, AdvancingNext, Zenon DEF KeyFrames
  <2> QED BY <2>1, <2>4, Zenon DEF QueueInv, QueueOK, QueueHoldsLatest
<1>5. ASSUME NEW t \in Task, keyboard_read(t) PROVE QueueInv'
  <2>1. HandlerAt(t, "read") /\ Top(t).line = PIC_IRQ1 /\ UNCHANGED <<queue, recent>>
    BY <1>5, HandlerFact DEF keyboard_read, IsFrame
  <2> DEFINE f == [line |-> PIC_IRQ1, at |-> "store", code |-> ps2.latch]
  <2>2. irq' = Replaced(t, f) /\ f.line = PIC_IRQ1 /\ f.at = "store"
    BY <1>5, <2>1, Zenon DEF keyboard_read
  <2> HIDE DEF f
  <2>3. Top(t).at = "read" /\ KeyFrames = {Top(t)} /\ KeyFrames' = {f}
    BY <2>1, <2>2, KeyboardFrames, Zenon
  <2>4. Advancing' <=> Advancing
    BY <2>2, <2>3, AdvancingFact, AdvancingNext, Zenon
  <2> QED BY <2>1, <2>4, Zenon DEF QueueInv, QueueOK, QueueHoldsLatest
<1> QED BY <1>1, <1>2, <1>3, <1>4, <1>5, Zenon
        DEF Next, Bystander, handler_step, ps2_handle_irq1, Stopped

\* ps2_handle_irq1 writes a scan code and advances the end of the queue in two
\* steps, with interrupts enabled and on whichever stack is current; whatever
\* comes in between, the queue holds the latest scan codes in order.
THEOREM QueueInOrder == Spec => []QueueHoldsLatest
<1>1. Init => IInv /\ QueueInv
  BY InitIInv, InitQueueInv, Zenon
<1>2. IInv /\ QueueInv /\ [Next]_vars => (IInv /\ QueueInv)'
  BY NextIInv, NextQueueInv, Zenon
<1>3. QueueInv => QueueHoldsLatest
  BY Zenon DEF QueueInv
<1> QED BY <1>1, <1>2, <1>3, PTL DEF Spec
-----------------------------------------------------------------------------
(* The keys on their way to the queue.                                     *)

IsPs2(p) == p = [full |-> p.full, latch |-> p.latch, inbuf |-> p.inbuf, conf |-> p.conf,
                 expect |-> p.expect]

\* The driver writes commands that the controller knows, and configurations
\* that switch the interrupt on.
Commands == {"disable_port1", "enable_port1", "write_config", "disable_port2", "enable_port2",
             "self_test", "port1_self_test"}

InputOK(p) ==
    p.inbuf # <<>> => \/ p.inbuf[1] = "cmd" /\ p.inbuf[2] \in Commands
                      \/ p.inbuf[1] = "data" /\ "int1" \in p.inbuf[2]

DeviceOK ==
    /\ IsPs2(ps2) /\ ps2.full \in BOOLEAN /\ stolen \in BOOLEAN
    /\ InputOK(ps2)
    /\ IsStack(kbd) /\ pressed \in 0 .. MaxKeys

\* Where task 0 has computed the configuration that it is to write.
Configured == {"config_cmd", "config_data", "self_test", "self_test_read", "restore"}

\* Until task 0 starts the scheduler it keeps the CPU, and the only handlers are
\* on its stack.
MainOK ==
    /\ pc \in Configured => "int1" \in config
    /\ pc # "run" =>
        /\ ~ sched_init /\ current = Main
        /\ \A t \in Task \ {Main} : irq[t] = <<>>
        /\ \A f \in Frames : f.at # "switch"

AtRead == \E f \in KeyFrames : f.at = "read"

\* An interrupt of the keyboard that is requested, or that a handler has not yet
\* answered, has its byte in the output buffer, unless task 0 has taken it.  If
\* there is one of each, then task 0 has taken the first byte and the second has
\* come.
LineOK ==
    /\ AtRead \/ PIC_IRQ1 \in pic.irr => stolen \/ Line(ps2)
    /\ AtRead /\ PIC_IRQ1 \in pic.irr => stolen /\ Line(ps2)

Waiting(k) == \E i \in DOMAIN kbd : kbd[i] = k
InHandler(k) == \E f \in KeyFrames : f.at = "store" /\ f.code = k

KeysKept == \A k \in 1 .. pressed : k \in seen \cup KeyIn(ps2) \/ Waiting(k) \/ InHandler(k)

KeysInv == DeviceOK /\ MainOK /\ LineOK /\ KeysKept

LEMMA KeysImply == IInv /\ KeysInv => KeysAccounted
<1> SUFFICES ASSUME IInv, KeysInv PROVE KeysAccounted
  BY Zenon
<1>1. ASSUME NEW k \in 1 .. pressed
      PROVE  \/ k \in seen \cup KeyIn(ps2)
             \/ \E i \in DOMAIN kbd : kbd[i] = k
             \/ \E t \in Task : \E i \in DOMAIN irq[t] : irq[t][i].at = "store" /\ irq[t][i].code = k
  BY FramesFact DEF KeysInv, KeysKept, Waiting, InHandler, KeyFrames
<1>2. ASSUME NEW t \in Task, HandlerAt(t, "read"), ~ ps2.full PROVE stolen
  <2>1. irq[t] # <<>> /\ Top(t).at = "read" /\ StacksOK
    BY <1>2, HandlerFact, Zenon
  <2>2. /\ Len(irq[t]) \in DOMAIN irq[t] /\ Top(t) = irq[t][Len(irq[t])]
    BY <2>1, TopFact, StackDomain DEF StacksOK
  <2>3. AtRead
    BY <2>1, <2>2, FramesFact, Zenon DEF AtRead, KeyFrames
  <2> QED BY <1>2, <2>3, Zenon DEF KeysInv, LineOK, Line
<1> QED BY <1>1, <1>2, Zenon DEF KeysAccounted

LEMMA InitKeysInv == Init => KeysInv
<1> SUFFICES ASSUME Init PROVE KeysInv
  BY Zenon
<1>1. Frames = {} /\ KeyFrames = {}
  BY FramesFact DEF Init, KeyFrames
<1>2. pressed \in 0 .. MaxKeys /\ pressed \in {0, 1}
  BY Zenon DEF Init
<1>3. /\ IsPs2(ps2) /\ ps2.full = (pressed = 1) /\ ps2.latch = pressed /\ ps2.inbuf = <<>>
  BY Zenon DEF Init, IsPs2
<1>4. DeviceOK
  <2>1. ps2.full \in BOOLEAN
    BY <1>3, Zenon
  <2>2. IsStack(kbd)
    BY DEF Init, IsStack
  <2>3. InputOK(ps2)
    BY <1>3, Zenon DEF InputOK
  <2>4. stolen \in BOOLEAN
    BY Zenon DEF Init
  <2> QED BY <1>2, <1>3, <2>1, <2>2, <2>3, <2>4, Zenon DEF DeviceOK
<1>5. MainOK
  BY <1>1, Zenon DEF Init, MainOK, Configured
<1>6. LineOK
  BY <1>1, Zenon DEF Init, LineOK, AtRead
<1>7. KeysKept
  <2> SUFFICES ASSUME NEW k \in 1 .. pressed PROVE k \in KeyIn(ps2)
    BY Zenon DEF KeysKept
  <2>1. pressed = 1 /\ k = 1 /\ 1 \in 1 .. MaxKeys
    BY <1>2, InterruptsAssumption
  <2>2. ps2.full /\ ps2.latch = 1
    BY <1>3, <2>1, Zenon
  <2> QED BY <2>1, <2>2, Zenon DEF KeyIn, IsKey
<1> QED BY <1>4, <1>5, <1>6, <1>7, Zenon DEF KeysInv

Ps2(f, l, n, c, e) == [full |-> f, latch |-> l, inbuf |-> n, conf |-> c, expect |-> e]

LEMMA Ps2Fields ==
    \A f, l, n, c, e :
        /\ IsPs2(Ps2(f, l, n, c, e))
        /\ Ps2(f, l, n, c, e).full = f /\ Ps2(f, l, n, c, e).latch = l
        /\ Ps2(f, l, n, c, e).inbuf = n /\ Ps2(f, l, n, c, e).conf = c
        /\ Ps2(f, l, n, c, e).expect = e
BY DEF IsPs2, Ps2

\* What changing a field, and filling the output buffer, does to the controller.
LEMMA Ps2Change ==
    ASSUME NEW p, IsPs2(p), NEW x
    PROVE  /\ [p EXCEPT !.full = x] = Ps2(x, p.latch, p.inbuf, p.conf, p.expect)
           /\ [p EXCEPT !.latch = x] = Ps2(p.full, x, p.inbuf, p.conf, p.expect)
           /\ [p EXCEPT !.inbuf = x] = Ps2(p.full, p.latch, x, p.conf, p.expect)
           /\ [p EXCEPT !.conf = x] = Ps2(p.full, p.latch, p.inbuf, x, p.expect)
           /\ [p EXCEPT !.expect = x] = Ps2(p.full, p.latch, p.inbuf, p.conf, x)
BY DEF IsPs2, Ps2

LEMMA FilledFact ==
    ASSUME NEW p, IsPs2(p), NEW x
    PROVE  Filled(p, x) = Ps2(TRUE, x, p.inbuf, p.conf, p.expect)
<1> DEFINE q == Ps2(TRUE, p.latch, p.inbuf, p.conf, p.expect)
<1>1. [p EXCEPT !.full = TRUE] = q
  BY Ps2Change, Zenon
<1>2. IsPs2(q) /\ q.full = TRUE /\ q.inbuf = p.inbuf /\ q.conf = p.conf /\ q.expect = p.expect
  <2>1. \A b : LET r == Ps2(b, p.latch, p.inbuf, p.conf, p.expect)
              IN  /\ IsPs2(r) /\ r.full = b /\ r.inbuf = p.inbuf /\ r.conf = p.conf
                  /\ r.expect = p.expect
    BY Ps2Fields
  <2> QED BY <2>1, Zenon
<1> HIDE DEF q
<1>3. [q EXCEPT !.latch = x] = Ps2(q.full, x, q.inbuf, q.conf, q.expect)
  BY <1>2, Ps2Change, Zenon
<1> QED BY <1>1, <1>2, <1>3, Zenon DEF Filled

\* A request of the keyboard comes with the rising edge of its line.
LEMMA SameLine ==
    ASSUME LineOK, UNCHANGED <<KeyFrames, stolen>>, Line(ps2) => Line(ps2'),
           PIC_IRQ1 \in pic'.irr <=> PIC_IRQ1 \in pic.irr \/ (Line(ps2') /\ ~ Line(ps2))
    PROVE  LineOK'
<1>1. AtRead' <=> AtRead
  BY Zenon DEF AtRead
<1> QED BY <1>1, Zenon DEF LineOK

LEMMA SameMain ==
    ASSUME MainOK, UNCHANGED <<irq, current, sched_init, pc, config>>
    PROVE  MainOK'
<1>1. UNCHANGED Frames
  BY SameFrames, Zenon
<1> QED BY <1>1, Zenon DEF MainOK

LEMMA SameKept ==
    ASSUME KeysKept, UNCHANGED <<KeyFrames, pressed, kbd>>, seen \subseteq seen',
           KeyIn(ps2) \subseteq seen' \cup KeyIn(ps2')
    PROVE  KeysKept'
<1>1. \A k : (Waiting(k) <=> Waiting(k)') /\ (InHandler(k) <=> InHandler(k)')
  BY Zenon DEF Waiting, InHandler
<1> QED BY <1>1, Zenon DEF KeysKept
\* The controller executes a command, takes a configuration or passes a byte on.
LEMMA ControllerKeys == IInv /\ KeysInv /\ controller => KeysInv'
<1> SUFFICES ASSUME IInv, KeysInv, controller PROVE KeysInv'
  BY Zenon
<1>1. /\ UNCHANGED <<irq, current, sched_init, pc, config, stolen, seen, pressed>>
      /\ IsPic(pic)
  BY Zenon DEF controller, controller_cmd, controller_data, controller_receive, cpu, main, driver,
         history, IInv, PicOK
<1>2. MainOK' /\ UNCHANGED KeyFrames
  BY <1>1, SameMain, SameFrames, Zenon DEF KeysInv
<1>3. ASSUME NEW p, Ps2Becomes(p), Line(ps2) => Line(p) PROVE LineOK' /\ ps2' = p
  <2>1. /\ ps2' = p
        /\ pic' = IF Line(p) /\ ~ Line(ps2) THEN Request(pic, PIC_IRQ1) ELSE pic
    BY <1>3, Zenon DEF Ps2Becomes
  <2>2. Request(pic, PIC_IRQ1).irr = pic.irr \cup {PIC_IRQ1}
    BY <1>1, Zenon DEF Request, IsPic
  <2>3. PIC_IRQ1 \in pic'.irr <=> PIC_IRQ1 \in pic.irr \/ (Line(ps2') /\ ~ Line(ps2))
    BY <2>1, <2>2, Zenon
  <2> QED BY <1>1, <1>2, <1>3, <2>1, <2>3, SameLine, Zenon DEF KeysInv
<1>4. /\ IsPs2(ps2) /\ ps2.full \in BOOLEAN /\ stolen \in BOOLEAN
      /\ InputOK(ps2) /\ IsStack(kbd) /\ pressed \in 0 .. MaxKeys
  BY Zenon DEF KeysInv, DeviceOK
<1> DEFINE done == Ps2(ps2.full, ps2.latch, <<>>, ps2.conf, ps2.expect)
<1>5. [ps2 EXCEPT !.inbuf = <<>>] = done
  BY <1>4, Ps2Change, Zenon
<1>6. Answered = Ps2(TRUE, SELF_TEST_ANSWER, <<>>, ps2.conf, ps2.expect)
  <2>1. /\ IsPs2(done) /\ done.inbuf = <<>> /\ done.conf = ps2.conf /\ done.expect = ps2.expect
    BY Ps2Fields
  <2> HIDE DEF done
  <2>2. Filled(done, SELF_TEST_ANSWER)
          = Ps2(TRUE, SELF_TEST_ANSWER, done.inbuf, done.conf, done.expect)
    BY <2>1, FilledFact, Zenon
  <2> QED BY <1>5, <2>1, <2>2, Zenon DEF Answered
<1>11. ASSUME NEW c, NEW e, Ps2Becomes(Ps2(ps2.full, ps2.latch, <<>>, c, e)),
              "int1" \in ps2.conf => "int1" \in c, UNCHANGED kbd \/ kbd' = Append(kbd, PS2_PORT1_RESEND)
       PROVE  KeysInv'
  <2>1. Line(ps2) => Line(Ps2(ps2.full, ps2.latch, <<>>, c, e))
    <3> DEFINE q == Ps2(ps2.full, ps2.latch, <<>>, c, e)
    <3>1. q.full = ps2.full /\ q.conf = c
      BY Ps2Fields
    <3> HIDE DEF q
    <3>2. Line(ps2) => Line(q)
      BY <1>11, <3>1, Zenon DEF Line
    <3> QED BY <3>2, Zenon DEF q
  <2>2. LineOK' /\ ps2' = Ps2(ps2.full, ps2.latch, <<>>, c, e)
    BY <1>3, <1>11, <2>1, Zenon
  <2>3. IsPs2(ps2') /\ ps2'.full = ps2.full /\ ps2'.latch = ps2.latch /\ ps2'.inbuf = <<>>
    BY <2>2, Ps2Fields
  <2>4. IsStack(kbd') /\ \A k : Waiting(k) => Waiting(k)'
    <3>1. CASE UNCHANGED kbd
      BY <1>4, <3>1, Zenon DEF Waiting
    <3>2. CASE kbd' = Append(kbd, PS2_PORT1_RESEND)
      <4>1. /\ IsStack(kbd') /\ Len(kbd') = Len(kbd) + 1 /\ Len(kbd) \in Nat
            /\ \A j \in 1 .. Len(kbd) : kbd'[j] = kbd[j]
        BY <1>4, <3>2, PushFact DEF IsStack
      <4>2. DOMAIN kbd = 1 .. Len(kbd) /\ DOMAIN kbd' = 1 .. Len(kbd) + 1
        BY <1>4, <4>1, StackDomain, Zenon
      <4> QED BY <4>1, <4>2 DEF Waiting
    <3> QED BY <1>11, <3>1, <3>2, Zenon
  <2>5. DeviceOK'
    BY <1>1, <1>4, <2>3, <2>4, Zenon DEF DeviceOK, InputOK
  <2>6. KeysKept'
    <3>1. KeyIn(ps2') = KeyIn(ps2) /\ \A k : InHandler(k) <=> InHandler(k)'
      BY <1>2, <2>3, Zenon DEF KeyIn, InHandler
    <3> QED BY <1>1, <2>4, <3>1, Zenon DEF KeysInv, KeysKept
  <2> QED BY <1>2, <2>2, <2>5, <2>6, Zenon DEF KeysInv
<1>12. ASSUME NEW l, NEW n, NEW c, ~ ps2.full, Ps2Becomes(Ps2(TRUE, l, n, c, ps2.expect)),
              n \in {<<>>, ps2.inbuf}, IsStack(kbd'),
              \A k \in 1 .. MaxKeys : Waiting(k) => k = l \/ Waiting(k)'
       PROVE  KeysInv'
  <2>1. LineOK' /\ ps2' = Ps2(TRUE, l, n, c, ps2.expect)
    BY <1>3, <1>12, Zenon DEF Line
  <2>2. IsPs2(ps2') /\ ps2'.full = TRUE /\ ps2'.latch = l /\ ps2'.inbuf = n
    <3> DEFINE q == Ps2(TRUE, l, n, c, ps2.expect)
    <3>1. IsPs2(q) /\ q.full = TRUE /\ q.latch = l /\ q.inbuf = n
      <4>1. \A b : LET r == Ps2(b, l, n, c, ps2.expect)
                  IN  IsPs2(r) /\ r.full = b /\ r.latch = l /\ r.inbuf = n
        BY Ps2Fields
      <4> QED BY <4>1, Zenon
    <3> HIDE DEF q
    <3> QED BY <2>1, <3>1, Zenon DEF q
  <2>3. DeviceOK'
    BY <1>1, <1>4, <1>12, <2>2, Zenon DEF DeviceOK, InputOK
  <2>4. KeysKept'
    <3>1. KeyIn(ps2) = {} /\ \A k : InHandler(k) <=> InHandler(k)'
      BY <1>2, <1>12, Zenon DEF KeyIn, InHandler
    <3>2. l \in 1 .. MaxKeys => l \in KeyIn(ps2')
      BY <2>2, Zenon DEF KeyIn, IsKey
    <3>3. 1 .. pressed \subseteq 1 .. MaxKeys
      BY <1>4, InterruptsAssumption
    <3> QED BY <1>1, <1>12, <3>1, <3>2, <3>3, Zenon DEF KeysInv, KeysKept
  <2> QED BY <1>2, <2>1, <2>3, <2>4, Zenon DEF KeysInv
<1>13. CASE controller_cmd
  <2> DEFINE cmd == ps2.inbuf[2]
  <2>1. UNCHANGED kbd
    BY <1>13, Zenon DEF controller_cmd
  <2>2. PICK p \in Executed(cmd) : Ps2Becomes(p)
    BY <1>13, Zenon DEF controller_cmd
  <2>3. (cmd \in Answers => ~ ps2.full) /\ cmd \in Commands
    BY <1>4, <1>13, Zenon DEF controller_cmd, InputOK
  <2> HIDE DEF cmd
  <2>4. CASE cmd \in {"self_test", "port1_self_test"}
    <3>1. \E c : p = Ps2(TRUE, SELF_TEST_ANSWER, <<>>, c, ps2.expect)
      <4>1. CASE cmd = "self_test"
        <5>1. PICK c : p = [Answered EXCEPT !.conf = c]
          BY <2>2, <4>1, Zenon DEF Executed
        <5>2. p = Ps2(TRUE, SELF_TEST_ANSWER, <<>>, c, ps2.expect)
          BY <1>6, <5>1, Zenon DEF Ps2
        <5> QED BY <5>2, Zenon
      <4>2. CASE cmd = "port1_self_test"
        <5>1. p = Answered
          BY <2>2, <4>2, Zenon DEF Executed
        <5> QED BY <1>6, <5>1, Zenon
      <4> QED BY <2>4, <4>1, <4>2, Zenon
    <3>2. PICK c : p = Ps2(TRUE, SELF_TEST_ANSWER, <<>>, c, ps2.expect)
      BY <3>1, Zenon
    <3>3. ~ ps2.full
      BY <2>3, <2>4, Zenon DEF Answers
    <3>4. IsStack(kbd') /\ \A k : Waiting(k) => Waiting(k)'
      BY <1>4, <2>1, Zenon DEF Waiting
    <3> QED BY <1>12, <2>2, <3>2, <3>3, <3>4, Zenon
  <2>5. CASE cmd \notin {"self_test", "port1_self_test"}
    <3>1. \E c, e : /\ p = Ps2(ps2.full, ps2.latch, <<>>, c, e)
                    /\ "int1" \in ps2.conf => "int1" \in c
      <4>1. CASE cmd = "disable_port1"
        <5>1. p = [done EXCEPT !.conf = @ \cup {"clock1"}]
          BY <1>5, <2>2, <4>1, Zenon DEF Executed
        <5>2. p = Ps2(ps2.full, ps2.latch, <<>>, ps2.conf \cup {"clock1"}, ps2.expect)
          BY <5>1, Zenon DEF Ps2
        <5> QED BY <5>2
      <4>2. CASE cmd = "enable_port1"
        <5>1. p = [done EXCEPT !.conf = @ \ {"clock1"}]
          BY <1>5, <2>2, <4>2, Zenon DEF Executed
        <5>2. p = Ps2(ps2.full, ps2.latch, <<>>, ps2.conf \ {"clock1"}, ps2.expect)
          BY <5>1, Zenon DEF Ps2
        <5> QED BY <5>2, Zenon
      <4>3. CASE cmd = "write_config"
        <5>1. p = [done EXCEPT !.expect = TRUE]
          BY <1>5, <2>2, <4>3, Zenon DEF Executed
        <5>2. p = Ps2(ps2.full, ps2.latch, <<>>, ps2.conf, TRUE)
          BY <5>1, Zenon DEF Ps2
        <5> QED BY <5>2, Zenon
      <4>4. CASE cmd \in {"disable_port2", "enable_port2"}
        <5>1. p = done
          BY <1>5, <2>2, <4>4, Zenon DEF Executed
        <5> QED BY <5>1, Zenon
      <4> QED BY <2>3, <2>5, <4>1, <4>2, <4>3, <4>4, Zenon DEF Commands
    <3> QED BY <1>11, <2>1, <2>2, <3>1, Zenon
  <2> QED BY <2>4, <2>5, Zenon
<1>14. CASE controller_data
  <2>1. ps2.inbuf # <<>> /\ ps2.inbuf[1] = "data" /\ "int1" \in ps2.inbuf[2]
    BY <1>4, <1>14, Zenon DEF controller_data, InputOK
  <2>2. CASE ps2.expect
    <3>1. /\ Ps2Becomes([[done EXCEPT !.conf = ps2.inbuf[2]] EXCEPT !.expect = FALSE])
          /\ UNCHANGED kbd
      BY <1>5, <1>14, <2>2, Zenon DEF controller_data
    <3>2. Ps2Becomes(Ps2(ps2.full, ps2.latch, <<>>, ps2.inbuf[2], FALSE))
      <4> DEFINE q == Ps2(ps2.full, ps2.latch, <<>>, ps2.inbuf[2], ps2.expect)
      <4>1. [done EXCEPT !.conf = ps2.inbuf[2]] = q
        BY DEF Ps2
      <4>2. /\ IsPs2(q) /\ q.full = ps2.full /\ q.latch = ps2.latch /\ q.inbuf = <<>>
            /\ q.conf = ps2.inbuf[2]
        BY DEF IsPs2, Ps2
      <4> HIDE DEF q
      <4>3. [q EXCEPT !.expect = FALSE] = Ps2(q.full, q.latch, q.inbuf, q.conf, FALSE)
        BY <4>2, Ps2Change, Zenon
      <4> QED BY <3>1, <4>1, <4>2, <4>3, Zenon
    <3> QED BY <1>11, <2>1, <3>1, <3>2, Zenon
  <2>3. CASE ~ ps2.expect
    <3>1. PICK c \in {ps2.conf, ps2.conf \ {"clock1"}} :
            Ps2Becomes([done EXCEPT !.conf = c]) /\ kbd' = Append(kbd, PS2_PORT1_RESEND)
      BY <1>5, <1>14, <2>3, Zenon DEF controller_data
    <3>2. Ps2Becomes(Ps2(ps2.full, ps2.latch, <<>>, c, ps2.expect))
      <4>1. [done EXCEPT !.conf = c] = Ps2(ps2.full, ps2.latch, <<>>, c, ps2.expect)
        BY DEF Ps2
      <4> QED BY <3>1, <4>1, Zenon
    <3> QED BY <1>11, <3>1, <3>2, Zenon
  <2> QED BY <2>2, <2>3, Zenon
<1>15. CASE controller_receive
  <2>1. /\ kbd # <<>> /\ ~ ps2.full /\ kbd' = Tail(kbd)
        /\ Ps2Becomes(Ps2(TRUE, Head(kbd), ps2.inbuf, ps2.conf, ps2.expect))
    BY <1>4, <1>15, FilledFact, Zenon DEF controller_receive
  <2>2. IsStack(kbd') /\ \A k : Waiting(k) => k = Head(kbd) \/ Waiting(k)'
    <3> DEFINE S == {kbd[j] : j \in 1 .. Len(kbd)}
    <3>1. kbd \in Seq(S)
      BY <1>4, StackIsSeq, Zenon
    <3> HIDE DEF S
    <3>2. /\ kbd' \in Seq(S) /\ Len(kbd') = Len(kbd) - 1 /\ Head(kbd) = kbd[1]
          /\ Len(kbd) \in Nat /\ \A j \in 1 .. Len(kbd') : kbd'[j] = kbd[j + 1]
      BY <2>1, <3>1
    <3>3. IsStack(kbd') /\ DOMAIN kbd' = 1 .. Len(kbd) - 1 /\ DOMAIN kbd = 1 .. Len(kbd)
      BY <1>4, <3>2, SeqIsStack, StackDomain, Zenon
    <3>4. ASSUME NEW j \in DOMAIN kbd PROVE j = 1 \/ (j - 1 \in DOMAIN kbd' /\ kbd'[j - 1] = kbd[j])
      BY <3>2, <3>3
    <3> QED BY <3>2, <3>3, <3>4, Zenon DEF Waiting
  <2> QED BY <1>12, <2>1, <2>2, Zenon
<1> QED BY <1>13, <1>14, <1>15, Zenon DEF controller
LEMMA KeyPressKeys == KeysInv /\ key_press => KeysInv'
<1> SUFFICES ASSUME KeysInv, key_press PROVE KeysInv'
  BY Zenon
<1>1. /\ UNCHANGED <<irq, current, sched_init, pc, config, stolen, seen, ps2, pic>>
      /\ pressed < MaxKeys /\ pressed' = pressed + 1 /\ kbd' = Append(kbd, pressed + 1)
  BY Zenon DEF key_press, cpu, main, driver, history
<1>2. MainOK' /\ UNCHANGED KeyFrames
  BY <1>1, SameMain, SameFrames, Zenon DEF KeysInv
<1>3. LineOK'
  BY <1>1, <1>2, SameLine, Zenon DEF KeysInv
<1>4. IsStack(kbd) /\ pressed \in 0 .. MaxKeys /\ MaxKeys \in Nat
  BY InterruptsAssumption DEF KeysInv, DeviceOK
<1>5. /\ IsStack(kbd') /\ Len(kbd') = Len(kbd) + 1 /\ Len(kbd) \in Nat
      /\ \A j \in 1 .. Len(kbd) : kbd'[j] = kbd[j]
      /\ kbd'[Len(kbd) + 1] = pressed + 1
  BY <1>1, <1>4, PushFact DEF IsStack
<1>6. DOMAIN kbd = 1 .. Len(kbd) /\ DOMAIN kbd' = 1 .. Len(kbd) + 1
  BY <1>4, <1>5, StackDomain, Zenon
<1>7. \A k : Waiting(k) => Waiting(k)'
  BY <1>1, <1>5, <1>6 DEF Waiting
<1>8. DeviceOK'
  BY <1>1, <1>4, <1>5 DEF KeysInv, DeviceOK
<1>9. KeysKept'
  <2> SUFFICES ASSUME NEW k \in 1 .. pressed'
               PROVE  k \in seen \cup KeyIn(ps2) \/ Waiting(k)' \/ InHandler(k)'
    BY <1>1, Zenon DEF KeysKept
  <2>1. k = pressed + 1 \/ k \in 1 .. pressed
    BY <1>1, <1>4
  <2>2. InHandler(k) <=> InHandler(k)'
    BY <1>2, Zenon DEF InHandler
  <2>3. ASSUME k = pressed + 1 PROVE Waiting(k)'
    BY <1>1, <1>5, <1>6, <2>3 DEF Waiting
  <2> QED BY <1>7, <2>1, <2>2, <2>3, Zenon DEF KeysInv, KeysKept
<1> QED BY <1>2, <1>3, <1>8, <1>9, Zenon DEF KeysInv

\* Where task 0 runs before the scheduler does, no handler is active.
LEMMA MainAlone ==
    ASSUME IInv, KeysInv, NEW at, MainAt(at), at # "run"
    PROVE  pc = at /\ Frames = {} /\ KeyFrames = {}
<1>1. pc = at /\ irq[Main] = <<>>
  BY Zenon DEF MainAt, Runs
<1>2. \A t \in Task : irq[t] = <<>>
  BY <1>1, Zenon DEF KeysInv, MainOK
<1> QED BY <1>1, <1>2, FramesFact DEF KeyFrames

LEMMA MainMoves ==
    ASSUME MainOK, pc # "run", pc' # "run", pc' \in Configured => "int1" \in config',
           UNCHANGED <<irq, current, sched_init>>
    PROVE  MainOK'
<1>1. UNCHANGED Frames
  BY SameFrames, Zenon
<1> QED BY <1>1, Zenon DEF MainOK

\* Task 0 writes a command or a configuration.
LEMMA WriteKeys ==
    ASSUME KeysInv, NEW n, InputOK([inbuf |-> n]), ps2' = [ps2 EXCEPT !.inbuf = n],
           MainOK', UNCHANGED <<pic, irq, stolen, seen, kbd, pressed>>
    PROVE  KeysInv'
<1>1. IsPs2(ps2)
  BY Zenon DEF KeysInv, DeviceOK
<1>2. ps2' = Ps2(ps2.full, ps2.latch, n, ps2.conf, ps2.expect)
  BY <1>1, Ps2Change, Zenon
<1>3. /\ IsPs2(ps2') /\ ps2'.full = ps2.full /\ ps2'.latch = ps2.latch
      /\ ps2'.inbuf = n /\ ps2'.conf = ps2.conf
  BY <1>2, Ps2Fields
<1>4. Line(ps2') <=> Line(ps2)
  BY <1>3, Zenon DEF Line
<1>5. KeyIn(ps2') = KeyIn(ps2)
  BY <1>3, Zenon DEF KeyIn
<1>6. UNCHANGED KeyFrames
  BY SameFrames, Zenon
<1>7. LineOK'
  BY <1>4, <1>6, SameLine, Zenon DEF KeysInv
<1>8. KeysKept'
  BY <1>5, <1>6, SameKept, Zenon DEF KeysInv
<1>9. DeviceOK'
  BY <1>3, Zenon DEF KeysInv, DeviceOK, InputOK
<1> QED BY <1>7, <1>8, <1>9, Zenon DEF KeysInv

\* The byte that task 0 takes may be that of an interrupt to come.
LEMMA InbKeys ==
    ASSUME IInv, KeysInv, NEW at, NEW to, InbData(at, to), at # "run", to # "run",
           to \in Configured => at \in Configured
    PROVE  KeysInv'
<1>1. /\ pc = at /\ Frames = {} /\ KeyFrames = {}
  BY MainAlone, Zenon DEF InbData
<1>2. /\ ps2' = [ps2 EXCEPT !.full = FALSE] /\ seen' = seen \cup KeyIn(ps2)
      /\ stolen' = (stolen \/ Line(ps2)) /\ pc' = to
      /\ UNCHANGED <<pic, irq, current, sched_init, config, kbd, pressed>>
  BY Zenon DEF InbData, Taken, cpu
<1>3. IsPs2(ps2)
  BY Zenon DEF KeysInv, DeviceOK
<1>4. /\ IsPs2(ps2') /\ ps2'.full = FALSE /\ ps2'.inbuf = ps2.inbuf
  <2>1. ASSUME NEW b
        PROVE  LET r == [ps2 EXCEPT !.full = b]
               IN  IsPs2(r) /\ r.full = b /\ r.inbuf = ps2.inbuf
    <3>1. [ps2 EXCEPT !.full = b] = Ps2(b, ps2.latch, ps2.inbuf, ps2.conf, ps2.expect)
      BY <1>3, Ps2Change, Zenon
    <3>2. LET r == Ps2(b, ps2.latch, ps2.inbuf, ps2.conf, ps2.expect)
          IN  IsPs2(r) /\ r.full = b /\ r.inbuf = ps2.inbuf
      BY Ps2Fields
    <3> QED BY <3>1, <3>2, Zenon
  <2>2. LET r == [ps2 EXCEPT !.full = FALSE]
        IN  IsPs2(r) /\ r.full = FALSE /\ r.inbuf = ps2.inbuf
    BY <2>1, Zenon
  <2> QED BY <1>2, <2>2, Zenon
<1>5. UNCHANGED KeyFrames
  BY <1>2, SameFrames, Zenon
<1>6. MainOK'
  BY <1>1, <1>2, MainMoves, Zenon DEF KeysInv, MainOK
<1>7. DeviceOK'
  <2>1. stolen' \in BOOLEAN /\ ps2'.full \in BOOLEAN
    BY <1>2, <1>4, Zenon
  <2> QED BY <1>2, <1>4, <2>1, Zenon DEF KeysInv, DeviceOK, InputOK
<1>8. LineOK'
  <2>1. ~ AtRead'
    BY <1>1, <1>5, Zenon DEF AtRead
  <2>2. PIC_IRQ1 \in pic.irr => stolen \/ Line(ps2)
    BY Zenon DEF KeysInv, LineOK
  <2>3. PIC_IRQ1 \in pic'.irr => stolen'
    BY <1>2, <2>2, Zenon
  <2> QED BY <2>1, <2>3, Zenon DEF LineOK
<1>9. KeysKept'
  BY <1>2, <1>5, SameKept, Zenon DEF KeysInv
<1> QED BY <1>6, <1>7, <1>8, <1>9, Zenon DEF KeysInv

LEMMA MainStepKeys == IInv /\ KeysInv /\ main_step => KeysInv'
<1> SUFFICES ASSUME IInv, KeysInv, main_step PROVE KeysInv'
  BY Zenon
<1>2. CASE idt_init
  <2>1. /\ pc = "idt_init" /\ pc' = "init_queue"
        /\ UNCHANGED <<irq, current, sched_init, config, ps2, kbd, pressed, seen, stolen>>
        /\ pic' = pic_clear_mask(pic_clear_mask(pic_init(pic), PIC_IRQ0), PIC_IRQ1)
    BY <1>2, Zenon DEF idt_init, MainAt, Runs, cpu, driver, history, device
  <2>2. PIC_IRQ1 \notin pic'.irr
    BY <2>1, Zenon DEF pic_init, pic_clear_mask
  <2>3. KeyFrames = {} /\ UNCHANGED KeyFrames
    BY <1>2, <2>1, SameFrames, MainAlone, Zenon DEF idt_init
  <2>4. LineOK'
    BY <2>2, <2>3, Zenon DEF LineOK, AtRead
  <2>5. MainOK'
    BY <2>1, MainMoves, Zenon DEF KeysInv, Configured
  <2>6. KeysKept'
    BY <2>1, <2>3, SameKept, Zenon DEF KeysInv
  <2> QED BY <2>1, <2>4, <2>5, <2>6, Zenon DEF KeysInv, DeviceOK
<1>3. ASSUME UNCHANGED <<irq, current, pic, ps2, kbd, pressed, seen, stolen>>, MainOK' PROVE KeysInv'
  <2>1. UNCHANGED KeyFrames
    BY <1>3, SameFrames, Zenon
  <2>2. LineOK'
    BY <1>3, <2>1, SameLine, Zenon DEF KeysInv
  <2>3. KeysKept'
    BY <1>3, <2>1, SameKept, Zenon DEF KeysInv
  <2> QED BY <1>3, <2>2, <2>3, Zenon DEF KeysInv, DeviceOK
<1>4. CASE start_tasks
  <2>1. pc' = "run" /\ UNCHANGED <<irq, current, pic, ps2, kbd, pressed, seen, stolen>>
    BY <1>4, Zenon DEF start_tasks, driver, history, device
  <2>2. MainOK'
    BY <2>1, Zenon DEF MainOK, Configured
  <2> QED BY <1>3, <2>1, <2>2, Zenon
<1>5. CASE init_scancode_queue
  <2>1. /\ pc = "init_queue" /\ pc' = "disable_port1"
        /\ UNCHANGED <<irq, current, sched_init, config, pic, ps2, kbd, pressed, seen, stolen>>
    BY <1>5, Zenon DEF init_scancode_queue, MainAt, Runs, cpu, device
  <2>2. MainOK'
    BY <2>1, MainMoves, Zenon DEF KeysInv, Configured
  <2> QED BY <1>3, <2>1, <2>2, Zenon
<1>6. CASE flush_test \/ configure_read
  <2>1. /\ pc # "run" /\ pc' # "run"
        /\ pc' \in Configured => "int1" \in config'
        /\ UNCHANGED <<irq, current, sched_init, pic, ps2, kbd, pressed, seen, stolen>>
    BY <1>6, Zenon DEF flush_test, configure_read, MainAt, Runs, Configured, cpu, driver, history, device
  <2>2. MainOK'
    BY <2>1, MainMoves, Zenon DEF KeysInv
  <2> QED BY <1>3, <2>1, <2>2, Zenon
<1>7. ASSUME NEW at, NEW to, NEW cmd \in Commands, ps2_controller_send_cmd(at, cmd, to),
             at # "run", to # "run", to \in Configured => at \in Configured
      PROVE  KeysInv'
  <2>1. /\ pc = at /\ pc' = to /\ ps2' = [ps2 EXCEPT !.inbuf = <<"cmd", cmd>>]
        /\ UNCHANGED <<irq, current, sched_init, config, pic, kbd, pressed, seen, stolen>>
    BY <1>7, Zenon DEF ps2_controller_send_cmd, MainAt, Runs, cpu, driver, history
  <2>2. MainOK'
    BY <1>7, <2>1, MainMoves, Zenon DEF KeysInv, MainOK
  <2>3. InputOK([inbuf |-> <<"cmd", cmd>>])
    BY Zenon DEF InputOK
  <2> QED BY <2>1, <2>2, <2>3, WriteKeys, Zenon
<1>8. ASSUME NEW at \in Configured, NEW to, OutbData(at, to), to # "run" PROVE KeysInv'
  <2>1. /\ pc = at /\ pc' = to /\ ps2' = [ps2 EXCEPT !.inbuf = <<"data", config>>]
        /\ UNCHANGED <<irq, current, sched_init, config, pic, kbd, pressed, seen, stolen>>
    BY <1>8, Zenon DEF OutbData, MainAt, Runs, cpu, driver, history
  <2>2. "int1" \in config /\ pc # "run"
    BY <2>1, Zenon DEF KeysInv, MainOK, Configured
  <2>3. MainOK'
    BY <1>8, <2>1, <2>2, MainMoves, Zenon DEF KeysInv
  <2>4. InputOK([inbuf |-> <<"data", config>>])
    BY <2>2, Zenon DEF InputOK
  <2> QED BY <2>1, <2>3, <2>4, WriteKeys, Zenon
<1>9. CASE ps2_flush_controller_output_buffer
  <2>1. CASE InbData("flush_read", "flush")
    BY <2>1, InbKeys, Zenon DEF Configured
  <2> QED BY <1>6, <1>9, <2>1, Zenon DEF ps2_flush_controller_output_buffer
<1>10. CASE ps2_controller_configure
  <2>1. CASE ps2_controller_send_cmd("config_cmd", "write_config", "config_data")
    BY <1>7, <2>1, Zenon DEF Configured, Commands
  <2>2. CASE OutbData("config_data", "self_test")
    BY <1>8, <2>2, Zenon DEF Configured
  <2> QED BY <1>6, <1>10, <2>1, <2>2, Zenon DEF ps2_controller_configure
<1>11. CASE ps2_controller_self_test
  <2>1. CASE ps2_controller_send_cmd("self_test", "self_test", "self_test_read")
    BY <1>7, <2>1, Zenon DEF Configured, Commands
  <2>2. CASE InbData("self_test_read", "restore")
    BY <2>2, InbKeys, Zenon DEF Configured
  <2>3. CASE OutbData("restore", "port_test")
    BY <1>8, <2>3, Zenon DEF Configured
  <2> QED BY <1>11, <2>1, <2>2, <2>3, Zenon DEF ps2_controller_self_test
<1>12. CASE ps2_interface_self_test
  <2>1. CASE ps2_controller_send_cmd("port_test", "port1_self_test", "port_skip")
    BY <1>7, <2>1, Zenon DEF Configured, Commands
  <2>2. CASE InbData("port_skip", "port_read")
    BY <2>2, InbKeys, Zenon DEF Configured
  <2>3. CASE InbData("port_read", IF ps2.latch = PS2_PORT1_RESEND THEN "port_again" ELSE "enable_port1")
    <3>1. InbData("port_read", "port_again") \/ InbData("port_read", "enable_port1")
      BY <2>3, Zenon
    <3> QED BY <3>1, InbKeys, Zenon DEF Configured
  <2>4. CASE ps2_controller_send_cmd("port_again", "port1_self_test", "port_read")
    BY <1>7, <2>4, Zenon DEF Configured, Commands
  <2> QED BY <1>12, <2>1, <2>2, <2>3, <2>4, Zenon DEF ps2_interface_self_test
<1>13. CASE \/ ps2_controller_send_cmd("disable_port1", "disable_port1", "disable_port2")
            \/ ps2_controller_send_cmd("disable_port2", "disable_port2", "flush")
            \/ ps2_controller_send_cmd("enable_port1", "enable_port1", "enable_port2")
            \/ ps2_controller_send_cmd("enable_port2", "enable_port2", "init_sched")
  BY <1>7, <1>13, Zenon DEF Configured, Commands
<1> QED BY <1>2, <1>4, <1>5, <1>9, <1>10, <1>11, <1>12, <1>13, Zenon DEF main_step, ps2_init_devices
\* Steps of tasks and handlers that do not touch the driver or the keyboard.
LEMMA BystanderKeys ==
    ASSUME KeysInv, UNCHANGED KeyFrames, PIC_IRQ1 \in pic'.irr <=> PIC_IRQ1 \in pic.irr,
           UNCHANGED <<ps2, kbd, pressed, seen, stolen, pc, config, sched_init>>,
           pc # "run" =>
             /\ UNCHANGED current /\ \A t \in Task \ {Main} : irq'[t] = irq[t]
             /\ \A f \in Frames' : f \in Frames \/ f.at # "switch"
    PROVE  KeysInv'
<1>1. LineOK'
  BY SameLine, Zenon DEF KeysInv
<1>2. KeysKept'
  BY SameKept, Zenon DEF KeysInv
<1>3. MainOK'
  BY Zenon DEF KeysInv, MainOK
<1> QED BY <1>1, <1>2, <1>3, Zenon DEF KeysInv, DeviceOK

\* The requests that the controller has latched.
LEMMA RequestsFact ==
    ASSUME NEW p, IsPic(p), NEW l
    PROVE  /\ Request(p, l).irr = p.irr \cup {l} /\ IsPic(Request(p, l))
           /\ Acknowledge(p, l).irr = p.irr \ {l} /\ pic_send_eoi(p, l).irr = p.irr
<1>1. Request(p, l).irr = p.irr \cup {l} /\ pic_send_eoi(p, l).irr = p.irr
  BY Zenon DEF IsPic, Request, pic_send_eoi
<1>2. Acknowledge(p, l).irr = p.irr \ {l}
  BY Zenon DEF Acknowledge
<1> QED BY <1>1, <1>2, PicFact, Zenon

LEMMA OtherInterruptKeys ==
    ASSUME IInv, KeysInv, NEW l \in (0 .. 15) \ {PIC_IRQ1}, Enter(l), UNCHANGED KeyFrames,
           pic' = Acknowledge(Request(pic, l), l)
    PROVE  KeysInv'
<1>1. PICK f : /\ Pushed(current, f) /\ f.at \in {"timer_eoi", "panic"}
               /\ current \in Task /\ StacksOK /\ PicOK /\ UNCHANGED current
  BY EnterPushes, Zenon DEF Handlers
<1>2. Frames' = Frames \cup {f} /\ \A t \in Task \ {current} : irq'[t] = irq[t]
  BY <1>1, PushFrames, Zenon DEF Pushed
<1>3. PIC_IRQ1 \in pic'.irr <=> PIC_IRQ1 \in pic.irr
  BY <1>1, RequestsFact DEF PicOK, PIC_IRQ1
<1>4. UNCHANGED <<ps2, kbd, pressed, seen, stolen, pc, config, sched_init>>
  BY Zenon DEF Enter, driver, history, main, device
<1>5. pc # "run" => current = Main
  BY Zenon DEF KeysInv, MainOK
<1> QED BY <1>1, <1>2, <1>3, <1>4, <1>5, BystanderKeys, Zenon

LEMMA KeyboardInterruptKeys == IInv /\ KeysInv /\ keyboard_irq => KeysInv'
<1> SUFFICES ASSUME IInv, KeysInv, keyboard_irq PROVE KeysInv'
  BY Zenon
<1>1. PICK f : /\ Pushed(current, f) /\ f.at = "read"
               /\ current \in Task /\ CpuOK /\ Handlers /\ PicOK /\ UNCHANGED current
  BY EnterPushes DEF keyboard_irq, PIC_IRQ0, PIC_IRQ1
<1>2. Frames' = Frames \cup {f} /\ \A t \in Task \ {current} : irq'[t] = irq[t]
  BY <1>1, PushFrames, Zenon DEF Pushed, Handlers
<1>3. KeyFrames' = KeyFrames \cup {f}
  BY <1>1, <1>2, Zenon DEF KeyFrames
<1>4. PIC_IRQ1 \in pic.irr /\ PIC_IRQ1 \notin pic'.irr /\ PIC_IRQ1 \notin pic.isr
  <2>1. PIC_IRQ1 \in pic.irr /\ \A k \in pic.isr : PIC_IRQ1 < k
    BY Zenon DEF keyboard_irq, Pending
  <2>2. pic'.irr = pic.irr \ {PIC_IRQ1}
    BY <1>1, RequestsFact, Zenon DEF keyboard_irq, PicOK
  <2> QED BY <2>1, <2>2 DEF PIC_IRQ1
<1>5. UNCHANGED <<ps2, kbd, pressed, seen, stolen, pc, config, sched_init>>
  BY Zenon DEF keyboard_irq, Enter, driver, history, main, device
<1>6. MainOK'
  BY <1>1, <1>2, <1>5, Zenon DEF KeysInv, MainOK
<1>7. LineOK'
  BY <1>4, <1>5, Zenon DEF KeysInv, LineOK
<1>8. KeysKept'
  <2>1. \A k : (Waiting(k) => Waiting(k)') /\ (InHandler(k) => InHandler(k)')
    BY <1>3, <1>5, Zenon DEF Waiting, InHandler
  <2> QED BY <1>5, <2>1, Zenon DEF KeysInv, KeysKept
<1> QED BY <1>5, <1>6, <1>7, <1>8, Zenon DEF KeysInv, DeviceOK

\* The handler takes the byte of its interrupt, unless task 0 has: then it takes
\* that of the next.
LEMMA ReadKeys == \A t \in Task : IInv /\ KeysInv /\ keyboard_read(t) => KeysInv'
<1> SUFFICES ASSUME NEW t \in Task, IInv, KeysInv, keyboard_read(t) PROVE KeysInv'
  BY Zenon
<1>1. /\ HandlerAt(t, "read") /\ Top(t).line = PIC_IRQ1
      /\ ps2' = [ps2 EXCEPT !.full = FALSE]
      /\ stolen' = (stolen /\ ps2.full /\ PIC_IRQ1 \in pic.irr)
      /\ UNCHANGED <<pic, current, sched_init, seen, pc, config, kbd, pressed>>
  BY HandlerFact DEF keyboard_read, IsFrame, Taken, main
<1> DEFINE f == [line |-> PIC_IRQ1, at |-> "store", code |-> ps2.latch]
<1>2. irq' = Replaced(t, f) /\ f.line = PIC_IRQ1 /\ f.at = "store" /\ f.code = ps2.latch
  BY <1>1, Zenon DEF keyboard_read
<1> HIDE DEF f
<1>3. /\ Top(t).at = "read" /\ KeyFrames = {Top(t)} /\ KeyFrames' = {f}
      /\ Frames' \subseteq Frames \cup {f}
  BY <1>1, <1>2, KeyboardFrames, Zenon
<1>4. IsPs2(ps2') /\ ps2'.full = FALSE /\ ps2'.inbuf = ps2.inbuf
  <2>1. ASSUME NEW b
        PROVE  LET r == [ps2 EXCEPT !.full = b]
               IN  IsPs2(r) /\ r.full = b /\ r.inbuf = ps2.inbuf
    <3>1. [ps2 EXCEPT !.full = b] = Ps2(b, ps2.latch, ps2.inbuf, ps2.conf, ps2.expect)
      BY Ps2Change, Zenon DEF KeysInv, DeviceOK
    <3>2. LET r == Ps2(b, ps2.latch, ps2.inbuf, ps2.conf, ps2.expect)
          IN  IsPs2(r) /\ r.full = b /\ r.inbuf = ps2.inbuf
      BY DEF IsPs2, Ps2
    <3> QED BY <3>1, <3>2, Zenon
  <2>2. LET r == [ps2 EXCEPT !.full = FALSE]
        IN  IsPs2(r) /\ r.full = FALSE /\ r.inbuf = ps2.inbuf
    BY <2>1, Zenon
  <2> QED BY <1>1, <2>2, Zenon
<1>5. DeviceOK'
  <2>1. stolen' \in BOOLEAN /\ ps2'.full \in BOOLEAN
    BY <1>1, <1>4, Zenon
  <2> QED BY <1>1, <1>4, <2>1, Zenon DEF KeysInv, DeviceOK, InputOK
<1>6. MainOK'
  <2>1. \A u \in Task \ {current} : irq'[u] = irq[u]
    BY <1>1, <1>2, HandlerFact, ReplaceStep DEF ReplacedBy
  <2> QED BY <1>1, <1>2, <1>3, <2>1, Zenon DEF KeysInv, MainOK
<1>7. LineOK'
  <2>1. AtRead /\ ~ AtRead'
    BY <1>2, <1>3, Zenon DEF AtRead
  <2>2. PIC_IRQ1 \in pic.irr => stolen /\ ps2.full
    BY <2>1, Zenon DEF KeysInv, LineOK, Line
  <2>3. PIC_IRQ1 \in pic'.irr => stolen'
    BY <1>1, <2>2, Zenon
  <2> QED BY <2>1, <2>3, Zenon DEF LineOK
<1>8. KeysKept'
  <2> SUFFICES ASSUME NEW k \in 1 .. pressed
               PROVE  k \in seen \/ Waiting(k)' \/ InHandler(k)'
    BY <1>1, Zenon DEF KeysKept
  <2>1. Waiting(k)' <=> Waiting(k)
    BY <1>1, Zenon DEF Waiting
  <2>2. ~ InHandler(k)
    BY <1>3, Zenon DEF InHandler
  <2>3. k \in KeyIn(ps2) => k = ps2.latch
    BY Zenon DEF KeyIn
  <2>4. k = ps2.latch => InHandler(k)'
    BY <1>2, <1>3, Zenon DEF InHandler
  <2> QED BY <2>1, <2>2, <2>3, <2>4, Zenon DEF KeysInv, KeysKept
<1> QED BY <1>5, <1>6, <1>7, <1>8, Zenon DEF KeysInv

LEMMA StoreKeys ==
    \A t \in Task : IInv /\ KeysInv /\ (keyboard_store(t) \/ keyboard_advance(t)) => KeysInv'
<1> SUFFICES ASSUME NEW t \in Task, IInv, KeysInv, keyboard_store(t) \/ keyboard_advance(t)
             PROVE  KeysInv'
  BY Zenon
<1>1. PICK a \in {"store", "advance"} :
        /\ HandlerAt(t, a) /\ irq' = To(t, IF a = "store" THEN "advance" ELSE "eoi")
        /\ UNCHANGED <<pic, current, sched_init, pc, config, ps2, kbd, pressed, stolen>>
        /\ seen \subseteq seen'
        /\ a = "store" => seen' = seen \cup ({Top(t).code} \cap 1 .. MaxKeys)
  <2>1. CASE keyboard_store(t)
    BY <2>1, Zenon DEF keyboard_store, Store, main, device
  <2>2. CASE keyboard_advance(t)
    BY <2>2, Zenon DEF keyboard_advance, main, device, history
  <2> QED BY <2>1, <2>2, Zenon
<1>2. /\ Top(t).line = PIC_IRQ1 /\ irq[t] # <<>> /\ CpuOK /\ StacksOK /\ t = current
  BY <1>1, HandlerFact, Zenon DEF IsFrame
<1> DEFINE b == IF a = "store" THEN "advance" ELSE "eoi"
           f == [line |-> PIC_IRQ1, at |-> b, code |-> Top(t).code]
<1>3. irq' = Replaced(t, f) /\ f.line = PIC_IRQ1 /\ f.at = b
  BY <1>1, <1>2, TopFact, Zenon DEF To
<1>4. b \in {"advance", "eoi"}
  BY Zenon
<1> HIDE DEF f, b
<1>5. /\ Top(t).at = a /\ KeyFrames = {Top(t)} /\ KeyFrames' \subseteq {f}
      /\ Frames' \subseteq Frames \cup {f}
  BY <1>1, <1>3, KeyboardFrames
<1>6. ~ AtRead /\ ~ AtRead'
  <2>1. \A g \in KeyFrames : g.at = a
    BY <1>5, Zenon
  <2>2. \A g \in KeyFrames' : g.at = b
    BY <1>3, <1>5, Zenon
  <2> QED BY <1>1, <1>4, <2>1, <2>2, Zenon DEF AtRead
<1>7. LineOK'
  BY <1>1, <1>6, Zenon DEF KeysInv, LineOK
<1>8. MainOK'
  <2>1. \A u \in Task \ {current} : irq'[u] = irq[u]
    BY <1>2, <1>3, ReplaceStep, Zenon DEF ReplacedBy
  <2> QED BY <1>1, <1>3, <1>4, <1>5, <2>1, Zenon DEF KeysInv, MainOK
<1>9. KeysKept'
  <2> SUFFICES ASSUME NEW k \in 1 .. pressed
               PROVE  k \in seen' \cup KeyIn(ps2) \/ Waiting(k)'
    BY <1>1, Zenon DEF KeysKept
  <2>1. Waiting(k)' <=> Waiting(k)
    BY <1>1, Zenon DEF Waiting
  <2>2. k \in 1 .. MaxKeys
    BY InterruptsAssumption DEF KeysInv, DeviceOK
  <2>3. InHandler(k) => k \in seen'
    BY <1>1, <1>5, <2>2, Zenon DEF InHandler
  <2> QED BY <1>1, <2>1, <2>3, Zenon DEF KeysInv, KeysKept
<1> QED BY <1>1, <1>7, <1>8, <1>9, Zenon DEF KeysInv, DeviceOK

\* The timer's handler, the end of the keyboard's handler, and exceptions.
LEMMA TaskKeys ==
    ASSUME IInv, KeysInv, UNCHANGED KeyFrames, NEW t \in Task,
           \/ leave(t) \/ exception_handler(t) \/ panic(t)
           \/ timer_irq_handler(t) \/ keyboard_eoi(t)
    PROVE  KeysInv'
<1>1. UNCHANGED <<ps2, kbd, pressed, seen, stolen, pc, config, sched_init>>
  BY Zenon DEF leave, exception_handler, panic, timer_irq_handler, timer_eoi, timer_switch, keyboard_eoi,
         driver, history, main, device
<1>2. PicOK /\ CpuOK /\ StacksOK /\ t = current
  BY Zenon DEF IInv, leave, exception_handler, panic, timer_irq_handler, timer_eoi, timer_switch,
         keyboard_eoi, Runs, HandlerAt, Handlers
<1>3. PIC_IRQ1 \in pic'.irr <=> PIC_IRQ1 \in pic.irr
  <2>1. pic' = pic \/ \E l : pic' = pic_send_eoi(pic, l)
    BY Zenon DEF leave, exception_handler, panic, timer_irq_handler, timer_eoi, timer_switch, keyboard_eoi
  <2>2. \A l : pic_send_eoi(pic, l).irr = pic.irr
    BY <1>2, RequestsFact, Zenon DEF PicOK
  <2> QED BY <2>1, <2>2, Zenon
<1>4. ASSUME pc # "run"
      PROVE  /\ UNCHANGED current /\ \A u \in Task \ {Main} : irq'[u] = irq[u]
             /\ \A f \in Frames' : f \in Frames \/ f.at # "switch"
  <2>1. ~ sched_init /\ current = Main /\ t = Main /\ \A f \in Frames : f.at # "switch"
    BY <1>2, <1>4, Zenon DEF KeysInv, MainOK
  <2>2. CASE leave(t) \/ panic(t)
    BY <2>2, SameFrames, Zenon DEF leave, panic
  <2>3. ~ exception_handler(t)
    BY <2>1, InterruptsAssumption, Zenon DEF exception_handler
  <2>4. ~ timer_switch(t)
    <3> SUFFICES ASSUME HandlerAt(t, "switch") PROVE FALSE
      BY Zenon DEF timer_switch
    <3>1. irq[t] # <<>> /\ Top(t).at = "switch"
      BY Zenon DEF HandlerAt
    <3>2. Len(irq[t]) \in DOMAIN irq[t] /\ Top(t) = irq[t][Len(irq[t])]
      BY <1>2, <3>1, TopFact, StackDomain DEF StacksOK
    <3> QED BY <2>1, <3>1, <3>2, FramesFact, Zenon
  <2>5. CASE timer_eoi(t) \/ keyboard_eoi(t)
    <3>1. irq' = Popped(t) /\ irq[t] # <<>> /\ UNCHANGED current
      BY <2>1, <2>5, Zenon DEF timer_eoi, keyboard_eoi, HandlerAt
    <3>2. PoppedOff(t)
      BY <1>2, <3>1, PopStep, Zenon
    <3> QED BY <1>2, <2>1, <3>1, <3>2, PopFrames, Zenon DEF PoppedOff
  <2> QED BY <2>2, <2>3, <2>4, <2>5, Zenon DEF timer_irq_handler
<1> QED BY <1>1, <1>3, <1>4, BystanderKeys, Zenon

LEMMA NextKeysInv == IInv /\ KeysInv /\ [Next]_vars => KeysInv'
<1> SUFFICES ASSUME IInv, KeysInv, [Next]_vars PROVE KeysInv'
  BY Zenon
<1>1. Bystander => UNCHANGED KeyFrames
  BY BystanderFact, Zenon
<1>2. CASE main_step
  BY <1>2, MainStepKeys, Zenon
<1>3. CASE controller \/ key_press
  BY <1>3, ControllerKeys, KeyPressKeys, Zenon
<1>4. CASE tick
  BY <1>1, <1>4, OtherInterruptKeys DEF tick, Bystander, PIC_IRQ0, PIC_IRQ1
<1>5. CASE \E l \in OtherLines : other_irq(l)
  <2>1. PICK l \in OtherLines : other_irq(l)
    BY <1>5, Zenon
  <2>2. l \in (0 .. 15) \ {PIC_IRQ1}
    BY InterruptsAssumption DEF PIC_IRQ1
  <2> QED BY <1>1, <1>5, <2>1, <2>2, OtherInterruptKeys, Zenon DEF other_irq, Bystander
<1>6. CASE keyboard_irq
  BY <1>6, KeyboardInterruptKeys, Zenon
<1>7. CASE \E t \in Task : \/ leave(t) \/ exception_handler(t) \/ panic(t)
                           \/ timer_irq_handler(t) \/ keyboard_eoi(t)
  BY <1>1, <1>7, TaskKeys, Zenon DEF Bystander
<1>8. CASE \E t \in Task : keyboard_read(t) \/ keyboard_store(t) \/ keyboard_advance(t)
  BY <1>8, ReadKeys, StoreKeys, Zenon
<1>9. CASE UNCHANGED vars
  <2>1. UNCHANGED <<irq, current, ps2, kbd, pressed, seen, stolen, pc, config, sched_init, pic>>
    BY <1>9, Zenon DEF vars, cpu, driver, history, main, device
  <2>2. UNCHANGED <<Frames, KeyFrames>>
    BY <2>1, SameFrames, Zenon
  <2> QED BY <2>1, <2>2, BystanderKeys, Zenon
<1> QED BY <1>2, <1>3, <1>4, <1>5, <1>6, <1>7, <1>8, <1>9, Zenon
        DEF Next, handler_step, ps2_handle_irq1, Stopped

\* The polling of ps2_init_devices and the handler ps2_handle_irq1 read the same
\* port; still no scan code is lost between the keyboard and the queue or the
\* initialisation, and the handler reads a byte twice only for an interrupt whose
\* own byte the initialisation has taken.
THEOREM NoKeyLost == Spec => []KeysAccounted
<1>1. Init => IInv /\ KeysInv
  BY InitIInv, InitKeysInv, Zenon
<1>2. IInv /\ KeysInv /\ [Next]_vars => (IInv /\ KeysInv)'
  BY NextIInv, NextKeysInv, Zenon
<1>3. IInv /\ KeysInv => KeysAccounted
  BY KeysImply, Zenon
<1> QED BY <1>1, <1>2, <1>3, PTL DEF Spec
=============================================================================
