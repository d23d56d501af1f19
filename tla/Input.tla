------------------------------- MODULE Input --------------------------------
(***************************************************************************)
(* Console input: the keyboard and serial interrupt handlers and the two   *)
(* ring buffers of kernel/isr.c, and their readers, console_read() of      *)
(* kernel/fs/vfs.c and sys_getkey() of kernel/syscall.c.                   *)
(*                                                                         *)
(* The interrupts arrive at the boot processor, when it is idle or in user *)
(* mode.  With one CPU a reader in the kernel is therefore never           *)
(* interrupted; with two, handlers and readers interleave.                 *)
(***************************************************************************)
EXTENDS Integers, Sequences, FiniteSets

CONSTANTS Setups,    \* CPUs, readers of the console and of getkey(), bound on what is typed
          RingSize,  \* INBUF_SZ and KEYQ_SZ
          Readers,   \* processes
          HighBytes  \* which of the characters, by number, are above 0x7f

ASSUME InputAssumption == /\ RingSize \in Nat \ {0} /\ 0 \notin Readers
                          /\ \A s \in Setups : /\ s.cpus \in {1, 2} /\ s.typed \in Nat
                                                 /\ s.con \union s.key \subseteq Readers

VARIABLES setup,
          ring,     \* ring["con"] is inbuf[], ring["key"] is keyq[]: what is between r and w
          waiter,   \* con_waiter and key_waiter, 0 for NULL
          ext,      \* kbd_ext
          uart,     \* bytes in the receiver of the serial port
          irq,      \* the handler at work on the boot processor
          istate, iqueued, ipc, ion,   \* the readers: state, on a queue, control point, on a CPU
          sent,     \* history: the keys and bytes so far; they are numbered
          got,      \* history: what console_read() returned, in order
          full      \* history: characters dropped for want of space

inputVars == <<setup, ring, waiter, ext, uart, irq, istate, iqueued, ipc, ion, sent, got, full>>

Queue(t) == IF t \in setup.con THEN "con" ELSE "key"
NoIrq == [pc |-> "none", to |-> {}, c |-> <<>>, w |-> 0]

InputInit == /\ setup \in Setups
             /\ ring = [q \in {"con", "key"} |-> <<>>] /\ waiter = [q \in {"con", "key"} |-> 0]
             /\ ext = FALSE /\ uart = <<>> /\ irq = NoIrq
             /\ istate = [t \in Readers |-> "RUNNABLE"] /\ iqueued = [t \in Readers |-> t \in setup.con \union setup.key]
             /\ ipc = [t \in Readers |-> "user"] /\ ion = {}
             /\ sent = <<>> /\ got = <<>> /\ full = {}

-----------------------------------------------------------------------------
(* Interrupts *)

InKernel == {t \in ion : ipc[t] # "user"}
Interruptible == irq = NoIrq /\ Cardinality(InKernel) < setup.cpus

(* A CPU besides the one that runs a handler. *)
CpuFree == irq = NoIrq \/ Cardinality(InKernel) + 1 < setup.cpus

(* input_push() and keyq_push(): dropped when full; otherwise the waiter   *)
(* is read with its state, and then woken.                                 *)
Target == IF "con" \in irq.to THEN "con" ELSE "key"
Pushed == irq' = IF irq.to = {Target} THEN [NoIrq EXCEPT !.pc = "drain"]
                 ELSE [irq EXCEPT !.pc = "push", !.to = @ \ {Target}, !.w = 0]

(* Mutant of Push: the last place is used too, and the full ring looks     *)
(* empty.                                                                  *)
PushOne == /\ irq.pc = "push"
           /\ ring' = [ring EXCEPT ![Target] = IF Len(@) < RingSize - 1 THEN Append(@, irq.c) ELSE <<>>]
           /\ irq' = [irq EXCEPT !.pc = "look"]
           /\ UNCHANGED <<setup, waiter, ext, uart, istate, iqueued, ipc, ion, sent, got, full>>

Push == /\ irq.pc = "push"
        /\ IF Len(ring[Target]) < RingSize - 1
           THEN /\ ring' = [ring EXCEPT ![Target] = Append(@, irq.c)]
                /\ irq' = [irq EXCEPT !.pc = "look"]
                /\ UNCHANGED full
           ELSE /\ full' = IF Target = "con" THEN full \union {irq.c} ELSE full
                /\ Pushed
                /\ UNCHANGED ring
        /\ UNCHANGED <<setup, waiter, ext, uart, istate, iqueued, ipc, ion, sent, got>>

WakeLook == LET w == waiter[Target]
            IN  /\ irq.pc = "look"
                /\ IF w # 0 /\ istate[w] = "SLEEPING" THEN irq' = [irq EXCEPT !.pc = "wake", !.w = w]
                   ELSE Pushed
                /\ UNCHANGED <<setup, ring, waiter, ext, uart, istate, iqueued, ipc, ion, sent, got, full>>

WakeDo == /\ irq.pc = "wake"
          /\ waiter' = [waiter EXCEPT ![Target] = 0]
          /\ istate' = [istate EXCEPT ![irq.w] = "RUNNABLE"]
          /\ iqueued' = [iqueued EXCEPT ![irq.w] = TRUE]
          /\ Pushed
          /\ UNCHANGED <<setup, ring, ext, uart, ipc, ion, sent, got, full>>

(* kbd_irq_handler(): the prefix E0, or a key.  An extended key has no     *)
(* character and goes to the queue of raw keys only.                       *)
KbdPrefix == /\ Interruptible
             /\ ext' = TRUE
             /\ UNCHANGED <<setup, ring, waiter, uart, irq, istate, iqueued, ipc, ion, sent, got, full>>

KbdRelease == /\ Interruptible /\ ext
              /\ ext' = FALSE
              /\ UNCHANGED <<setup, ring, waiter, uart, irq, istate, iqueued, ipc, ion, sent, got, full>>

KbdPress == LET c == <<"kbd", Len(sent) + 1>>
            IN  /\ Interruptible /\ Len(sent) < setup.typed
                /\ sent' = Append(sent, IF ext THEN <<"ext", 0>> ELSE c)
                /\ ext' = FALSE
                /\ irq' = [pc |-> "push", to |-> IF ext THEN {"key"} ELSE {"con", "key"}, c |-> c, w |-> 0]
                /\ UNCHANGED <<setup, ring, waiter, uart, istate, iqueued, ipc, ion, got, full>>

(* A byte arrives at the serial port; its interrupt handler takes bytes    *)
(* until there are none.                                                   *)
SerialByte == LET c == <<"com", Len(sent) + 1>>
              IN  /\ Len(sent) < setup.typed
                  /\ sent' = Append(sent, c)
                  /\ uart' = Append(uart, c)
                  /\ UNCHANGED <<setup, ring, waiter, ext, irq, istate, iqueued, ipc, ion, got, full>>

SerialIrq == /\ uart # <<>> /\ (Interruptible \/ irq.pc = "drain")
             /\ uart' = Tail(uart)
             /\ irq' = [pc |-> "push", to |-> {"con"}, c |-> Head(uart), w |-> 0]
             /\ UNCHANGED <<setup, ring, waiter, ext, istate, iqueued, ipc, ion, sent, got, full>>

SerialDone == /\ irq.pc = "drain" /\ uart = <<>>
              /\ irq' = NoIrq
              /\ UNCHANGED <<setup, ring, waiter, ext, uart, istate, iqueued, ipc, ion, sent, got, full>>

(* Mutant of Timer: the tick wakes no reader. *)
TimerIdle == Interruptible /\ FALSE /\ UNCHANGED inputVars

(* The timer: readers sleep until the next tick at most. *)
Timer == LET due == {t \in Readers : istate[t] = "SLEEPING"}
         IN  /\ Interruptible /\ due # {}
             /\ istate' = [t \in Readers |-> IF t \in due THEN "RUNNABLE" ELSE istate[t]]
             /\ iqueued' = [t \in Readers |-> iqueued[t] \/ t \in due]
             /\ UNCHANGED <<setup, ring, waiter, ext, uart, irq, ipc, ion, sent, got, full>>

-----------------------------------------------------------------------------
(* Readers *)

Jump(t, l) == ipc' = [ipc EXCEPT ![t] = l]
At(t, l) == t \in ion /\ ipc[t] = l

Start(t) == /\ CpuFree /\ iqueued[t] /\ t \notin ion /\ Cardinality(ion) < setup.cpus
            /\ ion' = ion \union {t}
            /\ iqueued' = [iqueued EXCEPT ![t] = FALSE]
            /\ istate' = [istate EXCEPT ![t] = "RUNNING"]
            /\ UNCHANGED <<setup, ring, waiter, ext, uart, irq, ipc, sent, got, full>>

(* Mutant of Read: console_read() asks the serial port first. *)
ReadPoll(t) == /\ CpuFree /\ At(t, "user")
               /\ Jump(t, IF Queue(t) = "con" THEN "poll" ELSE "pop")
               /\ UNCHANGED <<setup, ring, waiter, ext, uart, irq, istate, iqueued, ion, sent, got, full>>

Read(t) == /\ CpuFree /\ At(t, "user")
           /\ Jump(t, "pop")
           /\ UNCHANGED <<setup, ring, waiter, ext, uart, irq, istate, iqueued, ion, sent, got, full>>

(* A signal is pending, or getkey() was asked not to block: it returns.    *)
Return(t) == /\ At(t, "empty")
             /\ Jump(t, "user")
             /\ UNCHANGED <<setup, ring, waiter, ext, uart, irq, istate, iqueued, ion, sent, got, full>>

(* What input_pop() returns is a signed char: a high byte looks like an    *)
(* empty ring, and is gone.                                                *)
IsHigh(c) == c[1] = "com" /\ c[2] \in HighBytes
IsChar(t, c) == Queue(t) = "key" \/ ~IsHigh(c)

(* After a character the caller has enough, or reads on. *)
Take(t, c, l) ==
    /\ got' = IF Queue(t) = "con" THEN Append(got, c) ELSE got
    /\ \/ Jump(t, "user")
       \/ Queue(t) = "con" /\ Jump(t, "pop")
    /\ IF l = "pop" THEN UNCHANGED <<istate, waiter, iqueued>>
       ELSE /\ istate' = [istate EXCEPT ![t] = "RUNNING"]
            /\ waiter' = [waiter EXCEPT ![Queue(t)] = IF @ = t THEN 0 ELSE @]
            /\ iqueued' = IF Queue(t) = "key" THEN [iqueued EXCEPT ![t] = FALSE] ELSE iqueued

(* input_pop() or keyq_pop(), at l = "pop" or, with the waiter armed, at   *)
(* l = "repop".                                                            *)
Pop(t, l) ==
    LET q == Queue(t)
    IN  /\ At(t, l)
        /\ IF ring[q] # <<>>
           THEN /\ ring' = [ring EXCEPT ![q] = Tail(@)]
                /\ IF IsChar(t, Head(ring[q])) THEN Take(t, Head(ring[q]), l)
                   ELSE /\ Jump(t, IF l = "pop" THEN "poll" ELSE "repoll")
                        /\ UNCHANGED <<got, istate, waiter, iqueued>>
           ELSE /\ Jump(t, CASE l = "pop" /\ q = "con"   -> "poll"
                             [] l = "repop" /\ q = "con" -> "repoll"
                             [] l = "pop" /\ q = "key"   -> "empty"
                             [] OTHER                    -> "dequeue")
                /\ UNCHANGED <<ring, got, istate, waiter, iqueued>>
        /\ UNCHANGED <<setup, ext, uart, irq, ion, sent, full>>

(* lnxrm_uart_trygetc(): the console reader asks the serial port itself. *)
Poll(t, l) ==
    /\ At(t, IF l = "pop" THEN "poll" ELSE "repoll")
    /\ IF uart # <<>>
       THEN uart' = Tail(uart) /\ Take(t, Head(uart), l)
       ELSE /\ Jump(t, IF l = "pop" THEN "empty" ELSE "dequeue")
            /\ UNCHANGED <<uart, got, istate, waiter, iqueued>>
    /\ UNCHANGED <<setup, ring, ext, irq, ion, sent, full>>

Sleep(t) == /\ At(t, "empty")
            /\ istate' = [istate EXCEPT ![t] = "SLEEPING"]
            /\ Jump(t, "arm")
            /\ UNCHANGED <<setup, ring, waiter, ext, uart, irq, iqueued, ion, sent, got, full>>

Arm(t) == /\ At(t, "arm")
          /\ waiter' = [waiter EXCEPT ![Queue(t)] = t]
          /\ Jump(t, "repop")
          /\ UNCHANGED <<setup, ring, ext, uart, irq, istate, iqueued, ion, sent, got, full>>

Dequeue(t) == /\ At(t, "dequeue")
              /\ iqueued' = [iqueued EXCEPT ![t] = FALSE]
              /\ Jump(t, "leave")
              /\ UNCHANGED <<setup, ring, waiter, ext, uart, irq, istate, ion, sent, got, full>>

(* schedule(): as in module Proc. *)
Leave(t) == /\ At(t, "leave")
            /\ \/ ion' = ion \ {t} /\ UNCHANGED iqueued
               \/ istate[t] = "RUNNABLE" /\ iqueued' = [iqueued EXCEPT ![t] = FALSE] /\ UNCHANGED ion
            /\ Jump(t, "resume")
            /\ UNCHANGED <<setup, ring, waiter, ext, uart, irq, istate, sent, got, full>>

Resume(t) == /\ At(t, "resume")
             /\ waiter' = [waiter EXCEPT ![Queue(t)] = IF @ = t THEN 0 ELSE @]
             /\ istate' = [istate EXCEPT ![t] = "RUNNING"]
             /\ Jump(t, "pop")
             /\ UNCHANGED <<setup, ring, ext, uart, irq, iqueued, ion, sent, got, full>>

Preempt(t) == /\ CpuFree /\ At(t, "user") /\ istate[t] = "RUNNING"
              /\ ion' = ion \ {t}
              /\ istate' = [istate EXCEPT ![t] = "RUNNABLE"]
              /\ iqueued' = [iqueued EXCEPT ![t] = TRUE]
              /\ UNCHANGED <<setup, ring, waiter, ext, uart, irq, ipc, sent, got, full>>

Reader(t) == \/ \E l \in {"pop", "repop"} : Pop(t, l) \/ Poll(t, l)
             \/ Sleep(t) \/ Arm(t) \/ Dequeue(t) \/ Leave(t) \/ Resume(t)

Handler == SerialIrq \/ SerialDone \/ Push \/ WakeLook \/ WakeDo

InputNext == \/ KbdPrefix \/ KbdRelease \/ KbdPress \/ SerialByte \/ Handler \/ Timer
             \/ \E t \in Readers : Start(t) \/ Read(t) \/ Return(t) \/ Reader(t) \/ Preempt(t)

(* Handlers and kernel code run to their end, the timer keeps firing, and  *)
(* of two readers each gets the CPU in the end (RunnableRuns of Sched).    *)
InputFairness == /\ WF_inputVars(Handler) /\ SF_inputVars(Timer)
                 /\ \A t \in Readers : /\ WF_inputVars(Reader(t))
                                       /\ SF_inputVars(Start(t)) /\ SF_inputVars(Preempt(t))

InputSpec == InputInit /\ [][InputNext]_inputVars /\ InputFairness

-----------------------------------------------------------------------------
Got(src) == SelectSeq(got, LAMBDA c : c[1] = src)
Rising(s) == \A i, j \in DOMAIN s : i < j => s[i][2] < s[j][2]
Elements(s) == {s[i] : i \in DOMAIN s}

(* The reader of the console gets the keys in the order they were pressed, *)
(* each once.  So it is with the bytes of the serial port on one CPU, as   *)
(* long as none is above 0x7f.  Otherwise the reader finds the ring empty  *)
(* and takes a byte from the port itself, with an earlier one in the ring. *)
InOrder == /\ Rising(Got("kbd"))
           /\ setup.cpus = 1 /\ (\A c \in Elements(sent) : ~IsHigh(c)) => Rising(Got("com"))

(* No character is lost between the interrupt and the reader, unless the   *)
(* ring was full or the character is above 0x7f.                           *)
NothingLost == \A c \in Elements(sent) : c[1] = "ext" \/ IsHigh(c)
                 \/ c \in Elements(uart) \union Elements(ring["con"]) \union Elements(got) \union full
                 \/ c = irq.c

(* With one CPU a reader that waits while there is input gets on, although *)
(* there is one place for a waiter and the last reader to arm has it.      *)
ReaderServed == \A t \in Readers :
    (setup.cpus = 1 /\ ipc[t] # "user" /\ ring[Queue(t)] # <<>>) ~> (ipc[t] = "user" \/ ring[Queue(t)] = <<>>)
=============================================================================
