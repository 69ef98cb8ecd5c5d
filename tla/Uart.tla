-------------------------------- MODULE Uart --------------------------------
(***************************************************************************)
(* The transmit side of a port of uart.c: tasks that write characters, the *)
(* byte FIFO (fifo8_put, fifo8_get_nonblock of fifo.c), the interrupt      *)
(* handler, and the hardware's own FIFO with its shift register.           *)
(*                                                                         *)
(* A task can be interrupted between any two accesses to what is shared; a *)
(* step of it ends with one. While the handler runs no task does.          *)
(***************************************************************************)
EXTENDS Integers, Sequences, FiniteSets

CONSTANTS
    Writer,   \* the tasks that write to the port
    Size,     \* of tx_fifo
    HwSize,   \* of the hardware's FIFO
    Char, NULL

ASSUME UartAssumption ==
    /\ Size \in Nat \ {0} /\ HwSize \in Nat \ {0}
    /\ NULL \notin Char
    /\ "line" \notin Writer

VARIABLES
    tx_fifo,   \* full, empty: the semaphores' values; head, tail, data
    TDR,       \* the hardware's FIFO
    line,      \* the character being shifted out, or NULL
    TXFEIE,    \* the interrupt for room in the hardware's FIFO is enabled
    handling,  \* uart_interrupt_handler is in its second loop
    pc, char   \* of each writer: where it is in uart_out_char, its argument

hw == <<TDR, line>>
writers == <<pc, char>>
vars == <<tx_fifo, hw, TXFEIE, handling, writers>>

Index == 0 .. Size - 1
Place == {"idle", "ready", "direct", "wait", "copy", "advance", "signal", "enable"}

Init ==
    /\ tx_fifo = [full |-> Size, empty |-> 0, head |-> 0, tail |-> 0,
                  data |-> [i \in Index |-> NULL]]
    /\ TDR = <<>> /\ line = NULL
    /\ TXFEIE = FALSE /\ handling = FALSE
    /\ pc = [w \in Writer |-> "idle"] /\ char = [w \in Writer |-> NULL]

NextIndex(i) == (i + 1) % Size

Ready == Len(TDR) < HwSize

\* A write to the data register: without room it has no effect.
Store(h, c) == IF Len(h) < HwSize THEN Append(h, c) ELSE h

-----------------------------------------------------------------------------
(* uart_out_char.                                                            *)

Go(w, from, to) == ~handling /\ pc[w] = from /\ pc' = [pc EXCEPT ![w] = to]

TestNothing(w) ==
    /\ Go(w, "idle", "ready")
    /\ \E c \in Char : char' = [char EXCEPT ![w] = c]
    /\ UNCHANGED <<tx_fifo, hw, TXFEIE, handling>>

\* fifo8_size.
TestSize(w) ==
    /\ Go(w, "idle", IF tx_fifo.empty = 0 THEN "ready" ELSE "wait")
    /\ \E c \in Char : char' = [char EXCEPT ![w] = c]
    /\ UNCHANGED <<tx_fifo, hw, TXFEIE, handling>>

TestReady(w) ==
    /\ Go(w, "ready", IF Ready THEN "direct" ELSE "wait")
    /\ UNCHANGED <<tx_fifo, hw, TXFEIE, handling, char>>

Direct(w) ==
    /\ Go(w, "direct", "idle")
    /\ TDR' = Store(TDR, char[w])
    /\ UNCHANGED <<tx_fifo, line, TXFEIE, handling, char>>

PutWait(w) ==
    /\ Go(w, "wait", "copy")
    /\ tx_fifo.full > 0
    /\ tx_fifo' = [tx_fifo EXCEPT !.full = @ - 1]
    /\ UNCHANGED <<hw, TXFEIE, handling, char>>

PutCopy(w) ==
    /\ Go(w, "copy", "advance")
    /\ tx_fifo' = [tx_fifo EXCEPT !.data[tx_fifo.tail] = char[w]]
    /\ UNCHANGED <<hw, TXFEIE, handling, char>>

PutAdvance(w) ==
    /\ Go(w, "advance", "signal")
    /\ tx_fifo' = [tx_fifo EXCEPT !.tail = NextIndex(@)]
    /\ UNCHANGED <<hw, TXFEIE, handling, char>>

PutSignal(w) ==
    /\ Go(w, "signal", "enable")
    /\ tx_fifo' = [tx_fifo EXCEPT !.empty = @ + 1]
    /\ UNCHANGED <<hw, TXFEIE, handling, char>>

EnableNothing(w) ==
    /\ Go(w, "enable", "idle")
    /\ UNCHANGED <<tx_fifo, hw, TXFEIE, handling, char>>

\* CR1 is read, changed and written; in between the handler may have cleared the
\* bit that this sets, and changes no other.
Enable(w) ==
    /\ Go(w, "enable", "idle")
    /\ TXFEIE' = TRUE
    /\ UNCHANGED <<tx_fifo, hw, handling, char>>

uart_out_char(w) ==
    \/ TestSize(w) \/ TestReady(w) \/ Direct(w)
    \/ PutWait(w) \/ PutCopy(w) \/ PutAdvance(w) \/ PutSignal(w) \/ Enable(w)

-----------------------------------------------------------------------------
(* uart_interrupt_handler. Received characters raise the interrupt too, so   *)
(* that it may come at any time; its first loop is in GpsSync.               *)

Interrupt ==
    /\ ~handling /\ handling' = TRUE
    /\ UNCHANGED <<tx_fifo, hw, TXFEIE, writers>>

\* The characters fifo8_get_nonblock takes go to the data register.
MoveUntested ==
    /\ handling /\ tx_fifo.empty > 0
    /\ TDR' = Append(TDR, tx_fifo.data[tx_fifo.head])
    /\ tx_fifo' = [tx_fifo EXCEPT !.empty = @ - 1, !.head = NextIndex(@), !.full = @ + 1]
    /\ UNCHANGED <<line, TXFEIE, handling, writers>>

Move ==
    /\ handling /\ Ready /\ tx_fifo.empty > 0
    /\ TDR' = Append(TDR, tx_fifo.data[tx_fifo.head])
    /\ tx_fifo' = [tx_fifo EXCEPT !.empty = @ - 1, !.head = NextIndex(@), !.full = @ + 1]
    /\ UNCHANGED <<line, TXFEIE, handling, writers>>

\* There is room, but nothing left to send.
NothingLeft ==
    /\ handling /\ Ready /\ tx_fifo.empty = 0
    /\ TXFEIE' = FALSE /\ handling' = FALSE
    /\ UNCHANGED <<tx_fifo, hw, writers>>

NoRoom ==
    /\ handling /\ ~Ready
    /\ handling' = FALSE
    /\ UNCHANGED <<tx_fifo, hw, TXFEIE, writers>>

Handle == Move \/ NothingLeft \/ NoRoom

\* The hardware sends one character after the other.
Load ==
    /\ line = NULL /\ TDR # <<>>
    /\ line' = Head(TDR) /\ TDR' = Tail(TDR)
    /\ UNCHANGED <<tx_fifo, TXFEIE, handling, writers>>

Sent ==
    /\ line # NULL
    /\ line' = NULL
    /\ UNCHANGED <<tx_fifo, TDR, TXFEIE, handling, writers>>

Next ==
    \/ \E w \in Writer : uart_out_char(w)
    \/ Interrupt \/ Handle
    \/ Load \/ Sent

Spec == Init /\ [][Next]_vars

\* The hardware sends, raises the interrupt it is told to, the handler goes on;
\* the scheduler lets a writer finish its call, but nobody has to write again.
FairSpec ==
    /\ Spec
    /\ WF_vars(Load) /\ WF_vars(Sent)
    /\ WF_vars(TXFEIE /\ Ready /\ Interrupt) /\ WF_vars(Handle)
    /\ \A w \in Writer : SF_vars(pc[w] # "idle" /\ uart_out_char(w))

-----------------------------------------------------------------------------
(* Properties.                                                               *)

\* Every variable has its type: neither FIFO holds more than its size.
TypeOK ==
    /\ tx_fifo \in [full : 0 .. Size, empty : 0 .. Size, head : Index, tail : Index,
                    data : [Index -> Char \cup {NULL}]]
    /\ TDR \in Seq(Char) /\ Len(TDR) <= HwSize
    /\ line \in Char \cup {NULL}
    /\ TXFEIE \in BOOLEAN /\ handling \in BOOLEAN
    /\ pc \in [Writer -> Place] /\ char \in [Writer -> Char \cup {NULL}]

At(places) == {w \in Writer : pc[w] \in places}

\* What is still to be sent: the hardware's FIFO, then tx_fifo from head, with
\* what is stored but not signalled.
Unsent ==
    LET stored == tx_fifo.empty + Cardinality(At({"advance", "signal"}))
    IN  TDR \o [i \in 1 .. stored |-> tx_fifo.data[(tx_fifo.head + i - 1) % Size]]

Hand ==
    [t \in Writer \cup {"line"} |->
        IF t = "line" THEN line
        ELSE IF pc[t] \in {"ready", "direct", "wait", "copy"} THEN char[t] ELSE NULL]

Abstract == INSTANCE BoundedQueue
            WITH Producer <- Writer, Consumer <- {"line"}, Size <- Size + HwSize,
                 Value <- Char, queue <- Unsent, hand <- Hand

\* With one writer, the characters are sent once each and in order, though it
\* writes to the hardware itself when it finds tx_fifo empty and the handler does
\* when it does not (uart.c:167-181, 71-79). uart.c shares the byte FIFO's limit
\* (fifo.c:55): two writers lose and overtake characters.
ImplementsQueue == Abstract!Spec

\* No character is left behind: the one at head is moved on, as the interrupt is
\* enabled after each put and disabled only when tx_fifo is found empty
\* (uart.c:74-76, 178-179).
KeepsSending ==
    \A i \in Index : tx_fifo.empty > 0 /\ tx_fifo.head = i ~> tx_fifo.head # i
=============================================================================
