------------------------------ MODULE Console -------------------------------
(***************************************************************************)
(* The console's input path: bytes arrive in the UART, an interrupt moves  *)
(* them to the ring buffer receive_buffer (uart_interrupt_handler), and    *)
(* processes take them out with the getch system call (kgetch).  System    *)
(* calls and interrupt handlers run with interrupts masked, so kgetch is   *)
(* one step and the interrupt handler's loop is interleaved with arriving  *)
(* bytes and the timer's ticks only.                                       *)
(*                                                                         *)
(* The timer's line comes before the UART's in dispatch_interrupts, and    *)
(* its handler never returns: it switches to a process.  A UART interrupt  *)
(* pending at the same time is taken again after the switch.               *)
(***************************************************************************)
EXTENDS Keys

CONSTANTS
  Bytes,                 \* the bytes the terminal may send
  RECEIVE_BUFFER_SIZE,
  UART_DEPTH             \* the bytes the UART holds

ASSUME SizesAssumption ==
  RECEIVE_BUFFER_SIZE \in Nat \ {0, 1} /\ UART_DEPTH \in Nat \ {0}

VARIABLES
  receive_buffer, receive_buffer_head, receive_buffer_tail,
  uart,                  \* bytes received by the UART and not read yet
  timer,                 \* the timer's interrupt is pending
  handlers,              \* the interrupt lines that are enabled, with a handler
  running                \* "unmasked" or the handler that runs

ring == <<receive_buffer, receive_buffer_head, receive_buffer_tail>>

vars == <<ring, uart, timer, handlers, running>>

Indices == 0 .. RECEIVE_BUFFER_SIZE - 1

\* The bytes in the ring buffer, oldest first.
Contents ==
  [i \in 1 .. (receive_buffer_head - receive_buffer_tail + RECEIVE_BUFFER_SIZE)
                 % RECEIVE_BUFFER_SIZE |->
     receive_buffer[(receive_buffer_tail + i - 1) % RECEIVE_BUFFER_SIZE]]

circular_inc(operand, circle_size) ==
  IF operand + 1 = circle_size THEN 0 ELSE operand + 1

\* Static data before console_init; no line of the interrupt controller is
\* enabled at reset.
Init ==
  /\ receive_buffer = [i \in Indices |-> NUL]
  /\ receive_buffer_head = 0 /\ receive_buffer_tail = 0
  /\ uart = <<>>
  /\ timer = FALSE
  /\ handlers = {}
  /\ running = "unmasked"

TIMER_IRQ == 5
UART_IRQ == 12

-----------------------------------------------------------------------------
\* The hardware.  The timer's period is long against a handler, so it does
\* not tick again before a pending UART interrupt has been taken.

Arrive(c) ==
  /\ Len(uart) < UART_DEPTH
  /\ uart' = Append(uart, c)
  /\ UNCHANGED <<ring, timer, handlers, running>>

uart_can_receive == uart # <<>>

Tick ==
  /\ TIMER_IRQ \in handlers /\ ~timer
  /\ running = "unmasked" => ~uart_can_receive
  /\ timer' = TRUE
  /\ UNCHANGED <<ring, uart, handlers, running>>

\* c_entry, with interrupts unmasked.  A byte may have arrived before.
register_interrupt_handler(line) == handlers' = handlers \union {line}

console_init ==
  /\ running = "unmasked" /\ handlers = {}
  /\ receive_buffer_head' = 0 /\ receive_buffer_tail' = 0
  /\ register_interrupt_handler(UART_IRQ)
  /\ UNCHANGED <<receive_buffer, uart, timer, running>>

scheduler_init ==
  /\ running = "unmasked" /\ handlers = {UART_IRQ}
  /\ register_interrupt_handler(TIMER_IRQ)
  /\ UNCHANGED <<ring, uart, timer, running>>

-----------------------------------------------------------------------------
\* dispatch_interrupts calls the handlers of the pending lines, lowest first.
get_pending_irqs ==
  {line \in handlers :
     (line = TIMER_IRQ /\ timer) \/ (line = UART_IRQ /\ uart_can_receive)}

Dispatched(line) ==
  /\ running = "unmasked"
  /\ line \in get_pending_irqs
  /\ \A other \in get_pending_irqs : line <= other

\* timer_clear_interrupt is forgotten.
TimerNotCleared == Dispatched(TIMER_IRQ) /\ UNCHANGED vars

\* It calls schedule, which resumes a process: the loop is not gone on with.
handle_timer ==
  /\ Dispatched(TIMER_IRQ)
  /\ timer' = FALSE
  /\ UNCHANGED <<ring, uart, handlers, running>>

DispatchUart ==
  /\ Dispatched(UART_IRQ)
  /\ running' = "uart_interrupt_handler"
  /\ UNCHANGED <<ring, uart, timer, handlers>>

dispatch_interrupts == handle_timer \/ DispatchUart

\* One turn of the loop of uart_interrupt_handler.
Insert(data) ==
  /\ receive_buffer' = [receive_buffer EXCEPT ![receive_buffer_head] = data]
  /\ receive_buffer_head' =
       circular_inc(receive_buffer_head, RECEIVE_BUFFER_SIZE)

\* Stops one byte early, as a ring that keeps two slots free would.
RingFullEarly ==
  receive_buffer_tail \in
    {circular_inc(receive_buffer_head, RECEIVE_BUFFER_SIZE),
     circular_inc(circular_inc(receive_buffer_head, RECEIVE_BUFFER_SIZE),
                  RECEIVE_BUFFER_SIZE)}

RingFull ==
  circular_inc(receive_buffer_head, RECEIVE_BUFFER_SIZE) = receive_buffer_tail

ReceiveByte ==
  /\ running = "uart_interrupt_handler" /\ uart_can_receive
  /\ uart' = Tail(uart)
  /\ IF RingFull THEN UNCHANGED <<receive_buffer, receive_buffer_head>>
     ELSE Insert(Head(uart))
  /\ UNCHANGED <<receive_buffer_tail, timer, handlers, running>>

HandlerReturns ==
  /\ running = "uart_interrupt_handler" /\ ~uart_can_receive
  /\ running' = "unmasked"
  /\ UNCHANGED <<ring, uart, timer, handlers>>

uart_interrupt_handler == ReceiveByte \/ HandlerReturns

-----------------------------------------------------------------------------
\* The getch system call of a process; it returns KeyRead(Contents).  What it
\* does to its own stack is looked at in Hextee (KeyFitsArray).
kgetch ==
  /\ running = "unmasked" /\ TIMER_IRQ \in handlers
  /\ receive_buffer_tail' =
       (receive_buffer_tail + Consumed(Contents)) % RECEIVE_BUFFER_SIZE
  /\ UNCHANGED <<receive_buffer, receive_buffer_head, uart, timer, handlers, running>>

c_entry == console_init \/ scheduler_init

Next ==
  \/ \E c \in Bytes : Arrive(c)
  \/ Tick
  \/ c_entry
  \/ dispatch_interrupts
  \/ uart_interrupt_handler
  \/ kgetch

Spec == Init /\ [][Next]_vars

\* c_entry goes on, an asserted interrupt line is taken as soon as interrupts
\* are unmasked, and the handlers run to their end.
FairSpec ==
  /\ Spec
  /\ WF_vars(c_entry) /\ WF_vars(dispatch_interrupts)
  /\ WF_vars(uart_interrupt_handler)

-----------------------------------------------------------------------------
Queue == INSTANCE ByteQueue
           WITH queue <- Contents, offered <- uart,
                CAPACITY <- RECEIVE_BUFFER_SIZE - 1

\* The ring buffer is a first-in first-out queue of one byte less than its
\* size, whatever the order of interrupts and getch calls, wrapping around the
\* end included: bytes come out in the order they arrived, once each, and "if
\* the buffer is full, the character is ignored" (console.c:96), and only then.
ImplementsQueue == Queue!QSpec

\* A byte in the UART reaches the interrupt handler (dispatch_interrupts),
\* although the timer's handler runs first and does not come back to it, and
\* although it may have arrived before the line was enabled (console_init).
UartServed == uart_can_receive ~> (running = "uart_interrupt_handler")
=============================================================================
