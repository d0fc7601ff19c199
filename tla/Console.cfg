\* A buffer of four bytes fills, wraps and holds a whole arrow key.  The bytes
\* make complete, split and broken key sequences, and NUL, which ends a C
\* string.  The UART's FIFO is never enabled, so it holds one byte.
CONSTANTS
  Bytes = {"ESC", "[", "A", "DEL", "NUL"}
  RECEIVE_BUFFER_SIZE = 4
  UART_DEPTH = 1
SPECIFICATION FairSpec
PROPERTIES ImplementsQueue UartServed
