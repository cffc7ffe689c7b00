----------------------------- MODULE AsyncSizes -----------------------------
(***************************************************************************)
(* The sizes of the asynchronous-message buffers of a dispatcher           *)
(* (os/kernel/sys/Dispatcher.H), in words.                                 *)
(***************************************************************************)
EXTENDS Integers

CONSTANTS HDR_LENGTH, MSG_LENGTH,  \* words of header, most words of data
          CAPACITY,                \* words in use at most
          WORD                     \* bytes in a word, sizeof(uval)

ASSUME Sizes == /\ {HDR_LENGTH, MSG_LENGTH, CAPACITY, WORD} \subseteq Nat \ {0}
                /\ CAPACITY >= HDR_LENGTH + MSG_LENGTH

MAX_LENGTH == HDR_LENGTH + MSG_LENGTH
BUF_SIZE   == CAPACITY + (MAX_LENGTH - 1)

\* Messages a buffer holds at most: each takes its header at least.
BufferMax  == CAPACITY \div HDR_LENGTH
=============================================================================
