--------------------------- MODULE TelegramSender --------------------------
(***************************************************************************)
(* One call of _send_telegram_report (telegram_sender.py): the chunks of a *)
(* report one after the other, each tried four times and once more at the  *)
(* end, as HTML until Telegram first refuses to parse one, as plain text   *)
(* from then on.  A failed attempt may have been delivered: its answer     *)
(* timed out.  Errors end in the log, never in an exception.               *)
(***************************************************************************)
EXTENDS Integers

CONSTANT MaxChunks

ASSUME TelegramConstants == MaxChunks \in Nat \ {0}

Chunks   == 1..MaxChunks
Attempts == 4

VARIABLES broken,  \* chunks Telegram cannot parse as HTML
          chunk,   \* the one being sent; beyond the last when all are done
          attempt, \* attempts made for it; Attempts: only the last one is left
          html,    \* html_mode
          \* what happened so far
          copies,  \* [Chunks -> copies in the chat]
          fails,   \* [Chunks -> attempts that raised]
          plain    \* chunks that were tried as plain text

telegramVars == <<broken, chunk, attempt, html, copies, fails, plain>>

TelegramInit ==
    /\ broken \in SUBSET Chunks
    /\ chunk = 1 /\ attempt = 0 /\ html = TRUE
    /\ copies = [c \in Chunks |-> 0] /\ fails = [c \in Chunks |-> 0]
    /\ plain = {}

Sending == chunk \in Chunks

AsHtml == html /\ attempt < Attempts

Tried == plain' = IF AsHtml THEN plain ELSE plain \union {chunk}

NextChunk == chunk' = chunk + 1 /\ attempt' = 0

Delivered ==
    /\ Sending
    /\ AsHtml => chunk \notin broken
    /\ copies' = [copies EXCEPT ![chunk] = @ + 1]
    /\ NextChunk /\ Tried
    /\ UNCHANGED <<broken, html, fails>>

(* Goes on with the next chunk. *)
ParseError_Mutant_SkipsChunk ==
    /\ Sending /\ AsHtml /\ chunk \in broken
    /\ html' = FALSE
    /\ fails' = [fails EXCEPT ![chunk] = @ + 1]
    /\ NextChunk
    /\ UNCHANGED <<broken, copies, plain>>

(* "can't parse entities": plain text for the rest of the report.  It has  *)
(* cost the chunk an attempt.                                              *)
ParseError ==
    /\ Sending /\ AsHtml /\ chunk \in broken
    /\ html' = FALSE
    /\ fails' = [fails EXCEPT ![chunk] = @ + 1]
    /\ attempt' = attempt + 1
    /\ UNCHANGED <<broken, chunk, copies, plain>>

(* A flood limit, a timeout, no network.                                   *)
AttemptFails ==
    /\ Sending
    /\ \/ UNCHANGED copies
       \/ (AsHtml => chunk \notin broken) /\ copies' = [copies EXCEPT ![chunk] = @ + 1]
    /\ fails' = [fails EXCEPT ![chunk] = @ + 1]
    /\ IF attempt = Attempts THEN NextChunk ELSE attempt' = attempt + 1 /\ UNCHANGED chunk
    /\ Tried
    /\ UNCHANGED <<broken, html>>

TelegramNext == Delivered \/ ParseError \/ AttemptFails

TelegramSpec == TelegramInit /\ [][TelegramNext]_telegramVars

(***************************************************************************)
(* Properties.                                                             *)
(***************************************************************************)
TelegramTypeOK ==
    /\ chunk \in 1 .. MaxChunks + 1 /\ attempt \in 0..Attempts /\ html \in BOOLEAN
    /\ copies \in [Chunks -> 0 .. Attempts + 1] /\ fails \in [Chunks -> 0 .. Attempts + 1]
    /\ plain \subseteq Chunks

(* The report arrives chunk by chunk: one that is behind the sender is in  *)
(* the chat or failed five times, it was tried as plain text if its HTML   *)
(* is bad, and it is there more than once only for attempts that raised    *)
(* although they were delivered; one ahead of the sender has not been sent.*)
ChunksAccounted ==
    \A c \in Chunks :
        /\ c < chunk /\ copies[c] = 0 => fails[c] = Attempts + 1
        /\ c < chunk /\ c \in broken  => c \in plain
        /\ copies[c] <= fails[c] + 1
        /\ c > chunk                  => copies[c] = 0 /\ fails[c] = 0
=============================================================================
