---------------------------- MODULE PictureItem ----------------------------
(***************************************************************************)
(* What the application promises about reading an uploaded picture, with   *)
(* no executions in sight: it is tried a bounded number of times, one try  *)
(* at a time counts, only the try that counts can say what the picture     *)
(* shows, and a picture that was read is not tried again.                  *)
(*                                                                         *)
(* PictureReading is shown to implement this.                              *)
(***************************************************************************)
EXTENDS Integers

CONSTANTS
    MaxAttempts,           \* PICTURE_DESCRIBE_MAX_ATTEMPTS
    NoTry                  \* no try has read the picture

VARIABLES
    tries,                 \* tries so far; the last one is the one that counts
    waiting,               \* is somebody waiting for it?
    readBy                 \* the try whose reading the picture has

itemVars == <<tries, waiting, readBy>>

ItemInit ==
    /\ tries = 0
    /\ waiting = FALSE
    /\ readBy = NoTry

\* A picture without a reading is tried (again), in place of the last try.
Try ==
    /\ readBy = NoTry
    /\ tries < MaxAttempts
    /\ tries' = tries + 1
    /\ waiting' = TRUE
    /\ UNCHANGED readBy

\* The try that counts reads the picture, even one given up too early.
Read ==
    /\ tries > 0
    /\ readBy' = tries
    /\ waiting' = FALSE
    /\ UNCHANGED tries

\* It is given up.
GiveUp ==
    /\ waiting
    /\ waiting' = FALSE
    /\ UNCHANGED <<tries, readBy>>

ItemNext == Try \/ Read \/ GiveUp

ItemSpec == ItemInit /\ [][ItemNext]_itemVars
=============================================================================
