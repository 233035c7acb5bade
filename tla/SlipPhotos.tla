------------------------------ MODULE SlipPhotos ------------------------------
\* Photos for the small instances of SlipVerify: every way an image can be read.
CONSTANT None

Photos == {"clean", "copy", "cheap", "bare", "blurred", "timed", "huge"}

Read(reference, amount, time, signals) ==
    [valid |-> TRUE, recognized |-> TRUE, reference |-> reference, amount |-> amount, time |-> time,
     signals |-> signals]

Nothing == Read(None, None, FALSE, {"low_confidence_reference", "low_confidence_amount"})

\* clean has everything but the time; copy is another photo of it; cheap shows too
\* little money; bare has no reference; blurred is not recognized; timed has a time;
\* huge is refused.
Readings ==
    [i \in Photos |->
        CASE i = "clean" -> Read("ref", 250, FALSE, {})
          [] i = "copy" -> Read("ref", 250, FALSE, {"low_ocr_confidence"})
          [] i = "cheap" -> Read(None, 200, FALSE, {"low_confidence_reference"})
          [] i = "bare" -> Read(None, 250, FALSE, {"low_confidence_reference"})
          [] i = "blurred" -> [Nothing EXCEPT !.recognized = FALSE]
          [] i = "timed" -> Read("other", 250, TRUE, {})
          [] i = "huge" -> [Nothing EXCEPT !.valid = FALSE]]
=============================================================================
