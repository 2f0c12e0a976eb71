---------------------------- MODULE TrialConfig ----------------------------
(***************************************************************************)
(* What the checked apply promises about the files of the device, told     *)
(* without requests, tokens, sessions or time: files are on trial or for   *)
(* good; a trial remembers what each file it covers held before; it ends   *)
(* either by being kept as it is or by every covered file being put back.  *)
(***************************************************************************)
CONSTANTS Configs, Values, None

VARIABLES live,      \* what the daemons read
          fallback   \* what a rollback puts back: None for a file not on trial

NoTrial == [f \in Configs |-> None]

\* What the files are if the trial is not kept.
Safe == [f \in Configs |-> IF fallback[f] = None THEN live[f] ELSE fallback[f]]

Init == live \in [Configs -> Values] /\ fallback = NoTrial

\* A trial of new contents for the files fs begins.
Begin(fs, new) ==
  /\ fallback = NoTrial /\ fs # {}
  /\ live' = [f \in Configs |-> IF f \in fs THEN new[f] ELSE live[f]]
  /\ fallback' = [f \in Configs |-> IF f \in fs THEN live[f] ELSE None]

Keep == fallback # NoTrial /\ fallback' = NoTrial /\ live' = live

PutBack == fallback # NoTrial /\ fallback' = NoTrial /\ live' = Safe

\* Contents go live without a trial of their own, for as long as no trial
\* that covers the file is put back.
Overwrite(fs, new) ==
  /\ live' = [f \in Configs |-> IF f \in fs THEN new[f] ELSE live[f]]
  /\ fallback' = fallback

Next == \/ \E fs \in SUBSET Configs, new \in [Configs -> Values] :
             Begin(fs, new) \/ Overwrite(fs, new)
        \/ Keep
        \/ PutBack

Spec == Init /\ [][Next]_<<live, fallback>>
=============================================================================
