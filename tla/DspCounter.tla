----------------------------- MODULE DspCounter -----------------------------
(***************************************************************************)
(* The rate counters of src/dsp.c that pace every envelope: three counters *)
(* stepped every sample, every third and every fifth (ctr_run), and the 31 *)
(* rates read from them with a mask (ctr_read).                            *)
(***************************************************************************)
EXTENDS Integers, Sequences

\* ctr_out is a 32-bit unsigned of which ctr_read looks at the low 11 bits at
\* most; 2^11 divides 2^32, so it is kept modulo Low.
Low == 2048

Rates == 0 .. 31

\* ctr_number and ctr_mask for the rates 1 to 31; rate 0 has no counter.
ctr_number(rate) ==
  CASE rate <= 2  -> rate - 1
    [] rate >= 30 -> 0
    [] OTHER      -> <<2, 0, 1>>[(rate % 3) + 1]

ctr_mask(rate) ==
  <<2047, 511,  255, 1023, 255,  127, 511, 127,  63, 255, 63,  31, 127, 31,
    15, 63, 15,  7, 31, 7,  3, 15, 3,  1, 7, 1,  0, 3, 0,  1,  0>>[rate]

ctr_rate == [n \in 0 .. 2 |-> 2 * n + 1]

VARIABLES
  ctr_internal,   \* samples until counter 1 or 2 steps; that of 0 never changes
  ctr_out,        \* the counters, modulo Low
  since,          \* history: samples since the rate last fired or a restore
  fired           \* history: the rates that have fired since a restore

vars == <<ctr_internal, ctr_out, since, fired>>

\* ctr_internal_init and ctr_initial: {1, 2, 3} and {0, -347, -107}.
InternalInit == [n \in 0 .. 2 |-> n + 1]
OutInit == [n \in 0 .. 2 |-> <<0, Low - 347, Low - 107>>[n + 1]]

Init ==
  /\ ctr_internal = InternalInit /\ ctr_out = OutInit
  /\ since = [r \in Rates |-> 0] /\ fired = {}

\* Mutant: a counter that steps is not reloaded until the sample after.
SteppedLate == {n \in 0 .. 2 : n = 0 \/ ctr_internal[n] = 0}

\* The counters that step in this sample: 0, and those that count down to 0.
Stepped == {n \in 0 .. 2 : n = 0 \/ ctr_internal[n] = 1}

\* Mutant: counters 1 and 2 are read in any of their samples.
ReadsAny(rate, out, internal) ==
  rate # 0 /\ out[ctr_number(rate)] % (ctr_mask(rate) + 1) = 0

\* ctr_read.  The masks are of the form 2^k - 1.
ctr_read(rate, out, internal) ==
  /\ rate # 0
  /\ out[ctr_number(rate)] % (ctr_mask(rate) + 1) = 0
  /\ internal[ctr_number(rate)] = ctr_rate[ctr_number(rate)]

Fires == {r \in Rates : ctr_read(r, ctr_out', ctr_internal')}

ctr_run ==
  /\ ctr_out' = [n \in 0 .. 2 |-> IF n \in Stepped THEN (ctr_out[n] + 1) % Low ELSE ctr_out[n]]
  /\ ctr_internal' = [n \in 0 .. 2 |-> IF n = 0 THEN ctr_internal[n]
                                       ELSE IF n \in Stepped THEN ctr_rate[n]
                                       ELSE ctr_internal[n] - 1]
  /\ since' = [r \in Rates |-> IF r \in Fires \cup {0} THEN 0 ELSE since[r] + 1]
  /\ fired' = fired \cup Fires

\* dsp_restore of the next file starts the counters over.
ctr_init ==
  /\ ctr_internal' = InternalInit /\ ctr_out' = OutInit
  /\ since' = [r \in Rates |-> 0] /\ fired' = {}

Next == ctr_run \/ ctr_init

Spec == Init /\ [][Next]_vars

-----------------------------------------------------------------------------
(* Properties                                                              *)

\* The samples between two firings of a rate: 2048, 1536, ... 2, 1.
Period(rate) == (ctr_mask(rate) + 1) * ctr_rate[ctr_number(rate)]

\* A higher rate is a shorter period.
ASSUME PeriodsFall == \A r \in 1 .. 30 : Period(r + 1) < Period(r)

\* A rate fires exactly a period after it last fired: the mask and the countdown
\* of its counter agree once in a period, whatever phase a restore left them in.
OnPeriod ==
  [][ctr_run => \A r \in Fires \cap fired : since[r] + 1 = Period(r)]_vars

\* No envelope waits longer than its period, the first time after a restore
\* included, and rate 0 never fires.
NeverLate == 0 \notin fired /\ \A r \in 1 .. 31 : since[r] < Period(r)
=============================================================================
