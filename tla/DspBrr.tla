------------------------------- MODULE DspBrr -------------------------------
(***************************************************************************)
(* The sample arithmetic of a voice of src/dsp.c: BRR nibbles, scaling and *)
(* prediction filters as the player decodes them (brr_sample4, four        *)
(* samples at a time), the interpolation between samples and the           *)
(* envelope's scaling.                                                     *)
(* All pure operators; >> is a division that rounds down.                  *)
(***************************************************************************)
EXTENDS Integers, Sequences

CONSTANT gauss   \* the interpolation table, DspGauss

Mids == 0 .. 255

\* The four weights of a position never add up to more than 2049/2048.
ASSUME GaussAssumption ==
  /\ gauss \in [0 .. 511 -> Nat]
  /\ \A m \in Mids :
       gauss[255 - m] + gauss[511 - m] + gauss[256 + m] + gauss[m] <= 2049

Int8(v) == ((v + 128) % 256) - 128
Int16(v) == ((v + 32768) % 65536) - 32768
Word(v) == v % 65536
Even(v) == v - (v % 2)

clamp16(v) == IF Int16(v) = v THEN v ELSE IF v < 0 THEN -32768 ELSE 32767

-----------------------------------------------------------------------------
(* Nibbles                                                                 *)

Nibble(n) == IF n >= 8 THEN n - 16 ELSE n

brr_pair_extract(byte) == <<Nibble(byte \div 16), Nibble(byte % 16)>>

\* The header: shift in the high nibble, at most 12, then the filter, then the flags.
Shift(hdr) == IF hdr \div 16 > 12 THEN 12 ELSE hdr \div 16
FilterOf(hdr) == (hdr \div 4) % 4

brr_pair_scale(in, shift) == [k \in 1 .. 2 |-> (in[k] * 2 ^ shift) \div 2]

Pair(hdr, byte) == brr_pair_scale(brr_pair_extract(byte), Shift(hdr))

-----------------------------------------------------------------------------
(* Filters                                                                 *)

coeff1_mul(p) == p + ((-p) \div 16)
coeff2_mul(p) == 2 * p + ((-p * 3) \div 32)
coeff3_mul(p) == 2 * p + ((-p * 13) \div 64)
coeff4_mul(p) == p + ((-p * 3) \div 16)

brr_filter1(s, p) == s + coeff1_mul(p)
brr_filter2(s, p, pp) == s + coeff2_mul(p) - coeff1_mul(pp)
brr_filter3(s, p, pp) == s + coeff3_mul(p) - coeff4_mul(pp)

Filter(f, s, p, pp) ==
  CASE f = 0 -> s
    [] f = 1 -> brr_filter1(s, p)
    [] f = 2 -> brr_filter2(s, p, pp)
    [] f = 3 -> brr_filter3(s, p, pp)

\* brr_sample4 before it clamps: two bytes after the samples prev = <<older, old>>.
Four(hdr, bytes, prev) ==
  LET f == FilterOf(hdr)
      in == Pair(hdr, bytes[1]) \o Pair(hdr, bytes[2])
      a == Filter(f, in[1], prev[2], prev[1])
      b == Filter(f, in[2], a, prev[2])
      c == Filter(f, in[3], b, a)
      d == Filter(f, in[4], c, b)
  IN  <<a, b, c, d>>

-----------------------------------------------------------------------------
(* Interpolation and envelope                                              *)

wrap12(v) == IF v >= 12 THEN v - 12 ELSE v

\* The four samples around position pos of the ring buffer of 12.
Points(buf, buf_pos, pos) ==
  [k \in 1 .. 4 |-> buf[wrap12(buf_pos + ((pos \div 4096) % 8) + k - 1)]]

\* Mutant: each product keeps a bit too many.
interpolateWide(in, pos) ==
  LET mid == (pos \div 16) % 256
  IN  Even(  ((gauss[255 - mid] * in[1]) \div 1024)
           + ((gauss[511 - mid] * in[2]) \div 1024)
           + ((gauss[256 + mid] * in[3]) \div 1024)
           + ((gauss[mid] * in[4]) \div 1024))

\* Their weighted sum, before it is stored in 16 bits.
interpolate(in, pos) ==
  LET mid == (pos \div 16) % 256
  IN  Even(  ((gauss[255 - mid] * in[1]) \div 2048)
           + ((gauss[511 - mid] * in[2]) \div 2048)
           + ((gauss[256 + mid] * in[3]) \div 2048)
           + ((gauss[mid] * in[4]) \div 2048))

Enveloped(sample, env) == Even((sample * env) \div 2048)
OutX(sample) == (sample \div 256) % 256
EnvX(env) == env \div 16
=============================================================================
