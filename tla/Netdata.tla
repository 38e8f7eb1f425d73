-------------------------------- MODULE Netdata --------------------------------
(***************************************************************************)
(* Packets of audio, netdata.h and netdata.cc: the header fields the          *)
(* receivers use, and the samples of all channels, interleaved, in one of     *)
(* three formats, as bytes.  A sample is a number: of steps of the integer    *)
(* formats times Grain, or the machine word of a float.                      *)
(***************************************************************************)
EXTENDS Integers, Sequences

CONSTANTS
  Byte,         \* values of a byte, 256 in the program
  Grain         \* parts of a step that the sender's samples are told apart by

ASSUME NetdataParams ==
  /\ Byte \in Nat \ {0, 1} /\ Byte % 2 = 0
  /\ Grain \in Nat \ {0} /\ Grain % 2 = 0

FM_16BIT == "16bit"
FM_24BIT == "24bit"
FM_FLOAT == "float"
Formats  == {FM_16BIT, FM_24BIT, FM_FLOAT}

FL_TIMED == "timed"   \* the first packet of a period, with a valid dtime

(* Bytes per sample.                                                       *)
Bytes(form) ==
  CASE form = FM_16BIT -> 2 [] form = FM_24BIT -> 3 [] form = FM_FLOAT -> 4

(* R16 and R24.                                                            *)
R(form) ==
  CASE form = FM_16BIT -> (Byte * Byte) \div 2 - 1
    [] form = FM_24BIT -> (Byte * Byte * Byte) \div 2 - 1

-----------------------------------------------------------------------------
(* Samples                                                                 *)

(* The conversion of a float to an int drops the fraction: towards zero.     *)
Truncate(x) == IF x >= 0 THEN x \div Grain ELSE -((-x) \div Grain)

(* Half a step is added to samples of either sign.                          *)
Quantise(form, x) ==
  LET v == Truncate(x + Grain \div 2)
  IN  IF v > R(form) THEN R(form) ELSE IF v < -R(form) THEN -R(form) ELSE v

(* A float is copied, the last byte of its word first.                      *)
Encode(form, x) ==
  CASE form = FM_16BIT ->
         LET v == Quantise(form, x) IN <<(v \div Byte) % Byte, v % Byte>>
    [] form = FM_24BIT ->
         LET v == Quantise(form, x)
         IN  <<(v \div (Byte * Byte)) % Byte, (v \div Byte) % Byte, v % Byte>>
    [] form = FM_FLOAT ->
         <<(x \div (Byte * Byte * Byte)) % Byte, (x \div (Byte * Byte)) % Byte,
           (x \div Byte) % Byte, x % Byte>>

(* The first byte has the sign.                                             *)
HighByte(p) == IF 2 * p >= Byte THEN p - Byte ELSE p

Decode(form, p) ==
  CASE form = FM_16BIT -> Grain * (Byte * HighByte(p[1]) + p[2])
    [] form = FM_24BIT ->
         Grain * (Byte * Byte * HighByte(p[1]) + Byte * p[2] + p[3])
    [] form = FM_FLOAT ->
         Byte * Byte * Byte * HighByte(p[1]) + Byte * Byte * p[2] + Byte * p[3] + p[4]

-----------------------------------------------------------------------------
(* Packets                                                                 *)

UNWRITTEN == 0   \* what a packet of the queue held before

(* A packet of nfram frames; the length sent is that of its samples.         *)
init_audio_data(flags, form, nchan, count, nfram, dtime) ==
  [flags |-> flags, form |-> form, nchan |-> nchan, count |-> count,
   nfram |-> nfram, dtime |-> dtime,
   data |-> [a \in 1..(Bytes(form) * nchan * nfram) |-> UNWRITTEN]]

(* The bytes of a sample are the ones behind this one.                      *)
Place(packet, chan, frame) ==
  Bytes(packet.form) * (packet.nchan * frame + chan)

put_audio(packet, chan, offs, adata) ==
  LET Sample(a) == {i \in DOMAIN adata :
                      a - Place(packet, chan, offs + i - 1) \in 1..Bytes(packet.form)}
  IN  [packet EXCEPT !.data = [a \in DOMAIN @ |->
         IF Sample(a) = {} THEN @[a]
         ELSE LET i == CHOOSE n \in Sample(a) : TRUE
              IN  Encode(packet.form, adata[i])[a - Place(packet, chan, offs + i - 1)]]]

get_audio(packet, chan, offs, nsamp) ==
  [i \in 1..nsamp |->
     Decode(packet.form, [k \in 1..Bytes(packet.form) |->
                            packet.data[Place(packet, chan, offs + i - 1) + k]])]
=============================================================================
