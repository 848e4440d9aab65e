------------------------- MODULE MCSpectrumProcessor -------------------------
(* Samples, bandwidths and sample rates for an FFT of 8 points.             *)
EXTENDS SpectrumProcessor

Rising(length) == [i \in 1 .. length |-> (i - 1) % ByteSize]
Falling(length) == [i \in 1 .. length |-> (ByteSize - i) % ByteSize]

Input(bandwidth, rate, number, isUnsigned, blocks) ==
  [bandwidthInHz |-> bandwidth, sampleRate |-> rate, numberToAverage |-> number,
   unsignedSamples |-> isUnsigned, blocks |-> blocks]

(* Bandwidths on, below and above the edges of bins and past the clip, for  *)
(* resolutions of 1 and 10 Hz and the default rate; blocks of every length. *)
ManyInputs ==
  {Input(bandwidth, rate, number, isUnsigned, <<block>>) :
     bandwidth \in {0, 1, 2, 3, 4, 5, 9, 10, 11, 29, 30, 39, 40, 41,
                    31999, 32000, 127999, 200000},
     rate \in {-1, 0, 8, 80},
     number \in {0, 1, 3},
     isUnsigned \in BOOLEAN,
     block \in {Rising(2 * N), Falling(2 * N)} \cup {Rising(k) : k \in 0 .. 3}}

TwoBlocks == {Input(2, 8, 2, FALSE, <<Rising(2 * N), Falling(2 * N)>>)}
=============================================================================
