--------------------------- MODULE SpectrumProcessor ---------------------------
(***************************************************************************)
(* src/spectrumProcessor.cc and the class of src/SpectrumProcessor.cc: one *)
(* block of IQ samples in, the power of the bins within the bandwidth out. *)
(*                                                                         *)
(* The FFT itself is not modelled.  What is modelled is everything around  *)
(* it that decides which number ends up where: which samples the FFT sees, *)
(* at which index a bin's power is stored, which indices are summed, and   *)
(* how often.  So spectralPowerBuffer holds, at each index, the number of  *)
(* the FFT bin whose power is there, and times counts how often the power  *)
(* of a bin was added.  The window scales every sample alike in every run  *)
(* and is left out, as is the rounding of floats.                          *)
(***************************************************************************)
EXTENDS Integers, Sequences

CONSTANTS
  N,          \* the FFT size
  ByteSize,   \* 2^8: the range of an octet
  Inputs      \* the command lines and standard inputs to consider

(* A sample as it is read: an octet, I and Q in turn.                       *)
Octet == 0 .. ByteSize - 1

ASSUME NAssumption == N \in Nat \ {0} /\ N % 2 = 0
ASSUME ByteSizeAssumption == ByteSize \in Nat \ {0} /\ ByteSize % 2 = 0
ASSUME InputsAssumption ==
  Inputs \subseteq [bandwidthInHz : Nat, sampleRate : Int, numberToAverage : Nat,
                    unsignedSamples : BOOLEAN, blocks : Seq(Seq(Octet))]

VARIABLES
  pc, input,
  blocksRead, count,      \* how many blocks, and octets of the last one
  inputBuffer,            \* seen as signed quantities
  sampleRate, fftShiftTable,
  fftInput,               \* [index -> <<real, imaginary>>]
  spectralPowerBuffer,    \* [index -> FFT bin]
  times,                  \* [FFT bin -> how often its power was added]
  j,                      \* how many power levels were added
  recorded

vars == <<pc, input, blocksRead, count, inputBuffer, sampleRate, fftShiftTable,
          fftInput, spectralPowerBuffer, times, j, recorded>>

Bins == 0 .. N - 1
Half == N \div 2

(* What memory holds that nothing was stored in: no sample has this value.  *)
Stale == ByteSize

Signed(octet) == IF octet < ByteSize \div 2 THEN octet ELSE octet - ByteSize

Init ==
  /\ pc = "construct"
  /\ input \in Inputs
  /\ blocksRead = 0
  /\ count = 0
  /\ inputBuffer = [i \in 0 .. 2 * N - 1 |-> Stale]
  /\ sampleRate = 0
  /\ fftShiftTable = [i \in Bins |-> 0]
  /\ fftInput = [i \in Bins |-> <<Stale, Stale>>]
  /\ spectralPowerBuffer = [i \in Bins |-> 0]
  /\ times = [bin \in Bins |-> 0]
  /\ j = 0
  /\ recorded = FALSE

-----------------------------------------------------------------------------
(* The constructor.                                                         *)

ShiftTable == [i \in Bins |-> IF i < Half THEN i + Half ELSE i - Half]

Construct ==
  /\ pc = "construct"
  /\ sampleRate' = IF input.sampleRate <= 0 THEN 256000 ELSE input.sampleRate
  /\ fftShiftTable' = ShiftTable
  /\ pc' = "read"
  /\ UNCHANGED <<input, blocksRead, count, inputBuffer, fftInput,
                 spectralPowerBuffer, times, j, recorded>>

(* fread() returns less than a block only at the end of the input.          *)
NextBlock == IF blocksRead < Len(input.blocks)
             THEN input.blocks[blocksRead + 1] ELSE << >>

ReadBlock ==
  /\ pc = "read"
  /\ count' = Len(NextBlock)
  /\ inputBuffer' = [i \in DOMAIN inputBuffer |->
                      IF i < Len(NextBlock) THEN Signed(NextBlock[i + 1])
                      ELSE inputBuffer[i]]
  /\ blocksRead' = IF NextBlock = << >> THEN blocksRead ELSE blocksRead + 1
  /\ pc' = IF NextBlock = << >> THEN "done"
           ELSE IF input.unsignedSamples THEN "convert" ELSE "average"
  /\ UNCHANGED <<input, sampleRate, fftShiftTable, fftInput,
                 spectralPowerBuffer, times, j, recorded>>

(* signedBufferPtr[i] -= 128, on an int8_t.                                 *)
(* Mutation: the difference is saturated instead of wrapped.                *)
LessMiddleSaturated(value) ==
  IF value < 0 THEN -(ByteSize \div 2) ELSE value - ByteSize \div 2

LessMiddle(value) == Signed((value - ByteSize \div 2) % ByteSize)

ConvertUnsigned ==
  /\ pc = "convert"
  /\ inputBuffer' = [i \in DOMAIN inputBuffer |->
                      IF i < count THEN LessMiddle(inputBuffer[i]) ELSE inputBuffer[i]]
  /\ pc' = "average"
  /\ UNCHANGED <<input, blocksRead, count, sampleRate, fftShiftTable, fftInput,
                 spectralPowerBuffer, times, j, recorded>>

-----------------------------------------------------------------------------
(* computeSpectralPower.                                                    *)

(* The bandwidth in bins, after it was clipped to half the sample rate.     *)
LowpassSpan ==
  IF 2 * input.bandwidthInHz > sampleRate
  THEN Half
  ELSE (input.bandwidthInHz * N) \div sampleRate

(* Mutation: the band has a bin more at its lower end.                      *)
LowerBinIndexMinusOne == Half - LowpassSpan

LowerBinIndex == Half - LowpassSpan + 1
UpperBinIndex == Half + LowpassSpan - 1

(* What computePowerSpectrum puts in the FFT's input: pair k of the block   *)
(* at index k.  Indices past the block keep what they have.                 *)
FilledInput ==
  [k \in Bins |-> IF 2 * k < count
                  THEN <<inputBuffer[2 * k], inputBuffer[2 * k + 1]>>
                  ELSE fftInput[k]]

(* The power of bin i of the FFT's output is stored at fftShiftTable[i].    *)
PermutedOutput == [index \in Bins |-> CHOOSE i \in Bins : fftShiftTable[i] = index]

SummedBins == {PermutedOutput[index] : index \in LowerBinIndex .. UpperBinIndex}

ComputeSpectralPower ==
  /\ pc = "average"
  /\ j < input.numberToAverage
  /\ fftInput' = FilledInput
  /\ spectralPowerBuffer' = PermutedOutput
  /\ times' = [bin \in Bins |-> IF bin \in SummedBins THEN times[bin] + 1 ELSE times[bin]]
  /\ j' = j + 1
  /\ UNCHANGED <<pc, input, blocksRead, count, inputBuffer, sampleRate,
                 fftShiftTable, recorded>>

(* The sum is divided by numberToAverage and printed.                       *)
WriteRecord ==
  /\ pc = "average"
  /\ j = input.numberToAverage
  /\ recorded' = TRUE
  /\ pc' = "done"
  /\ UNCHANGED <<input, blocksRead, count, inputBuffer, sampleRate, fftShiftTable,
                 fftInput, spectralPowerBuffer, times, j>>

Next ==
  \/ Construct
  \/ ReadBlock
  \/ ConvertUnsigned
  \/ ComputeSpectralPower
  \/ WriteRecord

Spec == Init /\ [][Next]_vars

-----------------------------------------------------------------------------
(* Bin k of an FFT of size N is the frequency k, or k - N in the upper half,*)
(* times the resolution.                                                    *)
Frequency(bin) == IF bin < Half THEN bin ELSE bin - N
Distance(bin) == IF Frequency(bin) < 0 THEN -Frequency(bin) ELSE Frequency(bin)

(* A bin lies in the band if all of it up to the next one does; the band    *)
(* ends at half the sample rate.                                            *)
InBand(bin) ==
  /\ (Distance(bin) + 1) * sampleRate <= input.bandwidthInHz * N
  /\ Distance(bin) < Half

(* The record is the mean power of exactly the bins within the bandwidth,   *)
(* on both sides of the centre, whatever bandwidth, sample rate and number  *)
(* to average: each was added as often as the sum is divided by, and no     *)
(* other was (SpectrumProcessor.cc:175-200).                                *)
RecordIsBandPower ==
  recorded =>
    \A bin \in Bins :
      times[bin] = IF InBand(bin) THEN input.numberToAverage ELSE 0

(* The FFT sees the samples of a full block in their order, at their value: *)
(* two's complement, or offset binary when they are unsigned.               *)
Value(octet) ==
  IF input.unsignedSamples THEN octet - ByteSize \div 2
  ELSE IF octet >= ByteSize \div 2 THEN octet - ByteSize ELSE octet

FftSeesBlock ==
  recorded /\ input.numberToAverage > 0 =>
    LET block == input.blocks[1] IN
      \A k \in Bins : 2 * k + 2 <= Len(block) =>
        fftInput[k] = <<Value(block[2 * k + 1]), Value(block[2 * k + 2])>>

(* spectrumProcessor.cc:24-26: the number of power levels to average before *)
(* outputting a mean value: one level per block, while there are blocks.    *)
AveragesPowerLevels ==
  recorded /\ input.numberToAverage <= Len(input.blocks) =>
    blocksRead = input.numberToAverage

=============================================================================
