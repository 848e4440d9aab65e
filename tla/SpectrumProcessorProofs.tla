------------------------ MODULE SpectrumProcessorProofs ------------------------
(***************************************************************************)
(* For every FFT size, sample rate, bandwidth and number to average: the   *)
(* record is the mean power of exactly the bins within the bandwidth.      *)
(***************************************************************************)
EXTENDS SpectrumProcessor, TLAPS

(* What the constructor has made.                                           *)
Constructed ==
  /\ sampleRate \in Nat \ {0}
  /\ fftShiftTable = ShiftTable

(* The inductive invariant: every bin of the band was added as often as     *)
(* the loop has gone round, and no other bin ever.                          *)
BandInv ==
  /\ input \in Inputs
  /\ pc \in {"construct", "read", "convert", "average", "done"}
  /\ j \in Nat
  /\ pc # "construct" => Constructed
  /\ pc \in {"construct", "read", "convert"} => j = 0
  /\ times = [bin \in Bins |-> IF InBand(bin) THEN j ELSE 0]
  /\ recorded => pc = "done" /\ j = input.numberToAverage

-----------------------------------------------------------------------------
(* Half is half of N (SpectrumProcessor.h:21).                              *)
LEMMA HalfOfN == Half \in Nat \ {0} /\ N = 2 * Half /\ N \in Nat
BY NAssumption, SMT DEF Half

(* What the quotient of two numbers is (SpectrumProcessor.cc:185).          *)
LEMMA QuotientBounds ==
  ASSUME NEW a \in Nat, NEW d \in Nat \ {0}
  PROVE  /\ a \div d \in Nat
         /\ (a \div d) * d <= a
         /\ a < (a \div d + 1) * d
BY SMT

(* A number is below the quotient if its successor times the divisor is no  *)
(* more than the dividend.                                                  *)
LEMMA BelowQuotient ==
  ASSUME NEW a \in Nat, NEW d \in Nat \ {0}, NEW k \in Nat
  PROVE  k < a \div d <=> (k + 1) * d <= a
<1>. DEFINE q == a \div d
<1>1. q \in Nat /\ q * d <= a /\ a < (q + 1) * d
  BY QuotientBounds
<1>2. ASSUME k < q PROVE (k + 1) * d <= a
  <2>1. k + 1 <= q
    BY <1>1, <1>2
  <2>2. (k + 1) * d <= q * d
    BY <1>1, <2>1, SMT
  <2>. QED
    BY <1>1, <2>2
<1>3. ASSUME (k + 1) * d <= a PROVE k < q
  <2>1. (k + 1) * d < (q + 1) * d
    BY <1>1, <1>3
  <2>2. k + 1 < q + 1
    BY <1>1, <2>1, SMT
  <2>. QED
    BY <1>1, <2>2
<1>. QED
  BY <1>2, <1>3

(* The span of the band never reaches past the buffer, and a bin is in the  *)
(* band if it is nearer to the centre than the span                         *)
(* (SpectrumProcessor.cc:175-191).                                          *)
LEMMA SpanOfBand ==
  ASSUME input \in Inputs, sampleRate \in Nat \ {0}
  PROVE  /\ LowpassSpan \in 0 .. Half
         /\ \A bin \in Bins : Distance(bin) \in 0 .. Half
         /\ \A bin \in Bins : InBand(bin) <=> Distance(bin) < LowpassSpan
<1>. DEFINE bandwidth == input.bandwidthInHz
<1>1. bandwidth \in Nat
  BY InputsAssumption
<1>2. \A bin \in Bins : Distance(bin) \in 0 .. Half
  BY HalfOfN DEF Bins, Distance, Frequency
<1>3. CASE 2 * bandwidth > sampleRate
  <2>1. LowpassSpan = Half
    BY <1>3 DEF LowpassSpan
  <2>2. ASSUME NEW bin \in Bins, Distance(bin) < Half PROVE InBand(bin)
    <3>1. (Distance(bin) + 1) * sampleRate <= Half * sampleRate
      BY <1>2, <2>2, HalfOfN, SMT
    <3>2. Half * sampleRate <= Half * (2 * bandwidth)
      BY <1>1, <1>3, HalfOfN, SMT
    <3>3. Half * (2 * bandwidth) = bandwidth * N
      BY <1>1, HalfOfN, SMT
    <3>4. Half * sampleRate \in Int /\ bandwidth * N \in Int
          /\ (Distance(bin) + 1) * sampleRate \in Int
      BY <1>1, <1>2, <2>2, HalfOfN
    <3>. QED
      BY <2>2, <3>1, <3>2, <3>3, <3>4 DEF InBand
  <2>. QED
    BY <1>2, <2>1, <2>2, HalfOfN DEF InBand
<1>4. CASE ~(2 * bandwidth > sampleRate)
  <2>1. LowpassSpan = (bandwidth * N) \div sampleRate /\ bandwidth * N \in Nat
    BY <1>1, <1>4, HalfOfN DEF LowpassSpan
  <2>2. LowpassSpan \in Nat /\ LowpassSpan <= Half
    <3>1. LowpassSpan \in Nat /\ LowpassSpan * sampleRate <= bandwidth * N
      BY <2>1, QuotientBounds
    <3>2. bandwidth * N <= Half * sampleRate
      <4>1. bandwidth * N = Half * (2 * bandwidth)
        BY <1>1, HalfOfN, SMT
      <4>2. Half * (2 * bandwidth) <= Half * sampleRate
        BY <1>1, <1>4, HalfOfN, SMT
      <4>. QED
        BY <4>1, <4>2
    <3>3. LowpassSpan * sampleRate <= Half * sampleRate
      BY <2>1, <3>1, <3>2, HalfOfN
    <3>. QED
      BY <3>1, <3>3, HalfOfN, SMT
  <2>3. ASSUME NEW bin \in Bins
        PROVE  InBand(bin) <=> Distance(bin) < LowpassSpan
    <3>1. Distance(bin) < LowpassSpan
            <=> (Distance(bin) + 1) * sampleRate <= bandwidth * N
      BY <1>2, <2>1, BelowQuotient
    <3>. QED
      BY <1>2, <2>2, <3>1, HalfOfN DEF InBand
  <2>. QED
    BY <1>2, <2>2, <2>3
<1>. QED
  BY <1>3, <1>4

(* Both halves of the spectrum have changed places: what is stored at an    *)
(* index is the bin half a spectrum away (SpectrumProcessor.cc:114-118,     *)
(* :288-292).                                                               *)
LEMMA OutputIsShifted ==
  ASSUME fftShiftTable = ShiftTable, NEW index \in Bins
  PROVE  PermutedOutput[index] = IF index < Half THEN index + Half ELSE index - Half
<1>. DEFINE i == IF index < Half THEN index + Half ELSE index - Half
<1>1. i \in Bins /\ fftShiftTable[i] = index
  BY HalfOfN DEF Bins, ShiftTable
<1>2. \A k \in Bins : fftShiftTable[k] = index => k = i
  BY HalfOfN DEF Bins, ShiftTable
<1>3. (CHOOSE k \in Bins : fftShiftTable[k] = index) = i
  BY <1>1, <1>2
<1>. QED
  BY <1>3 DEF PermutedOutput

(* The indices from lowerBinIndex to upperBinIndex hold the bins of the     *)
(* band (SpectrumProcessor.cc:187-200).                                     *)
LEMMA SummedBinsAreBand ==
  ASSUME input \in Inputs, Constructed
  PROVE  SummedBins = {bin \in Bins : InBand(bin)}
<1>1. /\ LowpassSpan \in 0 .. Half
      /\ \A bin \in Bins : InBand(bin) <=> Distance(bin) < LowpassSpan
  BY SpanOfBand DEF Constructed
<1>2. LowerBinIndex .. UpperBinIndex \subseteq Bins
  BY <1>1, HalfOfN DEF LowerBinIndex, UpperBinIndex, Bins
<1>3. ASSUME NEW index \in LowerBinIndex .. UpperBinIndex
      PROVE  PermutedOutput[index] \in Bins /\ InBand(PermutedOutput[index])
  <2>1. index \in Bins
    BY <1>2
  <2>. DEFINE bin == PermutedOutput[index]
  <2>2. bin = IF index < Half THEN index + Half ELSE index - Half
    BY <2>1, OutputIsShifted DEF Constructed
  <2>3. bin \in Bins
    BY <2>1, <2>2, HalfOfN DEF Bins
  <2>4. Distance(bin) < LowpassSpan
    BY <1>1, <2>1, <2>2, HalfOfN
       DEF LowerBinIndex, UpperBinIndex, Bins, Distance, Frequency
  <2>. QED
    BY <1>1, <2>3, <2>4
<1>4. ASSUME NEW bin \in Bins, InBand(bin)
      PROVE  \E index \in LowerBinIndex .. UpperBinIndex : PermutedOutput[index] = bin
  <2>. DEFINE index == IF bin < Half THEN bin + Half ELSE bin - Half
  <2>1. Distance(bin) < LowpassSpan
    BY <1>1, <1>4
  <2>2. index \in LowerBinIndex .. UpperBinIndex /\ index \in Bins
    BY <1>1, <2>1, HalfOfN
       DEF LowerBinIndex, UpperBinIndex, Bins, Distance, Frequency
  <2>3. PermutedOutput[index] = IF index < Half THEN index + Half ELSE index - Half
    BY <2>2, OutputIsShifted DEF Constructed
  <2>4. PermutedOutput[index] = bin
    BY <2>3, HalfOfN DEF Bins
  <2>. QED
    BY <2>2, <2>4
<1>. QED
  BY <1>3, <1>4 DEF SummedBins

-----------------------------------------------------------------------------
(* The invariant holds at the start...                                      *)
LEMMA BandInit == Init => BandInv
<1>. SUFFICES ASSUME Init PROVE BandInv
  OBVIOUS
<1>1. times = [bin \in Bins |-> IF InBand(bin) THEN j ELSE 0]
  BY DEF Init
<1>. QED
  BY <1>1 DEF Init, BandInv

(* No step of the program adds a bin outside the band, or one of it twice.  *)
LEMMA BandNext == BandInv /\ [Next]_vars => BandInv'
<1>. SUFFICES ASSUME BandInv, [Next]_vars PROVE BandInv'
  OBVIOUS
<1>. USE DEF BandInv
<1>1. CASE Construct
  <2>1. input' = input /\ pc' = "read" /\ j' = 0 /\ times' = times /\ ~recorded'
    BY <1>1 DEF Construct
  <2>2. sampleRate' \in Nat \ {0} /\ fftShiftTable' = ShiftTable
    BY <1>1, InputsAssumption DEF Construct
  <2>3. times' = [bin \in Bins |-> 0]
    <3>1. j = 0 /\ times = [bin \in Bins |-> IF InBand(bin) THEN j ELSE 0]
      BY <1>1 DEF Construct
    <3>. QED
      BY <2>1, <3>1
  <2>4. ShiftTable' = ShiftTable
    BY DEF ShiftTable, Bins, Half
  <2>5. times' = [bin \in Bins |-> IF InBand(bin)' THEN j' ELSE 0]
    BY <2>1, <2>3
  <2>. QED
    BY <2>1, <2>2, <2>4, <2>5 DEF Constructed, Bins
<1>2. CASE ReadBlock
  BY <1>2 DEF ReadBlock, Constructed, ShiftTable, InBand, Distance, Frequency
<1>3. CASE ConvertUnsigned
  BY <1>3 DEF ConvertUnsigned, Constructed, ShiftTable, InBand, Distance, Frequency
<1>4. CASE ComputeSpectralPower
  <2>1. /\ pc = "average" /\ pc' = pc /\ input' = input /\ j' = j + 1
        /\ sampleRate' = sampleRate /\ fftShiftTable' = fftShiftTable
        /\ recorded' = recorded /\ j < input.numberToAverage
    BY <1>4 DEF ComputeSpectralPower
  <2>2. SummedBins = {bin \in Bins : InBand(bin)}
    BY <2>1, SummedBinsAreBand
  <2>3. times' = [bin \in Bins |-> IF InBand(bin) THEN j + 1 ELSE 0]
    BY <1>4, <2>2 DEF ComputeSpectralPower
  <2>4. \A bin \in Bins : InBand(bin)' <=> InBand(bin)
    BY <2>1 DEF InBand, Distance, Frequency
  <2>. QED
    BY <2>1, <2>3, <2>4 DEF Constructed, ShiftTable
<1>5. CASE WriteRecord
  BY <1>5 DEF WriteRecord, Constructed, ShiftTable, InBand, Distance, Frequency
<1>6. CASE UNCHANGED vars
  BY <1>6 DEF vars, Constructed, ShiftTable, InBand, Distance, Frequency
<1>. QED
  BY <1>1, <1>2, <1>3, <1>4, <1>5, <1>6 DEF Next

(* Every record is the mean power of exactly the bins within the bandwidth. *)
THEOREM RecordIsBandPowerHolds == Spec => []RecordIsBandPower
<1>1. BandInv => RecordIsBandPower
  BY DEF BandInv, RecordIsBandPower
<1>. QED
  BY <1>1, BandInit, BandNext, PTL DEF Spec

-----------------------------------------------------------------------------
(* What the FFT sees.                                                       *)

(* The block that is read; the code reads no other.                         *)
Block == input.blocks[1]

(* The block is in the buffer, converted.                                   *)
InBuffer == pc = "average" \/ recorded

(* From the moment the block is in the buffer, every octet of it is there at *)
(* its value.                                                               *)
BlockInv ==
  /\ input \in Inputs
  /\ inputBuffer \in [0 .. 2 * N - 1 -> Int]
  /\ j \in Nat
  /\ pc \in {"construct", "read"} => blocksRead = 0 /\ j = 0
  /\ pc = "convert" => j = 0 /\ input.unsignedSamples
  /\ pc = "convert" \/ InBuffer => /\ input.blocks # << >>
                                  /\ count = Len(Block)
  /\ pc = "convert" => \A i \in 0 .. 2 * N - 1 :
                          i < count => inputBuffer[i] = Signed(Block[i + 1])
  /\ InBuffer => \A i \in 0 .. 2 * N - 1 :
                   i < count => inputBuffer[i] = Value(Block[i + 1])
  /\ InBuffer /\ j > 0 => \A k \in Bins : 2 * k + 2 <= count =>
       fftInput[k] = <<Value(Block[2 * k + 1]), Value(Block[2 * k + 2])>>
  /\ recorded => pc = "done" /\ j = input.numberToAverage

(* The middle of the range of an octet.                                     *)
LEMMA MiddleOfByte ==
  ByteSize \div 2 \in Nat \ {0} /\ ByteSize = 2 * (ByteSize \div 2)
BY ByteSizeAssumption, SMT

(* The rest of a number that lies less than the modulus below zero.         *)
LEMMA ModuloBelowZero ==
  ASSUME NEW m \in Nat \ {0}, NEW x \in Int, -m <= x, x < m
  PROVE  x % m = IF x < 0 THEN x + m ELSE x
BY SMT

(* Subtracting 128 from an octet seen as signed, and wrapping, gives its    *)
(* offset binary value (spectrumProcessor.cc:235-242).                      *)
LEMMA ValueOfOctet ==
  ASSUME NEW octet \in Octet
  PROVE  /\ Signed(octet) \in Int /\ Value(octet) \in Int
         /\ ~input.unsignedSamples => Signed(octet) = Value(octet)
         /\ input.unsignedSamples => LessMiddle(Signed(octet)) = Value(octet)
<1>. DEFINE half == ByteSize \div 2
            shifted == Signed(octet) - half
<1>1. half \in Nat \ {0} /\ ByteSize = 2 * half /\ octet \in 0 .. ByteSize - 1
  BY MiddleOfByte DEF Octet
<1>2. Signed(octet) = IF octet < half THEN octet ELSE octet - ByteSize
  BY DEF Signed
<1>3. shifted \in Int /\ -ByteSize <= shifted /\ shifted < ByteSize
  BY <1>1, <1>2
<1>4. shifted % ByteSize = IF shifted < 0 THEN shifted + ByteSize ELSE shifted
  BY <1>3, ByteSizeAssumption, ModuloBelowZero
<1>5. Signed(shifted % ByteSize) = octet - half
  BY <1>1, <1>2, <1>4 DEF Signed
<1>. QED
  BY <1>1, <1>2, <1>5 DEF Value, LessMiddle

(* A block is a sequence of octets.                                         *)
LEMMA BlockIsOctets ==
  ASSUME input \in Inputs, NEW n \in DOMAIN input.blocks
  PROVE  input.blocks[n] \in Seq(Octet)
BY InputsAssumption

(* Before anything is read, nothing is promised about the buffers.          *)
LEMMA BlockStart == Init => BlockInv
<1>. SUFFICES ASSUME Init PROVE BlockInv
  OBVIOUS
<1>1. inputBuffer \in [0 .. 2 * N - 1 -> Int]
  BY ByteSizeAssumption DEF Init, Stale
<1>. QED
  BY <1>1 DEF Init, BlockInv, InBuffer

(* Reading, converting and filling in keep every octet at its place and     *)
(* value.                                                                   *)
LEMMA BlockNext == BlockInv /\ [Next]_vars => BlockInv'
<1>. SUFFICES ASSUME BlockInv, [Next]_vars PROVE BlockInv'
  OBVIOUS
<1>. USE DEF BlockInv, InBuffer
<1>1. CASE Construct
  BY <1>1 DEF Construct
<1>2. CASE ReadBlock
  <2>. /\ pc = "read" /\ blocksRead = 0 /\ j = 0 /\ ~recorded
       /\ input' = input /\ j' = j /\ recorded' = recorded
    BY <1>2 DEF ReadBlock
  <2>. input.blocks \in Seq(Seq(Octet))
    BY InputsAssumption
  <2>1. CASE NextBlock = << >>
    <3>1. /\ pc' = "done" /\ inputBuffer' = inputBuffer
      BY <1>2, <2>1 DEF ReadBlock
    <3>. QED
      BY <3>1
  <2>2. CASE NextBlock # << >>
    <3>1. NextBlock = Block /\ input.blocks # << >> /\ 1 \in DOMAIN input.blocks
      BY <2>2 DEF NextBlock, Block
    <3>2. Block \in Seq(Octet)
      BY <3>1, BlockIsOctets DEF Block
    <3>3. count' = Len(Block) /\ Block' = Block
      BY <1>2, <3>1 DEF ReadBlock, Block
    <3>4. inputBuffer' = [i \in 0 .. 2 * N - 1 |->
            IF i < Len(Block) THEN Signed(Block[i + 1]) ELSE inputBuffer[i]]
      BY <1>2, <3>1 DEF ReadBlock
    <3>5. \A i \in 0 .. 2 * N - 1 : i < Len(Block) =>
            /\ Block[i + 1] \in Octet
            /\ inputBuffer'[i] = Signed(Block[i + 1])
      BY <3>2, <3>4
    <3>6. inputBuffer' \in [0 .. 2 * N - 1 -> Int]
      BY <3>4, <3>5, ValueOfOctet
    <3>7. CASE input.unsignedSamples
      <4>1. pc' = "convert"
        BY <1>2, <2>2, <3>7 DEF ReadBlock
      <4>. QED
        BY <3>1, <3>3, <3>5, <3>6, <3>7, <4>1 DEF Signed
    <3>8. CASE ~input.unsignedSamples
      <4>1. pc' = "average"
        BY <1>2, <2>2, <3>8 DEF ReadBlock
      <4>2. \A i \in 0 .. 2 * N - 1 : i < Len(Block) =>
              inputBuffer'[i] = Value(Block[i + 1])
        BY <3>5, <3>8, ValueOfOctet
      <4>. QED
        BY <3>1, <3>3, <3>6, <4>1, <4>2 DEF Value
    <3>. QED
      BY <3>7, <3>8
  <2>. QED
    BY <2>1, <2>2
<1>3. CASE ConvertUnsigned
  <2>1. /\ pc = "convert" /\ pc' = "average" /\ input' = input /\ j' = 0
        /\ count' = count /\ recorded' = recorded /\ ~recorded
        /\ input.blocks # << >> /\ input.unsignedSamples /\ Block' = Block
    BY <1>3 DEF ConvertUnsigned, Block
  <2>2. inputBuffer' = [i \in 0 .. 2 * N - 1 |->
          IF i < count THEN LessMiddle(inputBuffer[i]) ELSE inputBuffer[i]]
    BY <1>3 DEF ConvertUnsigned
  <2>3. Block \in Seq(Octet) /\ count = Len(Block)
    <3>1. input.blocks \in Seq(Seq(Octet)) /\ input.blocks # << >>
      BY <2>1, InputsAssumption
    <3>. QED
      BY <2>1, <3>1 DEF Block
  <2>4. ASSUME NEW i \in 0 .. 2 * N - 1, i < count
        PROVE  /\ inputBuffer'[i] = Value(Block[i + 1])
               /\ inputBuffer'[i] \in Int
    <3>1. Block[i + 1] \in Octet
      BY <2>3, <2>4
    <3>2. inputBuffer[i] = Signed(Block[i + 1])
      BY <2>1, <2>4
    <3>3. inputBuffer'[i] = LessMiddle(Signed(Block[i + 1]))
      BY <2>2, <2>4, <3>2
    <3>. QED
      BY <2>1, <3>1, <3>3, ValueOfOctet
  <2>5. inputBuffer' \in [0 .. 2 * N - 1 -> Int]
    BY <2>2, <2>4
  <2>. QED
    BY <2>1, <2>3, <2>4, <2>5 DEF Value
<1>4. CASE ComputeSpectralPower
  <2>1. /\ pc = "average" /\ pc' = pc /\ input' = input /\ j' = j + 1
        /\ count' = count /\ inputBuffer' = inputBuffer /\ recorded' = recorded
        /\ ~recorded /\ Block' = Block
    BY <1>4 DEF ComputeSpectralPower, Block
  <2>2. ASSUME NEW k \in Bins, 2 * k + 2 <= count
        PROVE  fftInput'[k] = <<Value(Block[2 * k + 1]), Value(Block[2 * k + 2])>>
    <3>0. N \in Nat /\ k \in 0 .. N - 1 /\ count \in Nat
      <4>1. input.blocks \in Seq(Seq(Octet)) /\ input.blocks # << >> /\ count = Len(Block)
        BY <2>1, InputsAssumption
      <4>. QED
        BY <4>1, NAssumption DEF Bins, Block
    <3>1. fftInput'[k] = <<inputBuffer[2 * k], inputBuffer[2 * k + 1]>>
      BY <1>4, <2>2, <3>0 DEF ComputeSpectralPower, FilledInput
    <3>2. /\ 2 * k \in 0 .. 2 * N - 1 /\ 2 * k < count
          /\ 2 * k + 1 \in 0 .. 2 * N - 1 /\ 2 * k + 1 < count
          /\ (2 * k + 1) + 1 = 2 * k + 2
      <4>1. 2 * k + 2 <= count
        BY <2>2
      <4>. QED
        BY <3>0, <4>1, SMTT(30)
    <3>3. inputBuffer[2 * k] = Value(Block[2 * k + 1])
      BY <2>1, <3>2
    <3>4. inputBuffer[2 * k + 1] = Value(Block[(2 * k + 1) + 1])
      BY <2>1, <3>2
    <3>. QED
      BY <3>1, <3>2, <3>3, <3>4
  <2>. QED
    BY <2>1, <2>2 DEF Value
<1>5. CASE WriteRecord
  BY <1>5 DEF WriteRecord, Block, Value
<1>6. CASE UNCHANGED vars
  BY <1>6 DEF vars, Block, Signed, Value
<1>. QED
  BY <1>1, <1>2, <1>3, <1>4, <1>5, <1>6 DEF Next

(* The FFT of every record has seen the samples in their order and at their *)
(* value.                                                                   *)
THEOREM FftSeesBlockHolds == Spec => []FftSeesBlock
<1>1. BlockInv => FftSeesBlock
  BY DEF BlockInv, InBuffer, FftSeesBlock, Block
<1>. QED
  BY <1>1, BlockStart, BlockNext, PTL DEF Spec

=============================================================================
