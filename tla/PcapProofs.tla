------------------------------ MODULE PcapProofs -------------------------------
(***************************************************************************)
(* The programs that pcap calls with one packet at a time.  The packet     *)
(* loggers (Capture) count, time and print what was captured, for every    *)
(* finite set of frames, every clock and any number of frames captured.    *)
(* The rate meter (SpeedMeter) has its theorems here too, for every        *)
(* interval, length of the queue and set of payloads: its windows are      *)
(* adjacent and exact, and its figure is that of a densest range.          *)
(***************************************************************************)
EXTENDS Capture, SpeedMeter, SumTheorems

WholeFrames == {f \in Frames : Whole(f)}
IPv4Frames == {f \in Frames : IPv4(f)}
Seen(S) == {f \in S : arrived[f] > 0}

Words == {SeqWord(f) : f \in Seen(WholeFrames)}

\* The words in mp are those of the frames captured.
WordsSeen == mp = Words

\* start is set by the first IPv4 packet.
StartedByFirst ==
  start = -1 => Times(IPv4Frames) = 0 /\ gaps.sum = 0 /\ gaps.lines = 0

\* The inductive invariant.
IInv == /\ TypeOK /\ WordsSeen /\ LossesAreRepeats /\ NoRetransmissionMissed
        /\ StartedByFirst /\ IntervalsAddUp /\ PortsAsSent
--------------------------------------------------------------------------------
(***************************************************************************)
(* The ports                                                                *)
(***************************************************************************)
\* A sum of eight numbers.
LEMMA SumOfEight ==
  ASSUME NEW w, \A i \in 0..7 : w[i] \in Int
  PROVE  SumFunctionOnSet(w, 0..7) = w[0] + w[1] + w[2] + w[3] + w[4] + w[5] + w[6] + w[7]
<1> DEFINE S(n) == SumFunctionOnSet(w, 0..n)
<1>1. ASSUME NEW n \in Nat, n < 7, NEW m, m = n + 1 PROVE S(n) \in Int /\ S(m) = S(n) + w[m]
  <2>1. PICK I, J : I = 0..n /\ J = 0..m
    OBVIOUS
  <2>2. IsFiniteSet(I) /\ IsFiniteSet(J)
    <3>1. m \in Int /\ n \in Int /\ 0 \in Int
      BY <1>1
    <3> QED
      BY ONLY <2>1, <3>1, FS_Interval
  <2>3. m \in J /\ J \ {m} = I
    BY ONLY n \in Nat, m = n + 1, <2>1
  <2>4. J \subseteq 0..7 /\ I \subseteq 0..7
    BY ONLY n \in Nat, n < 7, m = n + 1, <2>1
  <2>5. SumFunctionOnSet(w, I) \in Int
    BY <2>2, <2>4, SumStep
  <2>6. SumFunctionOnSet(w, J) = w[m] + SumFunctionOnSet(w, J \ {m})
    BY <2>2, <2>3, <2>4, SumStep
  <2>7. w[m] \in Int
    BY <2>3, <2>4
  <2>8. SumFunctionOnSet(w, J) = w[m] + SumFunctionOnSet(w, I)
    BY ONLY <2>3, <2>6, Zenon
  <2> QED
    BY <2>1, <2>5, <2>7, <2>8
<1>2. S(0) = w[0]
  <2>1. 0..0 = {0} /\ {0} \ {0} = {}
    OBVIOUS
  <2>2. IsFiniteSet({0}) /\ IsFiniteSet({})
    BY FS_Singleton, FS_EmptySet, Zenon
  <2>3. w[0] \in Int
    OBVIOUS
  <2>4. SumFunctionOnSet(w, {0}) = w[0] + SumFunctionOnSet(w, {0} \ {0})
    BY <2>2, <2>3, SumStep
  <2>5. SumFunctionOnSet(w, {}) = 0
    BY <2>2, SumStep
  <2> QED
    BY <2>1, <2>3, <2>4, <2>5
<1> HIDE DEF S
<1>3. /\ S(1) = S(0) + w[1] /\ S(2) = S(1) + w[2] /\ S(3) = S(2) + w[3] /\ S(4) = S(3) + w[4]
      /\ S(5) = S(4) + w[5] /\ S(6) = S(5) + w[6] /\ S(7) = S(6) + w[7]
  BY <1>1, 0+1 = 1, 1+1 = 2, 2+1 = 3, 3+1 = 4, 4+1 = 5, 5+1 = 6, 6+1 = 7
<1>4. S(7) = w[0] + w[1] + w[2] + w[3] + w[4] + w[5] + w[6] + w[7]
  BY <1>2, <1>3
<1> QED
  BY <1>4 DEF S

\* Eight bits added up with their weights are what is left of the number modulo 256.
LEMMA OctetLemma ==
  ASSUME NEW x \in Nat
  PROVE  Octet(x) = x % 256
<1>1. PICK w : w = [i \in 0..7 |-> Bit(x, i) * 2^i]
  OBVIOUS
<1>2. \A i \in 0..7 : w[i] = Bit(x, i) * 2^i
  BY <1>1
<1>3. w[0] = Bit(x, 0) * 1
  BY ONLY <1>2, 0 \in 0..7, 2^0 = 1, Zenon
<1>4. w[1] = Bit(x, 1) * 2
  BY ONLY <1>2, 1 \in 0..7, 2^1 = 2, Zenon
<1>5. w[2] = Bit(x, 2) * 4
  BY ONLY <1>2, 2 \in 0..7, 2^2 = 4, Zenon
<1>6. w[3] = Bit(x, 3) * 8
  BY ONLY <1>2, 3 \in 0..7, 2^3 = 8, Zenon
<1>7. w[4] = Bit(x, 4) * 16
  BY ONLY <1>2, 4 \in 0..7, 2^4 = 16, Zenon
<1>8. w[5] = Bit(x, 5) * 32
  BY ONLY <1>2, 5 \in 0..7, 2^5 = 32, Zenon
<1>9. w[6] = Bit(x, 6) * 64
  <2>1. PICK v : v = 2^6
    OBVIOUS
  <2>2. v = 64
    BY <2>1
  <2>3. w[6] = Bit(x, 6) * v
    BY ONLY <1>2, 6 \in 0..7, <2>1, Zenon
  <2> QED
    BY ONLY <2>2, <2>3
<1>10. w[7] = Bit(x, 7) * 128
  <2>1. PICK v : v = 2^7
    OBVIOUS
  <2>2. v = 128
    BY <2>1
  <2>3. w[7] = Bit(x, 7) * v
    BY ONLY <1>2, 7 \in 0..7, <2>1, Zenon
  <2> QED
    BY ONLY <2>2, <2>3
<1>11. \A i \in 0..7 : Bit(x, i) \in 0..1
  <2>1. \A y \in Int : y % 2 \in 0..1
    OBVIOUS
  <2>2. \A i \in 0..7 : i \in {0, 1, 2, 3, 4, 5, 6, 7}
    OBVIOUS
  <2>3. /\ x \div 2^0 \in Int /\ x \div 2^1 \in Int /\ x \div 2^2 \in Int /\ x \div 2^3 \in Int
        /\ x \div 2^4 \in Int /\ x \div 2^5 \in Int /\ x \div 2^6 \in Int /\ x \div 2^7 \in Int
    OBVIOUS
  <2>4. /\ Bit(x, 0) \in 0..1 /\ Bit(x, 1) \in 0..1 /\ Bit(x, 2) \in 0..1 /\ Bit(x, 3) \in 0..1
        /\ Bit(x, 4) \in 0..1 /\ Bit(x, 5) \in 0..1 /\ Bit(x, 6) \in 0..1 /\ Bit(x, 7) \in 0..1
    BY DEF Bit
  <2> QED
    BY ONLY <2>2, <2>4, Zenon
<1>12. x % 256 = Bit(x, 0) + 2 * Bit(x, 1) + 4 * Bit(x, 2) + 8 * Bit(x, 3) + 16 * Bit(x, 4)
                   + 32 * Bit(x, 5) + 64 * Bit(x, 6) + 128 * Bit(x, 7)
  <2>1. PICK q1 \in Int : q1 = x \div 2
    OBVIOUS
  <2>2. PICK q2 \in Int : q2 = x \div 4
    OBVIOUS
  <2>3. PICK q3 \in Int : q3 = x \div 8
    OBVIOUS
  <2>4. PICK q4 \in Int : q4 = x \div 16
    OBVIOUS
  <2>5. PICK q5 \in Int : q5 = x \div 32
    OBVIOUS
  <2>6. PICK q6 \in Int : q6 = x \div 64
    OBVIOUS
  <2>7. PICK q7 \in Int : q7 = x \div 128
    OBVIOUS
  <2>8. PICK q8 \in Int : q8 = x \div 256
    OBVIOUS
  <2>9. x = 2 * q1 + Bit(x, 0)
    <3>1. x \div 1 = x /\ x = 2 * (x \div 2) + (x % 2)
      OBVIOUS
    <3> QED
      BY ONLY <3>1, <2>1 DEF Bit
  <2>10. q1 = 2 * q2 + Bit(x, 1)
    <3>1. x \div 2 = 2 * (x \div 4) + ((x \div 2) % 2)
      OBVIOUS
    <3> QED
      BY ONLY <3>1, <2>1, <2>2 DEF Bit
  <2>11. q2 = 2 * q3 + Bit(x, 2)
    <3>1. x \div 4 = 2 * (x \div 8) + ((x \div 4) % 2)
      OBVIOUS
    <3> QED
      BY ONLY <3>1, <2>2, <2>3 DEF Bit
  <2>12. q3 = 2 * q4 + Bit(x, 3)
    <3>1. x \div 8 = 2 * (x \div 16) + ((x \div 8) % 2)
      OBVIOUS
    <3> QED
      BY ONLY <3>1, <2>3, <2>4 DEF Bit
  <2>13. q4 = 2 * q5 + Bit(x, 4)
    <3>1. x \div 16 = 2 * (x \div 32) + ((x \div 16) % 2)
      OBVIOUS
    <3> QED
      BY ONLY <3>1, <2>4, <2>5 DEF Bit
  <2>14. q5 = 2 * q6 + Bit(x, 5)
    <3>1. x \div 32 = 2 * (x \div 64) + ((x \div 32) % 2)
      OBVIOUS
    <3> QED
      BY ONLY <3>1, <2>5, <2>6 DEF Bit
  <2>15. q6 = 2 * q7 + Bit(x, 6)
    <3>1. x \div 64 = 2 * (x \div 128) + ((x \div 64) % 2)
      OBVIOUS
    <3> QED
      BY ONLY <3>1, <2>6, <2>7 DEF Bit
  <2>16. q7 = 2 * q8 + Bit(x, 7)
    <3>1. x \div 128 = 2 * (x \div 256) + ((x \div 128) % 2)
      OBVIOUS
    <3> QED
      BY ONLY <3>1, <2>7, <2>8 DEF Bit
  <2>17. PICK r \in Int : r = x % 256
    OBVIOUS
  <2>18. x = 256 * q8 + r
    <3>1. x = 256 * (x \div 256) + (x % 256)
      OBVIOUS
    <3> QED
      BY ONLY <3>1, <2>8, <2>17
  <2>19. /\ Bit(x, 0) \in Int /\ Bit(x, 1) \in Int /\ Bit(x, 2) \in Int /\ Bit(x, 3) \in Int
         /\ Bit(x, 4) \in Int /\ Bit(x, 5) \in Int /\ Bit(x, 6) \in Int /\ Bit(x, 7) \in Int
    BY <1>11
  <2>20. r = Bit(x, 0) + 2 * Bit(x, 1) + 4 * Bit(x, 2) + 8 * Bit(x, 3) + 16 * Bit(x, 4)
               + 32 * Bit(x, 5) + 64 * Bit(x, 6) + 128 * Bit(x, 7)
    BY ONLY q1 \in Int, q2 \in Int, q3 \in Int, q4 \in Int, q5 \in Int, q6 \in Int, q7 \in Int,
            q8 \in Int, r \in Int, x \in Nat, <2>9, <2>10, <2>11, <2>12, <2>13, <2>14, <2>15,
            <2>16, <2>18, <2>19
  <2> QED
    BY ONLY <2>17, <2>20
<1>13. /\ w[0] \in Int /\ w[1] \in Int /\ w[2] \in Int /\ w[3] \in Int
       /\ w[4] \in Int /\ w[5] \in Int /\ w[6] \in Int /\ w[7] \in Int
  BY <1>3, <1>4, <1>5, <1>6, <1>7, <1>8, <1>9, <1>10, <1>11
<1>14. \A i \in 0..7 : w[i] \in Int
  <2>1. \A i \in 0..7 : i \in {0, 1, 2, 3, 4, 5, 6, 7}
    OBVIOUS
  <2> QED
    BY ONLY <1>13, <2>1, Zenon
<1>15. SumFunctionOnSet(w, 0..7) = x % 256
  <2>1. SumFunctionOnSet(w, 0..7) = w[0] + w[1] + w[2] + w[3] + w[4] + w[5] + w[6] + w[7]
    BY ONLY <1>14, SumOfEight
  <2>2. /\ Bit(x, 0) \in Int /\ Bit(x, 1) \in Int /\ Bit(x, 2) \in Int /\ Bit(x, 3) \in Int
        /\ Bit(x, 4) \in Int /\ Bit(x, 5) \in Int /\ Bit(x, 6) \in Int /\ Bit(x, 7) \in Int
    BY <1>11
  <2> QED
    BY ONLY <1>3, <1>4, <1>5, <1>6, <1>7, <1>8, <1>9, <1>10, <1>12, <2>1, <2>2
<1> QED
  BY <1>1, <1>15, Zenon DEF Octet

\* big2small undoes the order of the network.
LEMMA PortLemma ==
  ASSUME NEW p \in Nat, p < 65536
  PROVE  Big2small(NetworkOrder(p)) = p
<1>1. PICK a \in Nat : a = p % 256
  <2>1. p % 256 \in Nat
    OBVIOUS
  <2> QED
    BY ONLY <2>1, Zenon
<1>2. PICK b \in Nat : b = p \div 256
  <2>1. p \div 256 \in Nat
    OBVIOUS
  <2> QED
    BY ONLY <2>1, Zenon
<1>3. a < 256 /\ p = a + 256 * b
  BY <1>1, <1>2
<1>4. b < 256
  BY <1>3
<1>5. a * 256 + b \in Nat
  OBVIOUS
<1>6. PICK y \in Nat : y = a * 256 + b
  BY ONLY <1>5
<1>7. NetworkOrder(p) = y
  BY ONLY <1>1, <1>2, <1>6 DEF NetworkOrder
<1>8. y \div 256 = a
  BY <1>4, <1>6
<1>9. y % 256 = b
  BY <1>4, <1>6
<1>10. a % 256 = a
  BY <1>3
<1>11. Octet(y) = b
  BY <1>9, OctetLemma
<1>12. Octet(a) = a
  BY <1>10, OctetLemma
<1>13. Big2small(y) = a + 256 * b
  BY <1>8, <1>11, <1>12 DEF Big2small
<1>14. Big2small(y) = p
  BY <1>3, <1>13
<1> QED
  BY ONLY <1>7, <1>14
--------------------------------------------------------------------------------
(***************************************************************************)
(* Frames                                                                   *)
(***************************************************************************)
LEMMA FrameFacts ==
  ASSUME NEW f \in Frames
  PROVE  /\ f.len \in Nat /\ f.len < Word /\ Word \in Nat /\ f.type \in Nat
         /\ f.caplen = IF f.len < BUFSIZ THEN f.len ELSE BUFSIZ
         /\ f.seq \in Nat /\ f.option \in Nat /\ f.hlen \in Nat
         /\ f.sport \in Nat /\ f.sport < 65536 /\ f.dport \in Nat /\ f.dport < 65536
<1>1. f \in FrameFields
  BY CaptureAssumption
<1>2. /\ f.type \in UShort /\ f.sport \in UShort /\ f.dport \in UShort /\ f.hlen \in 0..15
      /\ f.len \in Nat /\ f.seq \in Nat /\ f.option \in Nat
  BY ONLY <1>1 DEF FrameFields
<1>3. \A x \in UShort : x \in Nat /\ x < 65536
  BY DEF UShort
<1>4. \A x \in 0..15 : x \in Nat
  OBVIOUS
<1> QED
  BY ONLY <1>2, <1>3, <1>4, CaptureAssumption, f \in Frames

LEMMA Remainder ==
  ASSUME NEW n \in Nat, NEW w \in Nat, n < w
  PROVE  n % w = n
OBVIOUS

\* The frames the programs read the headers of are those that hold them.
LEMMA ReadLemma ==
  ASSUME NEW f \in Frames
  PROVE  HeadersRead(f) <=> Whole(f)
<1>1. /\ f.len \in Nat /\ f.len < Word /\ Word \in Nat
      /\ f.caplen = IF f.len < BUFSIZ THEN f.len ELSE BUFSIZ
  BY FrameFacts
<1>2. HandleEthernet(f) = ETHERTYPE_IP <=> f.type = ETHERTYPE_IP /\ f.caplen >= ETHER_HDRLEN
  <2>1. (-1) % 65536 # ETHERTYPE_IP
    BY DEF ETHERTYPE_IP
  <2>2. f.caplen \in Nat
    BY <1>1 DEF BUFSIZ
  <2> QED
    BY <2>1, <2>2 DEF HandleEthernet, ETHER_HDRLEN
<1>3. ASSUME f.caplen >= ETHER_HDRLEN PROVE (f.len - ETHER_HDRLEN) % Word = f.len - ETHER_HDRLEN
  <2>1. f.len - ETHER_HDRLEN \in Nat /\ f.len - ETHER_HDRLEN < Word
    BY <1>1, <1>3 DEF ETHER_HDRLEN, BUFSIZ
  <2> QED
    BY ONLY <1>1, <2>1, Remainder
<1>4. f.caplen >= ETHER_HDRLEN /\ f.len - ETHER_HDRLEN >= MY_IP <=> f.caplen >= ETHER_HDRLEN + MY_IP
  BY <1>1 DEF ETHER_HDRLEN, MY_IP, BUFSIZ
<1> QED
  BY <1>2, <1>3, <1>4 DEF HeadersRead, LongEnough, Whole

LEMMA SeqWordType ==
  ASSUME NEW f \in Frames
  PROVE  SeqWord(f) \in Nat
<1>1. f.seq \in Nat /\ f.option \in Nat /\ f.sport \in Nat /\ f.dport \in Nat
  BY FrameFacts
<1> QED
  BY <1>1 DEF SeqWord

\* Times adds up the frames of a set, and a frame captured adds one.
LEMMA TimesLemma ==
  ASSUME TypeOK, NEW S \in SUBSET Frames
  PROVE  /\ IsFiniteSet(S) /\ Times(S) \in Nat
         /\ \A f \in S : arrived[f] \in Nat /\ arrived[f] <= Times(S)
         /\ (\A f \in S : arrived[f] = 0) => Times(S) = 0
<1>1. IsFiniteSet(S)
  BY CaptureAssumption, FS_Subset
<1>2. \A f \in S : arrived[f] \in Nat
  BY CaptureAssumption DEF TypeOK
<1> QED
  BY <1>1, <1>2, SumOfNat, SumZero DEF Times

LEMMA TimesStep ==
  ASSUME TypeOK, NEW f \in Frames, arrived' = [arrived EXCEPT ![f] = @ + 1],
         NEW S \in SUBSET Frames
  PROVE  Times(S)' = IF f \in S THEN Times(S) + 1 ELSE Times(S)
<1>1. IsFiniteSet(S)
  BY TimesLemma
<1>2. arrived \in [Frames -> Nat]
  BY CaptureAssumption DEF TypeOK
<1>3. /\ \A g \in S : arrived[g] \in Int /\ arrived'[g] \in Int
      /\ arrived'[f] = arrived[f] + 1
      /\ \A g \in Frames \ {f} : arrived'[g] = arrived[g]
  BY <1>2
<1>4. Times(S)' = SumFunctionOnSet(arrived', S) /\ Times(S) = SumFunctionOnSet(arrived, S)
  BY DEF Times
<1>5. CASE f \in S
  <2>0. /\ \A g \in S : arrived[g] \in Int
        /\ \A g \in S : arrived'[g] \in Int
        /\ \A g \in S \ {f} : arrived'[g] = arrived[g]
    BY <1>3
  <2>1. SumFunctionOnSet(arrived', S) = SumFunctionOnSet(arrived, S) - arrived[f] + arrived'[f]
    <3>1. PICK b : b = arrived'
      OBVIOUS
    <3>2. (\A g \in S : b[g] \in Int) /\ (\A g \in S \ {f} : b[g] = arrived[g])
      BY ONLY <2>0, <3>1
    <3>3. SumFunctionOnSet(b, S) = SumFunctionOnSet(arrived, S) - arrived[f] + b[f]
      BY ONLY <1>1, <1>5, <2>0, <3>2, SumExcept
    <3> QED
      BY ONLY <3>1, <3>3
  <2>2. SumFunctionOnSet(arrived, S) \in Int /\ arrived[f] \in Int
    BY <1>1, <1>2, <1>3, SumStep
  <2> QED
    BY <1>3, <1>4, <1>5, <2>1, <2>2
<1>6. CASE f \notin S
  <2>1. \A g \in S : arrived[g] = arrived'[g]
    BY <1>3, <1>6
  <2>2. SumFunctionOnSet(arrived, S) = SumFunctionOnSet(arrived', S)
    BY <1>1, <1>3, <2>1, SumEqual
  <2> QED
    BY <1>4, <1>6, <2>2
<1> QED
  BY <1>5, <1>6

\* The frames of a set seen are joined by the one captured.
LEMMA SeenStep ==
  ASSUME TypeOK, NEW f \in Frames, arrived' = [arrived EXCEPT ![f] = @ + 1],
         NEW S \in SUBSET Frames
  PROVE  Seen(S)' = IF f \in S THEN Seen(S) \cup {f} ELSE Seen(S)
<1>1. /\ arrived \in [Frames -> Nat]
  BY CaptureAssumption DEF TypeOK
<1>2. /\ arrived'[f] > 0
      /\ \A g \in Frames \ {f} : arrived'[g] = arrived[g]
  BY <1>1
<1>3. Seen(S)' = {g \in S : arrived'[g] > 0} /\ Seen(S) = {g \in S : arrived[g] > 0}
  BY DEF Seen
<1> QED
  BY <1>2, <1>3
--------------------------------------------------------------------------------
(***************************************************************************)
(* A frame is captured                                                      *)
(***************************************************************************)
\* What the three callbacks do with a frame that holds an IP header, and that they
\* leave alone any other.
LEMMA CapturedDoes ==
  ASSUME NEW f \in Frames, Captured(f)
  PROVE  /\ Times(Frames) < MaxFrames
         /\ arrived' = [arrived EXCEPT ![f] = @ + 1] /\ now' = now
         /\ Whole(f) => CountSeq(f) /\ PrintTuple(f)
         /\ ~Whole(f) => UNCHANGED <<retransVars, tupleVars>>
         /\ IPv4(f) => PrintInterval
         /\ ~IPv4(f) => UNCHANGED intervalVars
<1>1. HeadersRead(f) <=> Whole(f)
  BY ReadLemma
<1> QED
  BY <1>1 DEF Captured, RetransCallback, TupleCallback, IntervalCallback, IPv4

LEMMA TypeStep ==
  ASSUME IInv, NEW f \in Frames, Captured(f)
  PROVE  TypeOK'
<1>1. TypeOK
  BY DEF IInv
<1>2. (mp \subseteq Nat /\ tot_packet1 \in Nat /\ loss_packet \in Nat)'
  <2>1. SeqWord(f) \in Nat
    BY SeqWordType
  <2>2. CASE Whole(f)
    <3>1. CountSeq(f)
      BY <2>2, CapturedDoes
    <3>2. mp \subseteq Nat /\ tot_packet1 \in Nat /\ loss_packet \in Nat
      BY <1>1 DEF TypeOK
    <3> QED
      <4>1. CASE SeqWord(f) \notin mp
        <5>1. mp' = mp \cup {SeqWord(f)} /\ tot_packet1' = tot_packet1 + 1 /\ loss_packet' = loss_packet
          BY <3>1, <4>1 DEF CountSeq
        <5> QED
          <6>1. mp' \subseteq Nat
            BY ONLY <2>1, <3>2, <5>1, Zenon
          <6>2. tot_packet1' \in Nat /\ loss_packet' \in Nat
            BY ONLY <3>2, <5>1
          <6> QED
            BY ONLY <6>1, <6>2
      <4>2. CASE SeqWord(f) \in mp
        <5>1. mp' = mp /\ tot_packet1' = tot_packet1 /\ loss_packet' = loss_packet + 1
          BY <3>1, <4>2 DEF CountSeq
        <5> QED
          BY ONLY <3>2, <5>1
      <4> QED
        BY <4>1, <4>2
  <2>3. CASE ~Whole(f)
    BY <1>1, <2>3, CapturedDoes DEF TypeOK, retransVars
  <2> QED
    BY <2>2, <2>3
<1>3. (start \in Clock \cup {-1} /\ now \in Clock /\ gaps \in [first : Clock, sum : Int, lines : Nat])'
  <2>1. Clock \subseteq Nat /\ now \in Clock /\ now' = now
    BY <1>1, CaptureAssumption, CapturedDoes DEF TypeOK
  <2>2. CASE IPv4(f)
    <3>1. PrintInterval
      BY <2>2, CapturedDoes
    <3>2. /\ start \in Clock \cup {-1} /\ gaps \in [first : Clock, sum : Int, lines : Nat]
          /\ start \in Int
      BY <1>1, <2>1 DEF TypeOK
    <3>3. /\ gaps.first \in Clock /\ gaps.sum \in Int /\ gaps.lines \in Nat
          /\ now \in Int
      BY <2>1, <3>2
    <3>4. now - start \in Int
      BY <3>2, <3>3
    <3>5. CASE start = -1
      BY <2>1, <3>1, <3>2, <3>3, <3>5 DEF PrintInterval
    <3>6. CASE start # -1
      <4>1. start' = now /\ gaps' = [gaps EXCEPT !.sum = @ + (now - start), !.lines = @ + 1]
        BY <3>1, <3>6 DEF PrintInterval
      <4>2. gaps.sum + (now - start) \in Int /\ gaps.lines + 1 \in Nat
        BY <3>3, <3>4
      <4>3. gaps' = [first |-> gaps.first, sum |-> gaps.sum + (now - start), lines |-> gaps.lines + 1]
        BY ONLY <3>2, <4>1
      <4>4. gaps' \in [first : Clock, sum : Int, lines : Nat]
        BY ONLY <3>3, <4>2, <4>3
      <4> QED
        BY <2>1, <4>1, <4>4
    <3> QED
      BY <3>5, <3>6
  <2>3. CASE ~IPv4(f)
    BY <1>1, <2>1, <2>3, CapturedDoes DEF TypeOK, intervalVars
  <2> QED
    BY <2>2, <2>3
<1>4. (\/ printed = << >> /\ last = << >>
       \/ printed \in UShort \X UShort /\ last \in Frames)'
  <2>1. CASE Whole(f)
    <3>1. printed' \in UShort \X UShort
      <4>1. f.sport \in UShort /\ f.dport \in UShort /\ 0 \in UShort
        <5>1. f \in FrameFields
          BY CaptureAssumption
        <5>2. f.sport \in UShort /\ f.dport \in UShort
          BY ONLY <5>1 DEF FrameFields
        <5>3. 0 \in UShort
          BY DEF UShort
        <5> QED
          BY ONLY <5>2, <5>3
      <4>2. Big2small(NetworkOrder(f.sport)) = f.sport /\ Big2small(NetworkOrder(f.dport)) = f.dport
        BY FrameFacts, PortLemma
      <4>3. printed' = IF f.hlen = 5 THEN <<f.sport, f.dport>> ELSE <<0, 0>>
        BY <2>1, <4>2, CapturedDoes DEF PrintTuple
      <4> QED
        BY ONLY <4>1, <4>3
    <3> QED
      BY <2>1, <3>1, CapturedDoes DEF PrintTuple
  <2>2. CASE ~Whole(f)
    BY <1>1, <2>2, CapturedDoes DEF TypeOK, tupleVars
  <2> QED
    BY <2>1, <2>2
<1>5. (arrived \in [Frames -> 0..MaxFrames])'
  <2>1. Frames \in SUBSET Frames
    OBVIOUS
  <2>2. arrived[f] \in Nat /\ arrived[f] <= Times(Frames) /\ Times(Frames) \in Nat
    BY <1>1, <2>1, TimesLemma
  <2>3. arrived[f] + 1 \in 0..MaxFrames
    BY <2>2, CapturedDoes, CaptureAssumption
  <2> QED
    BY <1>1, <2>3, CapturedDoes DEF TypeOK
<1> QED
  BY <1>2, <1>3, <1>4, <1>5 DEF TypeOK

LEMMA WordsStep ==
  ASSUME IInv, NEW f \in Frames, Captured(f)
  PROVE  WordsSeen' /\ LossesAreRepeats'
<1>1. TypeOK /\ arrived' = [arrived EXCEPT ![f] = @ + 1] /\ WholeFrames \in SUBSET Frames
  BY CapturedDoes DEF IInv, WholeFrames
<1>2. f \in WholeFrames <=> Whole(f)
  BY DEF WholeFrames
<1>3. /\ Seen(WholeFrames)' = IF f \in WholeFrames THEN Seen(WholeFrames) \cup {f} ELSE Seen(WholeFrames)
      /\ Times(WholeFrames)' = IF f \in WholeFrames THEN Times(WholeFrames) + 1 ELSE Times(WholeFrames)
      /\ Times(WholeFrames) \in Nat
  BY <1>1, SeenStep, TimesStep, TimesLemma
<1>4. WordsSeen'
  <2>1. CASE Whole(f)
    <3>1. mp' = mp \cup {SeqWord(f)}
      BY <2>1, CapturedDoes DEF CountSeq
    <3> QED
      BY <1>2, <1>3, <2>1, <3>1 DEF IInv, WordsSeen, Words
  <2>2. CASE ~Whole(f)
    BY <1>2, <1>3, <2>2, CapturedDoes DEF IInv, WordsSeen, Words, retransVars
  <2> QED
    BY <2>1, <2>2
<1>5. /\ LossesAreRepeats <=> (/\ loss_packet + tot_packet1 = Times(WholeFrames)
                               /\ tot_packet1 = Cardinality({SeqWord(g) : g \in Seen(WholeFrames)}))
      /\ LossesAreRepeats' <=> (/\ loss_packet' + tot_packet1' = Times(WholeFrames)'
                                /\ tot_packet1' = Cardinality({SeqWord(g) : g \in Seen(WholeFrames)'}))
  <2>1. /\ {g \in Frames : Whole(g) /\ arrived[g] > 0} = Seen(WholeFrames)
        /\ {g \in Frames : Whole(g) /\ arrived'[g] > 0} = Seen(WholeFrames)'
    BY DEF Seen, WholeFrames
  <2> QED
    BY <2>1, Zenon DEF LossesAreRepeats, WholeFrames
<1>6. loss_packet' + tot_packet1' = Times(WholeFrames)' /\ tot_packet1' = Cardinality(mp')
  <2>1. /\ loss_packet + tot_packet1 = Times(WholeFrames) /\ tot_packet1 = Cardinality(mp)
        /\ loss_packet \in Nat /\ tot_packet1 \in Nat
    BY <1>5 DEF IInv, WordsSeen, Words, TypeOK
  <2>2. IsFiniteSet(mp)
    <3>1. IsFiniteSet(Seen(WholeFrames))
      BY <1>1, CaptureAssumption, FS_Subset DEF Seen
    <3> QED
      <4>1. PICK s : s = [g \in Seen(WholeFrames) |-> SeqWord(g)]
        OBVIOUS
      <4>2. \A g \in Seen(WholeFrames) : s[g] = SeqWord(g)
        BY <4>1
      <4>3. s \in [Seen(WholeFrames) -> mp] /\ \A w \in mp : \E g \in Seen(WholeFrames) : s[g] = w
        BY <4>1, <4>2 DEF IInv, WordsSeen, Words
      <4> QED
        BY <3>1, <4>3, FS_Surjection DEF Surjection
  <2>3. SeqWord(f) \notin mp => Cardinality(mp \cup {SeqWord(f)}) = Cardinality(mp) + 1
    BY <2>2, FS_AddElement
  <2>4. CASE Whole(f)
    BY <1>2, <1>3, <2>1, <2>3, <2>4, CapturedDoes DEF CountSeq
  <2>5. CASE ~Whole(f)
    BY <1>2, <1>3, <2>1, <2>5, CapturedDoes DEF retransVars
  <2> QED
    BY <2>4, <2>5
<1> QED
  BY <1>4, <1>5, <1>6 DEF WordsSeen, Words

LEMMA IntervalStep ==
  ASSUME IInv, NEW f \in Frames, Captured(f)
  PROVE  StartedByFirst' /\ IntervalsAddUp'
<1>1. TypeOK /\ arrived' = [arrived EXCEPT ![f] = @ + 1] /\ IPv4Frames \in SUBSET Frames
  BY CapturedDoes DEF IInv, IPv4Frames
<1>2. /\ Times(IPv4Frames)' = IF IPv4(f) THEN Times(IPv4Frames) + 1 ELSE Times(IPv4Frames)
      /\ Times(IPv4Frames) \in Nat
  BY <1>1, TimesStep, TimesLemma DEF IPv4Frames
<1>3. /\ IntervalsAddUp <=> (start # -1 => /\ gaps.sum = start - gaps.first
                                          /\ gaps.lines = Times(IPv4Frames) - 1)
      /\ IntervalsAddUp' <=> (start' # -1 => /\ gaps'.sum = start' - gaps'.first
                                            /\ gaps'.lines = Times(IPv4Frames)' - 1)
  BY DEF IntervalsAddUp, IPv4Frames
<1>4. /\ start = -1 => Times(IPv4Frames) = 0 /\ gaps.sum = 0 /\ gaps.lines = 0
      /\ start # -1 => gaps.sum = start - gaps.first /\ gaps.lines = Times(IPv4Frames) - 1
  BY <1>3 DEF IInv, StartedByFirst
<1>5. /\ now \in Nat /\ start \in Int
      /\ gaps \in [first : Clock, sum : Int, lines : Nat] /\ gaps.first \in Int
  <2>1. /\ now \in Clock /\ start \in Clock \cup {-1}
        /\ gaps \in [first : Clock, sum : Int, lines : Nat]
    BY <1>1 DEF TypeOK
  <2>2. Clock \subseteq Nat
    BY CaptureAssumption
  <2>3. gaps.first \in Clock /\ now \in Clock
    BY ONLY <2>1
  <2>4. gaps.first \in Nat /\ now \in Nat
    BY ONLY <2>2, <2>3, Zenon
  <2>6. gaps.first \in Int
    BY ONLY <2>4
  <2>5. start \in Int
    BY ONLY <2>1, <2>2
  <2> QED
    BY ONLY <2>1, <2>4, <2>5, <2>6
<1>6. CASE IPv4(f)
  <2>1. CASE start = -1
    <3>1. start' = now /\ gaps' = [gaps EXCEPT !.first = now]
      BY <1>6, <2>1, CapturedDoes DEF PrintInterval
    <3>2. gaps'.first = now /\ gaps'.sum = 0 /\ gaps'.lines = 0
      BY <1>4, <1>5, <2>1, <3>1
    <3> QED
      BY <1>2, <1>3, <1>4, <1>5, <1>6, <2>1, <3>1, <3>2 DEF StartedByFirst
  <2>2. CASE start # -1
    <3>1. start' = now /\ gaps' = [gaps EXCEPT !.sum = @ + (now - start), !.lines = @ + 1]
      BY <1>6, <2>2, CapturedDoes DEF PrintInterval
    <3>2. /\ gaps'.first = gaps.first /\ gaps'.sum = gaps.sum + (now - start)
          /\ gaps'.lines = gaps.lines + 1
      BY <1>5, <3>1
    <3> QED
      BY <1>2, <1>3, <1>4, <1>5, <1>6, <2>2, <3>1, <3>2 DEF StartedByFirst
  <2> QED
    BY <2>1, <2>2
<1>7. CASE ~IPv4(f)
  <2>1. start' = start /\ gaps' = gaps
    BY <1>7, CapturedDoes DEF intervalVars
  <2> QED
    BY <1>2, <1>3, <1>4, <1>7, <2>1 DEF StartedByFirst
<1> QED
  BY <1>6, <1>7

LEMMA PortsStep ==
  ASSUME IInv, NEW f \in Frames, Captured(f)
  PROVE  PortsAsSent'
<1>1. CASE Whole(f)
  <2>1. Big2small(NetworkOrder(f.sport)) = f.sport /\ Big2small(NetworkOrder(f.dport)) = f.dport
    BY FrameFacts, PortLemma
  <2>2. printed' = (IF f.hlen = 5 THEN <<f.sport, f.dport>> ELSE <<0, 0>>) /\ last' = f
    BY <1>1, <2>1, CapturedDoes DEF PrintTuple
  <2> QED
    BY ONLY <2>2 DEF PortsAsSent
<1>2. CASE ~Whole(f)
  BY <1>2, CapturedDoes DEF IInv, PortsAsSent, tupleVars
<1> QED
  BY <1>1, <1>2

\* NoRetransmissionMissed in terms of the segments captured, and of how often each
\* was captured again.
Segments == {Segment(f) : f \in Seen(IPv4Frames)}
Carrying(s) == {f \in IPv4Frames : Segment(f) = s}
Again == [s \in Segments |-> Times(Carrying(s)) - 1]

LEMMA MissedLemma ==
  /\ NoRetransmissionMissed <=> loss_packet >= SumFunctionOnSet(Again, Segments)
  /\ NoRetransmissionMissed' <=> loss_packet' >= SumFunctionOnSet(Again', Segments')
<1>1. /\ {g \in Frames : IPv4(g) /\ arrived[g] > 0} = Seen(IPv4Frames)
      /\ {g \in Frames : IPv4(g) /\ arrived'[g] > 0} = Seen(IPv4Frames)'
  BY DEF Seen, IPv4Frames
<1>2. \A s : {f \in Frames : IPv4(f) /\ Segment(f) = s} = Carrying(s)
  BY DEF Carrying, IPv4Frames
<1>3. NoRetransmissionMissed <=> loss_packet >= SumFunctionOnSet(Again, Segments)
  BY <1>1, <1>2, Zenon DEF NoRetransmissionMissed, Again, Segments
<1>4. NoRetransmissionMissed' <=> loss_packet' >= SumFunctionOnSet(Again', Segments')
  BY <1>1, <1>2, Zenon DEF NoRetransmissionMissed, Again, Segments
<1> QED
  BY <1>3, <1>4

\* A segment seen before has its word in mp.
LEMMA AgainCounted ==
  ASSUME IInv, NEW f \in Frames, IPv4(f), Segment(f) \in Segments
  PROVE  SeqWord(f) \in mp
<1>1. PICK g \in Seen(IPv4Frames) : Segment(g) = Segment(f)
  BY DEF Segments
<1>2. g \in Seen(WholeFrames)
  BY DEF Seen, IPv4Frames, WholeFrames, IPv4
<1>3. SeqWord(g) = SeqWord(f)
  <2>1. /\ g.sport = f.sport /\ g.dport = f.dport /\ g.seq = f.seq /\ g.hlen = f.hlen
        /\ g.option = f.option
    BY <1>1 DEF Segment
  <2> QED
    BY <2>1 DEF SeqWord
<1>4. SeqWord(g) \in Words
  BY <1>2 DEF Words
<1> QED
  BY <1>3, <1>4 DEF IInv, WordsSeen

LEMMA MissedStep ==
  ASSUME IInv, NEW f \in Frames, Captured(f)
  PROVE  NoRetransmissionMissed'
<1>1. /\ TypeOK /\ arrived' = [arrived EXCEPT ![f] = @ + 1] /\ IPv4Frames \in SUBSET Frames
      /\ f \in IPv4Frames <=> IPv4(f)
  BY CapturedDoes DEF IInv, IPv4Frames
<1>2. \A s : Carrying(s) \in SUBSET Frames /\ (f \in Carrying(s) <=> IPv4(f) /\ Segment(f) = s)
  BY <1>1 DEF Carrying
<1>3. \A s : /\ Times(Carrying(s)) \in Nat
             /\ Times(Carrying(s))' = IF f \in Carrying(s) THEN Times(Carrying(s)) + 1
                                      ELSE Times(Carrying(s))
  BY <1>1, <1>2, TimesLemma, TimesStep
<1>4. Seen(IPv4Frames)' = IF f \in IPv4Frames THEN Seen(IPv4Frames) \cup {f} ELSE Seen(IPv4Frames)
  BY <1>1, SeenStep
<1>5. Segments' = IF IPv4(f) THEN Segments \cup {Segment(f)} ELSE Segments
  BY <1>1, <1>4 DEF Segments
<1>6. IsFiniteSet(Segments)
  <2>1. IsFiniteSet(Seen(IPv4Frames))
    BY <1>1, CaptureAssumption, FS_Subset DEF Seen
  <2>2. PICK s : s = [g \in Seen(IPv4Frames) |-> Segment(g)]
    OBVIOUS
  <2>3. \A g \in Seen(IPv4Frames) : s[g] = Segment(g)
    BY <2>2
  <2>4. /\ s \in [Seen(IPv4Frames) -> Segments]
        /\ \A w \in Segments : \E g \in Seen(IPv4Frames) : s[g] = w
    BY <2>2, <2>3 DEF Segments
  <2> QED
    BY <2>1, <2>4, FS_Surjection DEF Surjection
<1>7. PICK a, b : a = Again /\ b = Again'
  OBVIOUS
<1>8. /\ \A s \in Segments : a[s] = Times(Carrying(s)) - 1
      /\ \A s \in Segments' : b[s] = Times(Carrying(s))' - 1
  BY <1>7 DEF Again
<1>9. (\A s \in Segments : a[s] \in Int) /\ (\A s \in Segments' : b[s] \in Int)
  BY <1>3, <1>8
<1>10. /\ loss_packet >= SumFunctionOnSet(a, Segments) /\ loss_packet \in Nat
       /\ NoRetransmissionMissed' <=> loss_packet' >= SumFunctionOnSet(b, Segments')
  BY <1>1, <1>7, MissedLemma DEF IInv, TypeOK
<1>11. /\ SumFunctionOnSet(a, Segments) \in Int
  BY <1>6, <1>9, SumStep
<1>12. loss_packet' = loss_packet \/ loss_packet' = loss_packet + 1
  BY CapturedDoes DEF CountSeq, retransVars
<1>13. CASE ~IPv4(f)
  <2>1. \A s \in Segments : a[s] = b[s]
    BY <1>2, <1>3, <1>5, <1>8, <1>13
  <2>2. SumFunctionOnSet(a, Segments) = SumFunctionOnSet(b, Segments)
    BY <1>6, <1>9, <2>1, SumEqual
  <2> QED
    BY <1>5, <1>10, <1>11, <1>12, <1>13, <2>2
<1>14. CASE IPv4(f) /\ Segment(f) \in Segments
  <2>1. loss_packet' = loss_packet + 1
    <3>1. SeqWord(f) \in mp /\ Whole(f)
      BY <1>14, AgainCounted DEF IPv4
    <3> QED
      BY <3>1, CapturedDoes DEF CountSeq
  <2>2. Segments' = Segments
    BY <1>5, <1>14
  <2>3. /\ \A s \in Segments \ {Segment(f)} : b[s] = a[s]
        /\ b[Segment(f)] = a[Segment(f)] + 1 /\ a[Segment(f)] \in Int
    BY <1>2, <1>3, <1>8, <1>14, <2>2
  <2>4. SumFunctionOnSet(b, Segments)
          = SumFunctionOnSet(a, Segments) - a[Segment(f)] + b[Segment(f)]
    BY <1>6, <1>9, <1>14, <2>2, <2>3, SumExcept
  <2> QED
    BY <1>10, <1>11, <2>1, <2>2, <2>3, <2>4
<1>15. CASE IPv4(f) /\ Segment(f) \notin Segments
  <2>1. Times(Carrying(Segment(f))) = 0
    <3>1. \A g \in Carrying(Segment(f)) : arrived[g] = 0
      <4>1. \A g \in Carrying(Segment(f)) : g \in IPv4Frames /\ Segment(g) = Segment(f)
        BY DEF Carrying
      <4>2. \A g \in Carrying(Segment(f)) : g \notin Seen(IPv4Frames)
        BY <1>15, <4>1 DEF Segments
      <4>3. \A g \in IPv4Frames : arrived[g] \in Nat
        BY <1>1, CaptureAssumption DEF TypeOK
      <4> QED
        BY <4>1, <4>2, <4>3 DEF Seen
    <3> QED
      BY <1>1, <1>2, <3>1, TimesLemma
  <2>2. Segments' = Segments \cup {Segment(f)} /\ IsFiniteSet(Segments')
    BY <1>5, <1>6, <1>15, FS_AddElement
  <2>3. b[Segment(f)] = 0 /\ \A s \in Segments : a[s] = b[s]
    BY <1>2, <1>3, <1>8, <1>15, <2>1, <2>2
  <2>4. SumFunctionOnSet(b, Segments') = b[Segment(f)] + SumFunctionOnSet(b, Segments' \ {Segment(f)})
    BY <1>9, <2>2, SumStep
  <2>5. Segments' \ {Segment(f)} = Segments
    BY <1>15, <2>2
  <2>6. SumFunctionOnSet(a, Segments) = SumFunctionOnSet(b, Segments)
    BY <1>6, <1>9, <2>3, SumEqual
  <2> QED
    BY <1>10, <1>11, <1>12, <2>3, <2>4, <2>5, <2>6
<1> QED
  BY <1>13, <1>14, <1>15
--------------------------------------------------------------------------------
(***************************************************************************)
(* The theorems                                                             *)
(***************************************************************************)
LEMMA InitInv ==
  Init => IInv
<1> SUFFICES ASSUME Init PROVE IInv
  OBVIOUS
<1>1. /\ mp = {} /\ tot_packet1 = 0 /\ loss_packet = 0
      /\ start = -1 /\ gaps = [first |-> 0, sum |-> 0, lines |-> 0]
      /\ printed = << >> /\ last = << >> /\ now = 0 /\ arrived = [f \in Frames |-> 0]
  BY DEF Init, RetransInit, IntervalInit, TupleInit
<1>2. TypeOK
  <2>1. gaps \in [first : Clock, sum : Int, lines : Nat]
    BY <1>1, CaptureAssumption
  <2>2. arrived \in [Frames -> 0..MaxFrames]
    BY <1>1, CaptureAssumption
  <2> QED
    BY <1>1, <2>1, <2>2, CaptureAssumption DEF TypeOK
<1>3. \A S \in SUBSET Frames : Seen(S) = {} /\ Times(S) = 0
  <2>1. \A f \in Frames : arrived[f] = 0
    BY <1>1
  <2> QED
    BY <1>2, <2>1, TimesLemma DEF Seen
<1>4. WholeFrames \in SUBSET Frames /\ IPv4Frames \in SUBSET Frames
  BY DEF WholeFrames, IPv4Frames
<1>5. WordsSeen
  BY <1>1, <1>3, <1>4 DEF WordsSeen, Words
<1>6. LossesAreRepeats
  <2>1. {g \in Frames : Whole(g) /\ arrived[g] > 0} = {}
    BY <1>3, <1>4 DEF Seen, WholeFrames
  <2>2. {SeqWord(f) : f \in {g \in Frames : Whole(g) /\ arrived[g] > 0}} = {}
    BY <2>1
  <2>3. Cardinality({SeqWord(f) : f \in {g \in Frames : Whole(g) /\ arrived[g] > 0}}) = 0
    BY <2>2, FS_EmptySet
  <2>4. loss_packet + tot_packet1 = 0
    BY <1>1
  <2>5. Times({f \in Frames : Whole(f)}) = 0
    BY <1>3, <1>4 DEF WholeFrames
  <2> QED
    BY ONLY <1>1, <2>3, <2>4, <2>5, Zenon DEF LossesAreRepeats
<1>7. NoRetransmissionMissed
  <2>1. Segments = {}
    BY <1>3, <1>4 DEF Segments
  <2>2. SumFunctionOnSet(Again, {}) = 0
    BY FS_EmptySet, SumZero
  <2> QED
    BY <1>1, <2>1, <2>2, MissedLemma
<1>8. StartedByFirst /\ IntervalsAddUp /\ PortsAsSent
  BY <1>1, <1>3, <1>4 DEF StartedByFirst, IntervalsAddUp, PortsAsSent
<1> QED
  BY <1>2, <1>5, <1>6, <1>7, <1>8 DEF IInv

\* The clock, and a step that changes nothing.
LEMMA ClockStep ==
  ASSUME IInv, UNCHANGED <<retransVars, intervalVars, tupleVars, arrived>>, now' \in Clock
  PROVE  IInv'
<1>1. /\ mp' = mp /\ tot_packet1' = tot_packet1 /\ loss_packet' = loss_packet
      /\ start' = start /\ gaps' = gaps /\ printed' = printed /\ last' = last
      /\ arrived' = arrived
  BY DEF retransVars, intervalVars, tupleVars
<1>2. \A S : Times(S)' = Times(S) /\ Seen(S)' = Seen(S)
  BY <1>1 DEF Times, Seen
<1>3. TypeOK'
  BY <1>1 DEF IInv, TypeOK
<1>4. WordsSeen' /\ LossesAreRepeats' /\ NoRetransmissionMissed'
  <2>1. LossesAreRepeats'
    BY <1>1, <1>2 DEF IInv, LossesAreRepeats
  <2>2. NoRetransmissionMissed'
    BY <1>1, <1>2 DEF IInv, NoRetransmissionMissed
  <2> QED
    BY <1>1, <1>2, <2>1, <2>2 DEF IInv, WordsSeen, Words
<1>5. StartedByFirst' /\ IntervalsAddUp' /\ PortsAsSent'
  BY <1>1, <1>2 DEF IInv, StartedByFirst, IntervalsAddUp, PortsAsSent
<1> QED
  BY <1>3, <1>4, <1>5 DEF IInv

LEMMA NextInv ==
  IInv /\ [Next]_vars => IInv'
<1> SUFFICES ASSUME IInv, [Next]_vars PROVE IInv'
  OBVIOUS
<1>1. ASSUME NEW f \in Frames, Captured(f) PROVE IInv'
  BY <1>1, TypeStep, WordsStep, MissedStep, IntervalStep, PortsStep DEF IInv
<1>2. ASSUME NEW t \in Clock, SetClock(t) PROVE IInv'
  BY <1>2, ClockStep DEF SetClock
<1>3. CASE UNCHANGED vars
  BY <1>3, ClockStep DEF vars, IInv, TypeOK
<1> QED
  BY <1>1, <1>2, <1>3 DEF Next

\* The counts, the times and the ports are consistent in every state the three
\* callbacks reach.
THEOREM CaptureInvariance == Spec => []IInv
<1> QED
  BY InitInv, NextInv, PTL DEF Spec

\* Every variable of the packet loggers has its type, and the ports printed are
\* 16 bits.
THEOREM CaptureTypeCorrect == Spec => []TypeOK
<1>1. IInv => TypeOK
  BY DEF IInv
<1> QED
  BY <1>1, CaptureInvariance, PTL

\* The callback of retransmission_loss counts as a loss every frame with an IP header
\* whose sequence word was met before, and counts no other frame, however its length
\* wraps in handle_IP.
THEOREM LossesCorrect == Spec => []LossesAreRepeats
<1>1. IInv => LossesAreRepeats
  BY DEF IInv
<1> QED
  BY <1>1, CaptureInvariance, PTL

\* The losses that retransmission_loss reports are at least the segments captured
\* again: they may be too many, never too few.
THEOREM RetransmissionsCounted == Spec => []NoRetransmissionMissed
<1>1. IInv => NoRetransmissionMissed
  BY DEF IInv
<1> QED
  BY <1>1, CaptureInvariance, PTL

\* The intervals that count_interval prints add up to the time between the first and
\* the last IPv4 packet, whichever way the clock was set in between.
THEOREM IntervalsCorrect == Spec => []IntervalsAddUp
<1>1. IInv => IntervalsAddUp
  BY DEF IInv
<1> QED
  BY <1>1, CaptureInvariance, PTL

\* big2small undoes the order of the network, bit by bit: 5tuple prints the ports of
\* the packet.
THEOREM PortsCorrect == Spec => []PortsAsSent
<1>1. IInv => PortsAsSent
  BY DEF IInv
<1> QED
  BY <1>1, CaptureInvariance, PTL
--------------------------------------------------------------------------------
(***************************************************************************)
(* The rate meter                                                           *)
(***************************************************************************)
Ascending(s) == \A i, j \in 1..Len(s) : i <= j => s[i] <= s[j]

\* The samples that a new one goes behind are the first ones.
LEMMA PlaceLemma ==
  ASSUME NEW s \in Seq(Int), Ascending(s), NEW v \in Int
  PROVE  \E m \in 0..Len(s) : /\ Place(s, v) = m + 1
                              /\ \A i \in 1..Len(s) : s[i] <= v <=> i <= m
<1> DEFINE n == Len(s)
           J == {i \in DOMAIN s : s[i] <= v}
           P == {k \in Nat : k <= n => \E m \in 0..k : \A i \in 1..k : s[i] <= v <=> i <= m}
<1>1. n \in Nat /\ DOMAIN s = 1..n /\ \A i \in 1..n : s[i] \in Int
  OBVIOUS
<1>2. 0 \in P
  OBVIOUS
<1>3. ASSUME NEW k \in Nat, k \in P PROVE k+1 \in P
  <2> SUFFICES ASSUME k+1 <= n PROVE \E m \in 0..k+1 : \A i \in 1..k+1 : s[i] <= v <=> i <= m
    OBVIOUS
  <2>1. PICK m \in 0..k : \A i \in 1..k : s[i] <= v <=> i <= m
    BY <1>1, <1>3
  <2>2. \A i \in 1..k : s[i] <= s[k+1] /\ s[i] \in Int /\ s[k+1] \in Int
    BY <1>1 DEF Ascending
  <2>3. CASE s[k+1] <= v
    <3>1. \A i \in 1..k : s[i] <= v
      BY <2>2, <2>3
    <3>2. \A i \in 1..k+1 : s[i] <= v <=> i <= k+1
      BY <2>3, <3>1
    <3> QED
      BY <3>2
  <2>4. CASE ~(s[k+1] <= v)
    <3>1. \A i \in 1..k+1 : s[i] <= v <=> i <= m
      BY <2>1, <2>4
    <3>2. m \in 0..k+1
      OBVIOUS
    <3> QED
      BY <3>1, <3>2
  <2> QED
    BY <2>3, <2>4
<1> HIDE DEF P
<1>4. n \in P
  BY <1>1, <1>2, <1>3, NatSetInduction
<1>5. PICK m \in 0..n : \A i \in 1..n : s[i] <= v <=> i <= m
  BY <1>1, <1>4 DEF P
<1>6. J = 1..m
  BY <1>1, <1>5
<1>7. Cardinality(1..m) = m
  <2>1. m \in Nat
    BY <1>1, <1>5
  <2> QED
    BY <2>1, FS_Interval
<1>8. Place(s, v) = m + 1
  BY <1>6, <1>7 DEF Place
<1> QED
  BY <1>1, <1>5, <1>8

LEMMA InsertLemma ==
  ASSUME NEW s \in Seq(Int), Ascending(s), NEW v \in Int
  PROVE  /\ Insert(s, v) \in Seq(Int) /\ Ascending(Insert(s, v))
         /\ Len(Insert(s, v)) = Len(s) + 1
<1>1. PICK m \in 0..Len(s) : /\ Place(s, v) = m + 1
                             /\ \A i \in 1..Len(s) : s[i] <= v <=> i <= m
  BY PlaceLemma
<1>2. PICK n \in Nat : n = Len(s)
  OBVIOUS
<1>3. PICK t : t = Insert(s, v)
  OBVIOUS
<1>4. t = SubSeq(s, 1, m) \o <<v>> \o SubSeq(s, m+1, n)
  <2>1. (m + 1) - 1 = m
    BY <1>1
  <2> QED
    BY ONLY <1>1, <1>2, <1>3, <2>1 DEF Insert, InsertAt
<1>5. /\ t \in Seq(Int) /\ Len(t) = n + 1
      /\ \A i \in 1..n+1 : t[i] = IF i <= m THEN s[i] ELSE IF i = m+1 THEN v ELSE s[i-1]
  <2>1. PICK a, b : a = SubSeq(s, 1, m) /\ b = SubSeq(s, m+1, n)
    OBVIOUS
  <2>2. /\ a \in Seq(Int) /\ Len(a) = m /\ \A i \in 1..m : a[i] = s[i]
    BY <1>1, <1>2, <2>1
  <2>3. b \in Seq(Int) /\ Len(b) = n - m /\ \A i \in 1..n-m : b[i] = s[m+i]
    BY <1>1, <1>2, <2>1
  <2>4. PICK c : c = a \o <<v>>
    OBVIOUS
  <2>5. c \in Seq(Int) /\ Len(c) = m + 1 /\ \A i \in 1..m+1 : c[i] = IF i <= m THEN s[i] ELSE v
    BY <2>2, <2>4
  <2>6. t = c \o b
    BY <1>4, <2>1, <2>4
  <2>7. t \in Seq(Int) /\ Len(t) = (m+1) + (n-m)
    <3>0. c \in Seq(Int) /\ b \in Seq(Int)
      BY <2>3, <2>5
    <3>1. c \o b \in Seq(Int) /\ Len(c \o b) = Len(c) + Len(b)
      BY ONLY <3>0
    <3> QED
      BY ONLY <2>3, <2>5, <2>6, <3>1
  <2>8. \A i \in 1..n+1 : t[i] = IF i <= m+1 THEN c[i] ELSE b[i - (m+1)]
    <3>1. m \in Nat /\ m <= n
      BY <1>1, <1>2
    <3>2. \A i \in 1..Len(c) + Len(b) : (c \o b)[i] = IF i <= Len(c) THEN c[i] ELSE b[i - Len(c)]
      BY ONLY <2>3, <2>5
    <3> QED
      BY ONLY n \in Nat, <2>3, <2>5, <2>6, <3>1, <3>2
  <2>9. \A i \in 1..n+1 : i > m+1 => b[i - (m+1)] = s[i-1]
    <3>1. \A i \in 1..n+1 : i > m+1 => i - (m+1) \in 1..n-m /\ m + (i - (m+1)) = i - 1
      BY <1>1, <1>2
    <3> QED
      BY <2>3, <3>1
  <2>10. \A i \in 1..n+1 : t[i] = IF i <= m THEN s[i] ELSE IF i = m+1 THEN v ELSE s[i-1]
    <3> TAKE i \in 1..n+1
    <3>1. CASE i <= m+1
      BY <2>5, <2>8, <3>1
    <3>2. CASE i > m+1
      BY <2>8, <2>9, <3>2
    <3> QED
      BY <1>1, <3>1, <3>2
  <2> QED
    BY <2>7, <2>10, <1>1, <1>2
<1>6. Ascending(t)
  <2> SUFFICES ASSUME NEW i \in 1..n+1, NEW j \in 1..n+1, i <= j PROVE t[i] <= t[j]
    BY <1>5 DEF Ascending
  <2>1. \A k \in 1..n : s[k] \in Int
    BY <1>2
  <2>2. \A k, l \in 1..n : k <= l => s[k] <= s[l]
    BY <1>2 DEF Ascending
  <2>3. \A k \in 1..n : s[k] <= v <=> k <= m
    BY <1>1, <1>2
  <2>4. m \in 0..n
    BY <1>1, <1>2
  <2>11. i \in Nat /\ j \in Nat /\ m \in Nat /\ i >= 1 /\ j >= 1 /\ j <= n+1
    BY <2>4
  <2>5. CASE i <= m /\ j <= m
    <3>1. i \in 1..n /\ j \in 1..n /\ t[i] = s[i] /\ t[j] = s[j]
      BY <1>5, <2>4, <2>5
    <3> QED
      BY ONLY <2>2, <3>1, i <= j
  <2>6. CASE i <= m /\ j = m+1
    <3>1. i \in 1..n /\ t[i] = s[i] /\ t[j] = v
      BY <1>5, <2>4, <2>6
    <3> QED
      BY ONLY <2>3, <2>6, <3>1
  <2>7. CASE i <= m /\ j > m+1
    <3>1. i \in 1..n /\ j-1 \in 1..n /\ i <= j-1
      BY <2>4, <2>7
    <3>2. t[i] = s[i] /\ t[j] = s[j-1]
      BY <1>5, <2>7, <2>11
    <3> QED
      BY ONLY <2>2, <3>1, <3>2
  <2>8. CASE i = m+1 /\ j = m+1
    BY <1>5, <2>8
  <2>9. CASE i = m+1 /\ j > m+1
    <3>1. j-1 \in 1..n /\ ~(j-1 <= m)
      BY <2>4, <2>9
    <3>2. v <= s[j-1]
      BY <2>1, <2>3, <3>1
    <3> QED
      BY <1>5, <2>9, <3>2
  <2>10. CASE i > m+1
    <3>1. i-1 \in 1..n /\ j-1 \in 1..n /\ i-1 <= j-1 /\ j > m+1
      BY <2>4, <2>10
    <3>2. t[i] = s[i-1] /\ t[j] = s[j-1]
      BY <1>5, <2>10, <2>11, <3>1
    <3> QED
      BY ONLY <2>2, <3>1, <3>2
  <2> QED
    BY <2>4, <2>5, <2>6, <2>7, <2>8, <2>9, <2>10
<1> QED
  BY <1>2, <1>3, <1>5, <1>6

\* get_ratio's sort puts the samples in order, whatever they are.
LEMMA SortedLemma ==
  ASSUME NEW w \in Seq(Int)
  PROVE  /\ Sorted(w) \in Seq(Int) /\ Ascending(Sorted(w))
         /\ Len(Sorted(w)) = Len(w)
<1> DEFINE n == Len(w)
           V == {s \in Seq(Int) : Ascending(s)}
           F(g) == g = [t \in SUBSET (DOMAIN w) |-> IF t = {} THEN << >>
                           ELSE Insert(g[t \ {Max(t)}], w[Max(t)])]
           T == [x \in V \X (1..n) |-> Insert(x[1], w[x[2]])]
<1>1. n \in Nat /\ DOMAIN w = 1..n /\ \A j \in 1..n : w[j] \in Int
  OBVIOUS
<1>2. Sorted(w) = (CHOOSE g : F(g))[DOMAIN w]
  BY DEF Sorted, FoldLeft, MapThenFoldSet, Max
<1>3. T \in [V \X (1..n) -> V]
  <2>1. ASSUME NEW x \in V \X (1..n) PROVE Insert(x[1], w[x[2]]) \in V
    <3>1. x[1] \in Seq(Int) /\ Ascending(x[1]) /\ w[x[2]] \in Int
      BY <1>1
    <3> QED
      BY <3>1, InsertLemma
  <2> QED
    BY <2>1
<1>4. << >> \in V
  <2>1. << >> \in Seq(Int) /\ Len(<< >>) = 0
    OBVIOUS
  <2>2. 1..0 = {}
    OBVIOUS
  <2>3. Ascending(<< >>)
    BY <2>1, <2>2 DEF Ascending
  <2> QED
    BY <2>1, <2>3
<1>5. \A v \in V, j \in 1..n : T[<<v, j>>] = Insert(v, w[j])
  OBVIOUS
<1> HIDE DEF T
<1>6. PICK g \in [SUBSET (1..n) -> V] : RunEq(g, T, << >>, n)
  BY ONLY <1>1, <1>3, <1>4, FoldRuns
<1>7. F(g)
  <2>1. ASSUME NEW t \in SUBSET (1..n), t # {}
        PROVE  T[<<g[t \ {Max(t)}], Max(t)>>] = Insert(g[t \ {Max(t)}], w[Max(t)])
    <3>1. Max(t) \in t
      BY ONLY <1>1, <2>1, MaxPicks
    <3>2. Max(t) \in 1..n /\ t \ {Max(t)} \in SUBSET (1..n)
      BY <3>1
    <3>3. g[t \ {Max(t)}] \in V
      BY <3>2
    <3> QED
      BY <1>5, <3>2, <3>3
  <2> HIDE DEF n
  <2>2. [t \in SUBSET (1..n) |-> IF t = {} THEN << >> ELSE T[<<g[t \ {Max(t)}], Max(t)>>]]
          = [t \in SUBSET (1..n) |-> IF t = {} THEN << >>
                                     ELSE Insert(g[t \ {Max(t)}], w[Max(t)])]
    BY <2>1
  <2> QED
    BY <1>1, <1>6, <2>2 DEF RunEq
<1>8. PICK h : h = (CHOOSE f : F(f))
  OBVIOUS
<1>9. F(h)
  BY <1>7, <1>8
<1> DEFINE P == {j \in Nat : j <= n => h[1..j] \in V /\ Len(h[1..j]) = j}
<1>10. 0 \in P
  <2>1. 1..0 = {} /\ {} \in SUBSET (DOMAIN w)
    BY <1>1
  <2>2. h[1..0] = << >>
    BY <1>9, <2>1
  <2> HIDE DEF V
  <2> QED
    BY <1>4, <2>2
<1>11. ASSUME NEW j \in Nat, j \in P PROVE j+1 \in P
  <2> SUFFICES ASSUME j+1 <= n
               PROVE  h[1..j+1] \in V /\ Len(h[1..j+1]) = j+1
    OBVIOUS
  <2>1. j <= n /\ j+1 \in 1..n /\ 1..j+1 \in SUBSET (DOMAIN w) /\ j+1 \in 1..j+1
    BY <1>1
  <2>2. h[1..j] \in V /\ Len(h[1..j]) = j
    BY <1>11, <2>1
  <2>3. Max(1..j+1) = j+1 /\ (1..j+1) \ {j+1} = 1..j
    BY MaxOfInterval
  <2>4. h[1..j+1] = Insert(h[1..j], w[j+1])
    <3>1. 1..j+1 # {}
      BY <2>1
    <3>2. PICK t : t = 1..j+1
      OBVIOUS
    <3>3. h[t] = Insert(h[t \ {Max(t)}], w[Max(t)])
      BY <1>9, <2>1, <3>1, <3>2
    <3> QED
      BY ONLY <2>3, <3>2, <3>3
  <2>5. h[1..j] \in Seq(Int) /\ Ascending(h[1..j]) /\ w[j+1] \in Int
    BY <1>1, <2>1, <2>2
  <2> QED
    BY <2>2, <2>4, <2>5, InsertLemma
<1> HIDE DEF P
<1>12. n \in P
  BY <1>1, <1>10, <1>11, NatSetInduction
<1>13. h[1..n] \in V /\ Len(h[1..n]) = n
  BY <1>1, <1>12 DEF P
<1> QED
  BY <1>1, <1>2, <1>8, <1>13
--------------------------------------------------------------------------------
(***************************************************************************)
(* The densest range                                                        *)
(***************************************************************************)
Ranges(s) == (1..Len(s)) \X (1..Len(s))
Candidate(s, r) == r[1] < r[2] /\ Wide(s, r)
Squared(r) == Count(r) * Count(r)

\* b is << >> or a range, and no range in D that is wide enough is denser.
Best(s, b, D) ==
  /\ b = << >> \/ b \in Ranges(s)
  /\ b = << >> => \A r \in D : ~Candidate(s, r)
  /\ b # << >> => /\ Candidate(s, b)
                  /\ \A r \in D : Candidate(s, r) =>
                        Squared(r) * Width(s, b) <= Squared(b) * Width(s, r)

LEMMA MulMono ==
  ASSUME NEW x \in Int, NEW y \in Int, NEW z \in Nat, x <= y
  PROVE  x * z <= y * z
OBVIOUS

LEMMA MulCancel ==
  ASSUME NEW x \in Int, NEW y \in Int, NEW z \in Nat, z > 0, x * z <= y * z
  PROVE  x <= y
OBVIOUS

LEMMA MulPositive ==
  ASSUME NEW x \in Int, NEW z \in Nat, x * z > 0
  PROVE  x > 0
OBVIOUS

\* Comparing fractions after multiplying out is transitive.
LEMMA CrossLemma ==
  ASSUME NEW a \in Nat, NEW b \in Nat, NEW c \in Nat,
         NEW u \in Nat, NEW v \in Nat, NEW w \in Nat, v > 0,
         a * v <= b * u, b * w <= c * v
  PROVE  a * w <= c * u
<1>1. (a * v) * w <= (b * u) * w
  <2>1. a * v \in Int /\ b * u \in Int
    OBVIOUS
  <2> QED
    BY ONLY <2>1, w \in Nat, a * v <= b * u, MulMono
<1>2. (b * w) * u <= (c * v) * u
  <2>1. b * w \in Int /\ c * v \in Int
    OBVIOUS
  <2> QED
    BY ONLY <2>1, u \in Nat, b * w <= c * v, MulMono
<1>3. (a * v) * w = (a * w) * v /\ (b * u) * w = (b * w) * u /\ (c * v) * u = (c * u) * v
  BY ONLY a \in Nat, b \in Nat, c \in Nat, u \in Nat, v \in Nat, w \in Nat
<1>4. a * w \in Int /\ c * u \in Int /\ (a * w) * v \in Int /\ (b * w) * u \in Int /\ (c * u) * v \in Int
  BY ONLY a \in Nat, b \in Nat, c \in Nat, u \in Nat, v \in Nat, w \in Nat
<1>5. (a * w) * v <= (c * u) * v
  BY ONLY <1>1, <1>2, <1>3, <1>4
<1> QED
  BY ONLY <1>4, <1>5, v \in Nat, v > 0, MulCancel

\* Samples that are not all the same: a range that is wide enough has a width.
LEMMA CandidateLemma ==
  ASSUME NEW s \in Seq(Int), Len(s) >= 1, Spread(s) > 0, NEW r \in Ranges(s)
  PROVE  /\ Squared(r) \in Nat /\ Width(s, r) \in Int
         /\ Candidate(s, r) => Width(s, r) \in Nat /\ Width(s, r) > 0
<1>1. r[1] \in 1..Len(s) /\ r[2] \in 1..Len(s) /\ Len(s) \in Nat
  BY DEF Ranges
<1>2. s[r[1]] \in Int /\ s[r[2]] \in Int /\ s[1] \in Int /\ s[Len(s)] \in Int
  BY <1>1
<1>3. Width(s, r) \in Int /\ Spread(s) \in Int
  BY <1>2 DEF Width, Spread
<1>4. Squared(r) \in Nat
  <2>1. \A x \in Int : x * x \in Nat
    OBVIOUS
  <2>2. Count(r) \in Int
    BY <1>1 DEF Count
  <2> QED
    BY <2>1, <2>2 DEF Squared
<1>5. ASSUME Candidate(s, r) PROVE Width(s, r) > 0
  <2>1. Len(s) - 1 \in Nat
    BY <1>1
  <2>2. Width(s, r) * (Len(s) - 1) \in Int
    BY <1>3, <2>1
  <2>3. Width(s, r) * (Len(s) - 1) > 0
    BY <1>3, <1>5, <2>2 DEF Candidate, Wide
  <2> QED
    BY ONLY <1>3, <2>1, <2>3, MulPositive
<1> QED
  BY <1>3, <1>4, <1>5

LEMMA RangeNotEmpty ==
  ASSUME NEW s, NEW r \in Ranges(s)
  PROVE  r # << >>
<1>1. PICK i, j : r = <<i, j>>
  BY DEF Ranges
<1>2. Len(<<i, j>>) = 2 /\ Len(<< >>) = 0
  OBVIOUS
<1> QED
  BY ONLY <1>1, <1>2

\* One more range looked at.
LEMMA TakeLemma ==
  ASSUME NEW s \in Seq(Int), Len(s) >= 1, Spread(s) > 0,
         NEW b, NEW D \in SUBSET Ranges(s), Best(s, b, D), NEW r \in Ranges(s)
  PROVE  Best(s, Take(s, b, r), D \cup {r})
<1>1. r # << >>
  BY RangeNotEmpty
<1>2. CASE ~Candidate(s, r)
  <2>1. Take(s, b, r) = b
    BY <1>2 DEF Take, Better, Candidate
  <2> QED
    BY <1>2, <2>1 DEF Best
<1>3. CASE Candidate(s, r) /\ b = << >>
  <2>1. Take(s, b, r) = r
    BY <1>3 DEF Take, Better, Candidate
  <2>2. \A t \in D : ~Candidate(s, t)
    BY <1>3 DEF Best
  <2>3. Squared(r) * Width(s, r) <= Squared(r) * Width(s, r)
    BY CandidateLemma
  <2> QED
    BY <1>1, <1>3, <2>1, <2>2, <2>3 DEF Best
<1>4. CASE Candidate(s, r) /\ b # << >>
  <2>1. b \in Ranges(s) /\ Candidate(s, b)
    BY <1>4 DEF Best
  <2>2. /\ \A t \in D \cup {r, b} : Squared(t) \in Nat /\ Width(s, t) \in Int
        /\ \A t \in D \cup {r, b} : Candidate(s, t) =>
              Width(s, t) \in Nat /\ Width(s, t) > 0
    BY <2>1, CandidateLemma
  <2>3. \A t \in D : Candidate(s, t) => Squared(t) * Width(s, b) <= Squared(b) * Width(s, t)
    BY <1>4 DEF Best
  <2>4. Take(s, b, r) = IF Squared(r) * Width(s, b) > Squared(b) * Width(s, r)
                              THEN r ELSE b
    BY <1>4 DEF Take, Better, Denser, Squared, Candidate
  <2>5. Squared(r) * Width(s, b) \in Int /\ Squared(b) * Width(s, r) \in Int
    BY <2>2
  <2>6. CASE Squared(r) * Width(s, b) > Squared(b) * Width(s, r)
    <3>1. ASSUME NEW t \in D, Candidate(s, t)
          PROVE  Squared(t) * Width(s, r) <= Squared(r) * Width(s, t)
      <4>1. PICK x, y, z, u, v, w : /\ x = Squared(t) /\ y = Squared(b) /\ z = Squared(r)
                                    /\ u = Width(s, t) /\ v = Width(s, b)
                                    /\ w = Width(s, r)
        OBVIOUS
      <4>2. /\ x \in Nat /\ y \in Nat /\ z \in Nat /\ u \in Nat /\ v \in Nat /\ w \in Nat /\ v > 0
        BY <1>4, <2>1, <2>2, <3>1, <4>1
      <4>3. x * v <= y * u
        BY <2>3, <3>1, <4>1
      <4>4. y * w <= z * v
        BY <2>5, <2>6, <4>1
      <4>5. x * w <= z * u
        BY ONLY <4>2, <4>3, <4>4, CrossLemma
      <4> QED
        BY <4>1, <4>5
    <3>2. Squared(r) * Width(s, r) <= Squared(r) * Width(s, r)
      BY <2>2
    <3>3. Take(s, b, r) = r
      BY <2>4, <2>6
    <3> QED
      BY <1>1, <1>4, <3>1, <3>2, <3>3 DEF Best
  <2>7. CASE ~(Squared(r) * Width(s, b) > Squared(b) * Width(s, r))
    <3>1. Take(s, b, r) = b
      BY <2>4, <2>7
    <3>2. Squared(r) * Width(s, b) <= Squared(b) * Width(s, r)
      BY <2>5, <2>7
    <3> QED
      BY <1>4, <2>1, <2>3, <3>1, <3>2 DEF Best
  <2> QED
    BY <2>6, <2>7
<1> QED
  BY <1>2, <1>3, <1>4

\* The inner loop of get_ratio.
LEMMA RowLemma ==
  ASSUME NEW s \in Seq(Int), Len(s) >= 1, Spread(s) > 0,
         NEW b, NEW D \in SUBSET Ranges(s), Best(s, b, D), NEW i \in 1..Len(s)
  PROVE  Best(s, Row(s, b, i), D \cup ({i} \X (1..Len(s))))
<1> DEFINE n == Len(s)
           V == {<< >>} \cup Ranges(s)
           F(g) == g = [t \in SUBSET (DOMAIN Indices(s)) |-> IF t = {} THEN b
                           ELSE Take(s, g[t \ {Max(t)}], <<i, Indices(s)[Max(t)]>>)]
           T == [x \in V \X (1..n) |-> Take(s, x[1], <<i, x[2]>>)]
<1>1. n \in Nat /\ DOMAIN Indices(s) = 1..n /\ \A j \in 1..n : Indices(s)[j] = j
  BY DEF Indices
<1>2. Row(s, b, i) = (CHOOSE g : F(g))[DOMAIN Indices(s)]
  BY DEF Row, FoldLeft, MapThenFoldSet, Max
<1>3. T \in [V \X (1..n) -> V]
  <2>1. ASSUME NEW x \in V \X (1..n) PROVE Take(s, x[1], <<i, x[2]>>) \in V
    <3>1. <<i, x[2]>> \in Ranges(s) /\ x[1] \in V
      BY DEF Ranges
    <3> QED
      BY <3>1 DEF Take
  <2> QED
    BY <2>1
<1>4. b \in V
  BY DEF Best
<1>5. \A v \in V, j \in 1..n : T[<<v, j>>] = Take(s, v, <<i, j>>)
  OBVIOUS
<1> HIDE DEF T
<1>6. PICK g \in [SUBSET (1..n) -> V] : RunEq(g, T, b, n)
  BY ONLY <1>1, <1>3, <1>4, FoldRuns
<1>7. F(g)
  <2>1. ASSUME NEW t \in SUBSET (1..n), t # {}
        PROVE  T[<<g[t \ {Max(t)}], Max(t)>>]
                 = Take(s, g[t \ {Max(t)}], <<i, Indices(s)[Max(t)]>>)
    <3>1. Max(t) \in t
      BY ONLY <1>1, <2>1, MaxPicks
    <3>2. Max(t) \in 1..n /\ t \ {Max(t)} \in SUBSET (1..n)
      BY <3>1
    <3>3. g[t \ {Max(t)}] \in V
      BY <3>2
    <3>4. Indices(s)[Max(t)] = Max(t)
      BY <1>1, <3>2
    <3> HIDE DEF n, V
    <3> QED
      BY <1>5, <3>2, <3>3, <3>4
  <2> HIDE DEF n
  <2>2. [t \in SUBSET (1..n) |-> IF t = {} THEN b ELSE T[<<g[t \ {Max(t)}], Max(t)>>]]
          = [t \in SUBSET (1..n) |-> IF t = {} THEN b
               ELSE Take(s, g[t \ {Max(t)}], <<i, Indices(s)[Max(t)]>>)]
    BY <2>1
  <2> QED
    BY <1>1, <1>6, <2>2 DEF RunEq
<1>8. PICK h : h = (CHOOSE f : F(f))
  OBVIOUS
<1>9. F(h)
  BY <1>7, <1>8
<1> DEFINE P == {j \in Nat : j <= n => Best(s, h[1..j], D \cup ({i} \X (1..j)))}
<1>10. 0 \in P
  <2>1. 1..0 = {} /\ {} \in SUBSET (DOMAIN Indices(s)) /\ {i} \X (1..0) = {}
    BY <1>1
  <2>2. h[1..0] = b
    BY <1>9, <2>1
  <2>3. D \cup ({i} \X (1..0)) = D
    BY <2>1
  <2>4. Best(s, h[1..0], D \cup ({i} \X (1..0)))
    BY ONLY <2>2, <2>3, Best(s, b, D)
  <2> QED
    BY <2>4
<1>11. ASSUME NEW j \in Nat, j \in P PROVE j+1 \in P
  <2> SUFFICES ASSUME j+1 <= n
               PROVE  Best(s, h[1..j+1], D \cup ({i} \X (1..j+1)))
    OBVIOUS
  <2>1. j <= n /\ j+1 \in 1..n /\ 1..j+1 \in SUBSET (DOMAIN Indices(s)) /\ j+1 \in 1..j+1
    BY <1>1
  <2>2. Best(s, h[1..j], D \cup ({i} \X (1..j)))
    BY <1>11, <2>1
  <2>3. Max(1..j+1) = j+1 /\ (1..j+1) \ {j+1} = 1..j
    BY MaxOfInterval
  <2>4. h[1..j+1] = Take(s, h[1..j], <<i, j+1>>)
    <3>1. 1..j+1 # {}
      BY <2>1
    <3>2. PICK t : t = 1..j+1
      OBVIOUS
    <3>3. h[t] = Take(s, h[t \ {Max(t)}], <<i, Indices(s)[Max(t)]>>)
      BY <1>9, <2>1, <3>1, <3>2
    <3>4. Indices(s)[j+1] = j+1
      BY <1>1, <2>1
    <3> QED
      BY ONLY <2>3, <3>2, <3>3, <3>4
  <2>5. PICK E, r : E = D \cup ({i} \X (1..j)) /\ r = <<i, j+1>>
    OBVIOUS
  <2>6. E \in SUBSET Ranges(s) /\ r \in Ranges(s)
    BY <2>1, <2>5 DEF Ranges
  <2>7. Best(s, Take(s, h[1..j], r), E \cup {r})
    BY <2>2, <2>5, <2>6, TakeLemma
  <2>8. E \cup {r} = D \cup ({i} \X (1..j+1))
    <3>1. {i} \X (1..j+1) = ({i} \X (1..j)) \cup {<<i, j+1>>}
      <4>1. 1..j+1 = (1..j) \cup {j+1}
        OBVIOUS
      <4> QED
        BY <4>1
    <3> QED
      BY <2>5, <3>1
  <2> QED
    BY ONLY <2>4, <2>5, <2>7, <2>8
<1> HIDE DEF P
<1>12. n \in P
  BY <1>1, <1>10, <1>11, NatSetInduction
<1>13. Best(s, h[1..n], D \cup ({i} \X (1..n)))
  BY <1>1, <1>12 DEF P
<1>14. Row(s, b, i) = h[1..n]
  BY <1>1, <1>2, <1>8
<1> QED
  BY ONLY <1>13, <1>14

\* The two loops of get_ratio.
LEMMA DensestLemma ==
  ASSUME NEW s \in Seq(Int), Len(s) >= 1, Spread(s) > 0
  PROVE  Best(s, Densest(s), Ranges(s))
<1> DEFINE n == Len(s)
           V == {<< >>} \cup Ranges(s)
           W == {b \in V : Best(s, b, {})}
           F(g) == g = [t \in SUBSET (DOMAIN Indices(s)) |-> IF t = {} THEN << >>
                           ELSE Row(s, g[t \ {Max(t)}], Indices(s)[Max(t)])]
           T == [x \in W \X (1..n) |-> Row(s, x[1], x[2])]
<1>1. n \in Nat /\ DOMAIN Indices(s) = 1..n /\ \A j \in 1..n : Indices(s)[j] = j
  BY DEF Indices
<1>2. Densest(s) = (CHOOSE g : F(g))[DOMAIN Indices(s)]
  BY DEF Densest, FoldLeft, MapThenFoldSet, Max
<1>3. T \in [W \X (1..n) -> W]
  <2>1. ASSUME NEW x \in W \X (1..n) PROVE Row(s, x[1], x[2]) \in W
    <3>1. Best(s, x[1], {}) /\ {} \in SUBSET Ranges(s) /\ x[2] \in 1..Len(s)
      OBVIOUS
    <3>2. Best(s, Row(s, x[1], x[2]), {} \cup ({x[2]} \X (1..Len(s))))
      BY ONLY <3>1, s \in Seq(Int), Len(s) >= 1, Spread(s) > 0, RowLemma
    <3> QED
      BY <3>2 DEF Best
  <2> QED
    BY <2>1
<1>4. << >> \in W /\ Best(s, << >>, {})
  BY DEF Best
<1>5. \A v \in W, j \in 1..n : T[<<v, j>>] = Row(s, v, j)
  OBVIOUS
<1> HIDE DEF T
<1>6. PICK g \in [SUBSET (1..n) -> W] : RunEq(g, T, << >>, n)
  BY ONLY <1>1, <1>3, <1>4, FoldRuns
<1>7. F(g)
  <2>1. ASSUME NEW t \in SUBSET (1..n), t # {}
        PROVE  T[<<g[t \ {Max(t)}], Max(t)>>]
                 = Row(s, g[t \ {Max(t)}], Indices(s)[Max(t)])
    <3>1. Max(t) \in t
      BY ONLY <1>1, <2>1, MaxPicks
    <3>2. Max(t) \in 1..n /\ t \ {Max(t)} \in SUBSET (1..n)
      BY <3>1
    <3> HIDE DEF n, W
    <3>3. g[t \ {Max(t)}] \in W
      BY <3>2
    <3>4. Indices(s)[Max(t)] = Max(t)
      BY <1>1, <3>2
    <3> QED
      BY <1>5, <3>2, <3>3, <3>4
  <2> HIDE DEF n
  <2>2. [t \in SUBSET (1..n) |-> IF t = {} THEN << >> ELSE T[<<g[t \ {Max(t)}], Max(t)>>]]
          = [t \in SUBSET (1..n) |-> IF t = {} THEN << >>
               ELSE Row(s, g[t \ {Max(t)}], Indices(s)[Max(t)])]
    BY <2>1
  <2> QED
    BY <1>1, <1>6, <2>2 DEF RunEq
<1>8. PICK h : h = (CHOOSE f : F(f))
  OBVIOUS
<1>9. F(h)
  BY <1>7, <1>8
<1> DEFINE P == {j \in Nat : j <= n => Best(s, h[1..j], (1..j) \X (1..n))}
<1>10. 0 \in P
  <2>1. 1..0 = {} /\ {} \in SUBSET (DOMAIN Indices(s)) /\ (1..0) \X (1..n) = {}
    BY <1>1
  <2>2. h[1..0] = << >>
    BY <1>9, <2>1
  <2>3. Best(s, h[1..0], (1..0) \X (1..n))
    BY ONLY <1>4, <2>1, <2>2
  <2> QED
    BY <2>3
<1>11. ASSUME NEW j \in Nat, j \in P PROVE j+1 \in P
  <2> SUFFICES ASSUME j+1 <= n
               PROVE  Best(s, h[1..j+1], (1..j+1) \X (1..n))
    OBVIOUS
  <2>1. j <= n /\ j+1 \in 1..n /\ 1..j+1 \in SUBSET (DOMAIN Indices(s)) /\ j+1 \in 1..j+1
    BY <1>1
  <2>2. Best(s, h[1..j], (1..j) \X (1..n))
    BY <1>11, <2>1
  <2>3. Max(1..j+1) = j+1 /\ (1..j+1) \ {j+1} = 1..j
    BY MaxOfInterval
  <2>4. h[1..j+1] = Row(s, h[1..j], j+1)
    <3>1. 1..j+1 # {}
      BY <2>1
    <3>2. PICK t : t = 1..j+1
      OBVIOUS
    <3>3. h[t] = Row(s, h[t \ {Max(t)}], Indices(s)[Max(t)])
      BY <1>9, <2>1, <3>1, <3>2
    <3>4. Indices(s)[j+1] = j+1
      BY <1>1, <2>1
    <3> QED
      BY ONLY <2>3, <3>2, <3>3, <3>4
  <2>5. PICK E, k : E = (1..j) \X (1..n) /\ k = j+1
    OBVIOUS
  <2>6. E \in SUBSET Ranges(s) /\ k \in 1..Len(s)
    BY <2>1, <2>5 DEF Ranges
  <2>7. Best(s, Row(s, h[1..j], k), E \cup ({k} \X (1..Len(s))))
    BY ONLY <2>2, <2>5, <2>6, s \in Seq(Int), Len(s) >= 1, Spread(s) > 0, RowLemma
  <2>8. E \cup ({k} \X (1..Len(s))) = (1..j+1) \X (1..n)
    <3>1. 1..j+1 = (1..j) \cup {j+1}
      OBVIOUS
    <3> QED
      BY <2>5, <3>1
  <2> QED
    BY ONLY <2>4, <2>5, <2>7, <2>8
<1> HIDE DEF P
<1>12. n \in P
  BY <1>1, <1>10, <1>11, NatSetInduction
<1>13. Best(s, h[1..n], (1..n) \X (1..n))
  BY <1>1, <1>12 DEF P
<1>14. Densest(s) = h[1..n]
  BY <1>1, <1>2, <1>8
<1> QED
  BY ONLY <1>13, <1>14 DEF Ranges

\* get_ratio's figure, for every queue of samples.
LEMMA RatioLemma ==
  ASSUME q \in Seq(Int)
  PROVE  RatioFromDensestRange
<1> SUFFICES ASSUME q # << >> PROVE RatioFromDensestRange
  BY DEF RatioFromDensestRange
<1>1. PICK s : s = Sorted(q)
  OBVIOUS
<1>2. s \in Seq(Int) /\ Ascending(s) /\ Len(s) = Len(q)
  BY <1>1, SortedLemma
<1>3. Len(s) \in Nat /\ Len(s) >= 1 /\ DOMAIN s = 1..Len(s)
  BY <1>2
<1>4. s[1] \in Int /\ s[Len(s)] \in Int /\ s[1] <= s[Len(s)] /\ Spread(s) = s[Len(s)] - s[1]
  BY <1>2, <1>3 DEF Ascending, Spread
<1>5. CASE s[1] = s[Len(s)]
  <2>1. Chosen(s) = <<1, 1>>
    BY <1>4, <1>5 DEF Chosen
  <2> QED
    BY <1>1, <1>5, <2>1 DEF RatioFromDensestRange
<1>6. CASE s[1] # s[Len(s)]
  <2>1. PICK c : c = Chosen(s)
    OBVIOUS
  <2>2. Spread(s) > 0 /\ c = Densest(s)
    BY <1>4, <1>6, <2>1 DEF Chosen
  <2>3. Best(s, c, Ranges(s))
    BY <1>2, <1>3, <2>2, DensestLemma
  <2>4. \A r : Candidate(s, r) <=>
           r[1] < r[2] /\ (s[r[2]] - s[r[1]]) * (Len(s) - 1) >= s[Len(s)] - s[1]
    BY <1>4 DEF Candidate, Wide, Width
  <2>5. c # << >>
    <3>1. PICK r : r = <<1, Len(s)>>
      OBVIOUS
    <3>2. r \in Ranges(s) /\ r[1] = 1 /\ r[2] = Len(s)
      BY <1>3, <3>1 DEF Ranges
    <3>3. 1 < Len(s)
      BY <1>3, <1>6
    <3>4. (s[Len(s)] - s[1]) * (Len(s) - 1) >= s[Len(s)] - s[1]
      <4>1. PICK x, m : x = s[Len(s)] - s[1] /\ m = Len(s) - 1
        OBVIOUS
      <4>2. x \in Nat /\ m \in Nat /\ m >= 1
        BY <1>3, <1>4, <3>3, <4>1
      <4>3. x * m >= x
        BY ONLY <4>2
      <4> QED
        BY <4>1, <4>3
    <3>5. Candidate(s, r)
      BY <2>4, <3>2, <3>3, <3>4
    <3> QED
      BY <2>3, <3>2, <3>5 DEF Best
  <2>6. /\ c \in Ranges(s) /\ Candidate(s, c)
        /\ \A r \in Ranges(s) : Candidate(s, r) =>
              Squared(r) * Width(s, c) <= Squared(c) * Width(s, r)
    BY <2>3, <2>5 DEF Best
  <2>7. Ranges(s) = (DOMAIN s) \X (DOMAIN s)
    BY <1>3 DEF Ranges
  <2>8. \A r : /\ Squared(r) = (r[2] - r[1] + 1) * (r[2] - r[1] + 1)
              /\ Width(s, r) = s[r[2]] - s[r[1]]
    BY DEF Squared, Count, Width
  <2>9. /\ c \in (DOMAIN s) \X (DOMAIN s)
        /\ c[1] < c[2] /\ (s[c[2]] - s[c[1]]) * (Len(s) - 1) >= s[Len(s)] - s[1]
    BY ONLY <2>4, <2>6, <2>7
  <2>10. ASSUME NEW r \in (DOMAIN s) \X (DOMAIN s), r[1] < r[2],
                (s[r[2]] - s[r[1]]) * (Len(s) - 1) >= s[Len(s)] - s[1]
         PROVE  (r[2] - r[1] + 1) * (r[2] - r[1] + 1) * (s[c[2]] - s[c[1]])
                  <= (c[2] - c[1] + 1) * (c[2] - c[1] + 1) * (s[r[2]] - s[r[1]])
    <3>1. r \in Ranges(s) /\ Candidate(s, r)
      BY ONLY <2>4, <2>7, <2>10
    <3>2. Squared(r) * Width(s, c) <= Squared(c) * Width(s, r)
      BY ONLY <2>6, <3>1
    <3> QED
      BY ONLY <2>8, <3>2
  <2> QED
    BY ONLY <1>1, <1>6, <2>1, <2>9, <2>10 DEF RatioFromDensestRange
<1> QED
  BY <1>5, <1>6
--------------------------------------------------------------------------------
(***************************************************************************)
(* The windows                                                              *)
(***************************************************************************)
\* Nothing was captured in the ticks in which a packet would have closed the window.
QuietSinceFull ==
  \A n \in 0..2*interval-1 : ~started \/ n <= since - interval => past[n] = 0

\* What the window holds are the bytes captured since its start.
WindowExact ==
  started /\ since < 2*interval => tot_ippkt_len = SumFunctionOnSet(past, 0..since)

\* The inductive invariant of the rate meter.
SpeedInv == SpeedTypeOK /\ QuietSinceFull /\ WindowExact

LEMMA SpeedFacts ==
  ASSUME SpeedTypeOK
  PROVE  /\ interval \in Nat /\ interval >= 1 /\ since \in Nat /\ since <= 2*interval
         /\ 2*interval \in Nat /\ 0 \in 0..2*interval-1
         /\ \A n \in 0..2*interval-1 : past[n] \in Int
         /\ \A m \in Nat : IsFiniteSet(0..m)
         /\ tot_ippkt_len \in Int /\ started \in BOOLEAN
<1>1. interval \in Nat /\ interval >= 1
  BY SpeedAssumption
<1>2. since \in 0..2*interval /\ past \in [0..2*interval-1 -> Int] /\ tot_ippkt_len \in Int
      /\ started \in BOOLEAN
  BY DEF SpeedTypeOK
<1>3. \A m \in Nat : IsFiniteSet(0..m)
  BY FS_Interval
<1>4. 2*interval \in Nat /\ 2*interval-1 >= 0
  BY <1>1
<1> QED
  BY <1>1, <1>2, <1>3, <1>4

\* When a packet is captured it counts in the present tick.
LEMMA CaptureLemma ==
  ASSUME SpeedTypeOK, NEW p \in Payload, Capture(p)
  PROVE  /\ p \in Int /\ past' \in [0..2*interval-1 -> Int]
         /\ past'[0] = past[0] + p
         /\ \A n \in 0..2*interval-1 : n # 0 => past'[n] = past[n]
<1>1. p \in Int
  BY SpeedAssumption
<1>2. past \in [0..2*interval-1 -> Int] /\ past' = [past EXCEPT ![0] = @ + p]
  BY DEF SpeedTypeOK, Capture
<1>3. 0 \in 0..2*interval-1
  BY SpeedFacts
<1> QED
  BY <1>1, <1>2, <1>3

\* A window that has run its time holds the bytes of its first interval.
LEMMA FullWindow ==
  ASSUME SpeedInv, started, since >= interval, since < 2*interval
  PROVE  /\ tot_ippkt_len = SumFunctionOnSet(past, since - interval + 1 .. since)
         /\ \A n \in 0..since - interval : past[n] = 0
<1>1. /\ interval \in Nat /\ interval >= 1 /\ since \in Nat
      /\ \A n \in 0..2*interval-1 : past[n] \in Int
      /\ IsFiniteSet(0..since)
  BY SpeedFacts DEF SpeedInv
<1>2. tot_ippkt_len = SumFunctionOnSet(past, 0..since)
  BY DEF SpeedInv, WindowExact
<1>3. \A n \in 0..since - interval : past[n] = 0
  BY <1>1 DEF SpeedInv, QuietSinceFull
<1>4. PICK S, R : S = 0..since /\ R = since - interval + 1 .. since
  OBVIOUS
<1>5. /\ R \in SUBSET S /\ \A n \in S : past[n] \in Int
      /\ \A n \in S \ R : past[n] = 0
  BY <1>1, <1>3, <1>4
<1>6. SumFunctionOnSet(past, S) = SumFunctionOnSet(past, R)
  BY <1>1, <1>4, <1>5, SumSubset
<1> QED
  BY <1>2, <1>3, <1>4, <1>6

\* The sum over an interval of ticks of which all but the present one are quiet.
LEMMA PresentOnly ==
  ASSUME NEW m \in Nat, NEW f, \A n \in 0..m : f[n] \in Int, \A n \in 0..m : n # 0 => f[n] = 0
  PROVE  SumFunctionOnSet(f, 0..m) = f[0]
<1>1. IsFiniteSet(0..m) /\ 0 \in 0..m /\ IsFiniteSet((0..m) \ {0})
  <2>1. IsFiniteSet(0..m) /\ 0 \in 0..m
    BY FS_Interval
  <2>2. PICK S : S = 0..m
    OBVIOUS
  <2>3. IsFiniteSet(S \ {0})
    BY ONLY <2>1, <2>2, FS_Subset
  <2> QED
    BY <2>1, <2>2, <2>3
<1>2. SumFunctionOnSet(f, 0..m) = f[0] + SumFunctionOnSet(f, (0..m) \ {0})
  BY <1>1, SumStep
<1>3. SumFunctionOnSet(f, (0..m) \ {0}) = 0
  BY <1>1, SumZero
<1> QED
  BY <1>1, <1>2, <1>3

LEMMA StartStep ==
  ASSUME SpeedInv, NEW p \in Payload, Start(p)
  PROVE  SpeedInv'
<1>1. /\ ~started \/ since >= 2*interval
      /\ started' = TRUE /\ since' = 0 /\ tot_ippkt_len' = p /\ q' = q /\ Capture(p)
      /\ SpeedTypeOK
  BY DEF Start, SpeedInv
<1>2. /\ interval \in Nat /\ interval >= 1 /\ 0 \in 0..2*interval-1 /\ 0 \in 0..2*interval
  <2>1. interval \in Nat /\ interval >= 1 /\ 0 \in 0..2*interval-1
    BY ONLY <1>1, SpeedFacts
  <2> QED
    BY <2>1
<1>3. /\ p \in Int /\ past' \in [0..2*interval-1 -> Int] /\ past'[0] = past[0] + p
  BY <1>1, CaptureLemma
<1>4. past[0] = 0
  <2>1. since \in Nat
    BY ONLY <1>1, SpeedFacts
  <2>2. ~started \/ 0 <= since - interval
    BY <1>1, <1>2, <2>1
  <2>3. QuietSinceFull
    BY DEF SpeedInv
  <2> QED
    BY ONLY <1>2, <2>2, <2>3 DEF QuietSinceFull
<1>5. SpeedTypeOK'
  BY <1>1, <1>2, <1>3 DEF SpeedTypeOK
<1>6. QuietSinceFull'
  BY <1>1, <1>2 DEF QuietSinceFull
<1>7. WindowExact'
  <2>1. SumFunctionOnSet(past', 0..0) = past'[0]
    <3>1. \A n \in 0..0 : n = 0
      OBVIOUS
    <3>2. past'[0] \in Int
      BY <1>2, <1>3
    <3>3. (\A n \in 0..0 : past'[n] \in Int) /\ (\A n \in 0..0 : n # 0 => past'[n] = 0)
      BY <3>1, <3>2
    <3>4. PICK b : b = past'
      OBVIOUS
    <3>5. SumFunctionOnSet(b, 0..0) = b[0]
      BY ONLY <3>3, <3>4, 0 \in Nat, PresentOnly
    <3> QED
      BY ONLY <3>4, <3>5
  <2> QED
    BY <1>1, <1>3, <1>4, <2>1 DEF WindowExact
<1> QED
  BY <1>5, <1>6, <1>7 DEF SpeedInv

LEMMA CloseStep ==
  ASSUME SpeedInv, NEW p \in Payload, Close(p)
  PROVE  SpeedInv'
<1>1. /\ started /\ since < 2*interval /\ since >= interval
      /\ Sample(tot_ippkt_len) /\ since' = since - interval
      /\ tot_ippkt_len' = p /\ Capture(p) /\ started' = started
      /\ SpeedTypeOK
  BY DEF Close, SpeedInv
<1>2. /\ interval \in Nat /\ interval >= 1 /\ 0 \in 0..2*interval-1 /\ since \in Nat
      /\ tot_ippkt_len \in Int
  BY <1>1, SpeedFacts
<1>3. /\ p \in Int /\ past' \in [0..2*interval-1 -> Int] /\ past'[0] = past[0] + p
      /\ \A n \in 0..2*interval-1 : n # 0 => past'[n] = past[n]
  BY <1>1, CaptureLemma
<1>4. \A n \in 0..since' : past[n] = 0
  BY <1>1, FullWindow
<1>5. SpeedTypeOK'
  <2>1. q' \in Seq(Int) /\ Len(q') <= QUEUE_SIZE
    <3>1. q \in Seq(Int) /\ Len(q) <= QUEUE_SIZE /\ QUEUE_SIZE \in Nat /\ QUEUE_SIZE >= 2
      BY <1>1, SpeedAssumption DEF SpeedTypeOK
    <3>2. CASE Len(q) < QUEUE_SIZE
      BY <1>1, <1>2, <3>1, <3>2 DEF Sample
    <3>3. CASE ~(Len(q) < QUEUE_SIZE)
      <4>1. q # << >>
        BY <3>1, <3>3
      <4>2. Tail(q) \in Seq(Int) /\ Len(Tail(q)) = Len(q) - 1
        BY <3>1, <4>1
      <4>3. q' = Append(Tail(q), tot_ippkt_len)
        BY <1>1, <3>3 DEF Sample
      <4> QED
        BY <1>2, <3>1, <4>2, <4>3
    <3> QED
      BY <3>2, <3>3
  <2>2. since' \in 0..2*interval
    BY <1>1, <1>2
  <2> QED
    BY <1>1, <1>3, <2>1, <2>2 DEF SpeedTypeOK
<1>6. QuietSinceFull'
  BY <1>1, <1>2 DEF QuietSinceFull
<1>7. WindowExact'
  <2>1. since' \in Nat /\ since' <= 2*interval-1
    BY <1>1, <1>2
  <2>2. \A n \in 0..since' : n \in 0..2*interval-1
    BY <1>2, <2>1
  <2>3. (\A n \in 0..since' : past'[n] \in Int) /\ (\A n \in 0..since' : n # 0 => past'[n] = 0)
    BY <1>3, <1>4, <2>2
  <2>4. past'[0] = p
    BY <1>3, <1>4, <2>1
  <2>5. PICK b, m : b = past' /\ m = since'
    OBVIOUS
  <2>6. SumFunctionOnSet(b, 0..m) = b[0]
    BY ONLY <2>1, <2>3, <2>5, PresentOnly
  <2> QED
    BY <1>1, <2>4, <2>5, <2>6 DEF WindowExact
<1> QED
  BY <1>5, <1>6, <1>7 DEF SpeedInv

LEMMA CountStep ==
  ASSUME SpeedInv, NEW p \in Payload, CountPacket(p)
  PROVE  SpeedInv'
<1>1. /\ started /\ since < interval /\ tot_ippkt_len' = tot_ippkt_len + p /\ Capture(p)
      /\ started' = started /\ since' = since /\ q' = q /\ SpeedTypeOK
  BY DEF CountPacket, SpeedInv
<1>2. /\ interval \in Nat /\ interval >= 1 /\ 0 \in 0..2*interval-1 /\ since \in Nat
      /\ tot_ippkt_len \in Int /\ IsFiniteSet(0..since)
      /\ \A n \in 0..2*interval-1 : past[n] \in Int
  BY <1>1, SpeedFacts
<1>3. /\ p \in Int /\ past' \in [0..2*interval-1 -> Int] /\ past'[0] = past[0] + p
      /\ \A n \in 0..2*interval-1 : n # 0 => past'[n] = past[n]
  BY <1>1, CaptureLemma
<1>5. SpeedTypeOK'
  BY <1>1, <1>2, <1>3 DEF SpeedTypeOK
<1>6. QuietSinceFull'
  BY <1>1, <1>2 DEF QuietSinceFull
<1>7. WindowExact'
  <2>1. \A n \in 0..since : n \in 0..2*interval-1
    BY <1>1, <1>2
  <2>2. PICK a, b, S : a = past /\ b = past' /\ S = 0..since
    OBVIOUS
  <2>3. /\ \A n \in S : a[n] \in Int
        /\ \A n \in S : b[n] \in Int
        /\ \A n \in S \ {0} : b[n] = a[n]
        /\ IsFiniteSet(S) /\ 0 \in S
    BY <1>2, <1>3, <2>1, <2>2
  <2>4. SumFunctionOnSet(b, S) = SumFunctionOnSet(a, S) - a[0] + b[0]
    BY ONLY <2>3, SumExcept
  <2>5. tot_ippkt_len = SumFunctionOnSet(a, S)
    BY <1>1, <1>2, <2>2 DEF SpeedInv, WindowExact
  <2>6. a[0] \in Int /\ b[0] = a[0] + p
    BY <1>3, <2>2, <2>3
  <2> QED
    BY <1>1, <1>2, <1>3, <2>2, <2>4, <2>5, <2>6 DEF WindowExact
<1> QED
  BY <1>5, <1>6, <1>7 DEF SpeedInv

\* A tick moves the past one place on.
LEMMA ShiftLemma ==
  ASSUME NEW m \in Nat, NEW f, \A n \in 0..m : f[n] \in Int,
         NEW g, g[0] = 0, \A n \in 1..m+1 : g[n] = f[n-1]
  PROVE  SumFunctionOnSet(g, 0..m+1) = SumFunctionOnSet(f, 0..m)
<1> DEFINE P == {k \in Nat : k <= m => SumFunctionOnSet(g, 0..k+1) = SumFunctionOnSet(f, 0..k)}
<1>1. \A k \in Nat : IsFiniteSet(0..k) /\ k \in 0..k
  BY FS_Interval
<1>2. \A n \in 0..m+1 : g[n] \in Int
  <2> TAKE n \in 0..m+1
  <2>1. CASE n = 0
    BY <2>1
  <2>2. CASE n # 0
    <3>1. n \in 1..m+1 /\ n-1 \in 0..m
      BY <2>2
    <3> QED
      BY <3>1
  <2> QED
    BY <2>1, <2>2
<1>3. ASSUME NEW k \in Nat, k <= m
      PROVE  /\ SumFunctionOnSet(g, 0..k+1) = g[k+1] + SumFunctionOnSet(g, 0..k)
             /\ SumFunctionOnSet(g, 0..k) \in Int /\ SumFunctionOnSet(f, 0..k) \in Int
             /\ g[k+1] = f[k] /\ f[k] \in Int
  <2>1. IsFiniteSet(0..k+1) /\ IsFiniteSet(0..k) /\ k+1 \in 0..k+1 /\ (0..k+1) \ {k+1} = 0..k
    BY <1>1
  <2>2. \A n \in 0..k+1 : g[n] \in Int
    BY <1>2, <1>3
  <2>3. SumFunctionOnSet(g, 0..k+1) = g[k+1] + SumFunctionOnSet(g, (0..k+1) \ {k+1})
    BY ONLY <2>1, <2>2, SumStep
  <2>4. (\A n \in 0..k : g[n] \in Int) /\ (\A n \in 0..k : f[n] \in Int)
    BY <1>2, <1>3
  <2>5. SumFunctionOnSet(g, 0..k) \in Int /\ SumFunctionOnSet(f, 0..k) \in Int
    BY ONLY <2>1, <2>4, SumStep
  <2>6. k+1 \in 1..m+1 /\ (k+1)-1 = k /\ k \in 0..m
    BY <1>3
  <2>7. g[k+1] = f[k] /\ f[k] \in Int
    BY <2>6
  <2> QED
    BY <2>1, <2>3, <2>5, <2>7
<1>4. 0 \in P
  <2> SUFFICES ASSUME 0 <= m PROVE SumFunctionOnSet(g, 0..0+1) = SumFunctionOnSet(f, 0..0)
    OBVIOUS
  <2>1. 0..0 = {0} /\ {0} \ {0} = {}
    OBVIOUS
  <2>2. IsFiniteSet({0}) /\ IsFiniteSet({})
    BY FS_Singleton, FS_EmptySet, Zenon
  <2>3. f[0] \in Int /\ g[0] \in Int
    OBVIOUS
  <2>4. /\ SumFunctionOnSet(g, {0}) = g[0] + SumFunctionOnSet(g, {0} \ {0})
        /\ SumFunctionOnSet(f, {0}) = f[0] + SumFunctionOnSet(f, {0} \ {0})
    BY <2>2, <2>3, SumStep
  <2>5. SumFunctionOnSet(g, {}) = 0 /\ SumFunctionOnSet(f, {}) = 0
    BY <2>2, SumStep
  <2>6. SumFunctionOnSet(g, 0..0+1) = g[0+1] + SumFunctionOnSet(g, 0..0) /\ g[0+1] = f[0]
    BY <1>3
  <2> QED
    BY <2>1, <2>3, <2>4, <2>5, <2>6
<1>5. ASSUME NEW k \in Nat, k \in P PROVE k+1 \in P
  <2> SUFFICES ASSUME k+1 <= m
               PROVE  SumFunctionOnSet(g, 0..(k+1)+1) = SumFunctionOnSet(f, 0..k+1)
    OBVIOUS
  <2>1. SumFunctionOnSet(g, 0..k+1) = SumFunctionOnSet(f, 0..k)
    BY <1>5
  <2>2. /\ SumFunctionOnSet(g, 0..(k+1)+1) = g[(k+1)+1] + SumFunctionOnSet(g, 0..k+1)
        /\ g[(k+1)+1] = f[k+1] /\ f[k+1] \in Int
    BY <1>3
  <2>3. SumFunctionOnSet(f, 0..k+1) = f[k+1] + SumFunctionOnSet(f, 0..k)
    <3>1. IsFiniteSet(0..k+1) /\ k+1 \in 0..k+1 /\ (0..k+1) \ {k+1} = 0..k
      BY <1>1
    <3>2. \A n \in 0..k+1 : f[n] \in Int
      OBVIOUS
    <3>3. SumFunctionOnSet(f, 0..k+1) = f[k+1] + SumFunctionOnSet(f, (0..k+1) \ {k+1})
      BY ONLY <3>1, <3>2, SumStep
    <3> QED
      BY <3>1, <3>3
  <2> QED
    BY <2>1, <2>2, <2>3
<1> HIDE DEF P
<1>6. m \in P
  BY <1>4, <1>5, NatSetInduction
<1> QED
  BY <1>6 DEF P

LEMMA TickStep ==
  ASSUME SpeedInv, Tick
  PROVE  SpeedInv'
<1>1. /\ since' = IF started /\ since < 2*interval THEN since + 1 ELSE since
      /\ past' = [n \in DOMAIN past |-> IF n = 0 THEN 0 ELSE past[n - 1]]
      /\ started' = started /\ tot_ippkt_len' = tot_ippkt_len /\ q' = q /\ SpeedTypeOK
  BY DEF Tick, SpeedInv
<1>2. /\ interval \in Nat /\ interval >= 1 /\ 0 \in 0..2*interval-1 /\ since \in Nat
      /\ since <= 2*interval /\ \A n \in 0..2*interval-1 : past[n] \in Int
  BY <1>1, SpeedFacts
<1>3. /\ past' \in [0..2*interval-1 -> Int] /\ past'[0] = 0
      /\ \A n \in 1..2*interval-1 : past'[n] = past[n-1]
  <2>1. DOMAIN past = 0..2*interval-1
    BY <1>1 DEF SpeedTypeOK
  <2>2. \A n \in 0..2*interval-1 : n # 0 => n-1 \in 0..2*interval-1
    BY <1>2
  <2> QED
    BY <1>1, <1>2, <2>1, <2>2
<1>4. SpeedTypeOK'
  <2>1. since' \in 0..2*interval
    BY <1>1, <1>2
  <2> QED
    BY <1>1, <1>3, <2>1 DEF SpeedTypeOK
<1>5. QuietSinceFull'
  <2> SUFFICES ASSUME NEW n \in 0..2*interval-1, ~started' \/ n <= since' - interval
               PROVE  past'[n] = 0
    BY DEF QuietSinceFull
  <2>1. CASE n = 0
    BY <1>3, <2>1
  <2>2. CASE n # 0
    <3>1. n \in 1..2*interval-1 /\ n-1 \in 0..2*interval-1
      BY <1>2, <2>2
    <3>2. ~started \/ n-1 <= since - interval
      BY <1>1, <1>2
    <3> QED
      BY <1>3, <3>1, <3>2 DEF SpeedInv, QuietSinceFull
  <2> QED
    BY <2>1, <2>2
<1>6. WindowExact'
  <2> SUFFICES ASSUME started', since' < 2*interval
               PROVE  tot_ippkt_len' = SumFunctionOnSet(past', 0..since')
    BY DEF WindowExact
  <2>1. started /\ since < 2*interval /\ since' = since + 1 /\ since + 1 <= 2*interval-1
    BY <1>1, <1>2
  <2>2. PICK f, g, m : f = past /\ g = past' /\ m = since
    OBVIOUS
  <2>3. /\ m \in Nat /\ g[0] = 0
        /\ \A n \in 0..m : f[n] \in Int
        /\ \A n \in 1..m+1 : g[n] = f[n-1]
    BY <1>2, <1>3, <2>1, <2>2
  <2>4. SumFunctionOnSet(g, 0..m+1) = SumFunctionOnSet(f, 0..m)
    BY ONLY <2>3, ShiftLemma
  <2>5. tot_ippkt_len = SumFunctionOnSet(f, 0..m)
    BY <2>1, <2>2 DEF SpeedInv, WindowExact
  <2> QED
    BY <1>1, <2>1, <2>2, <2>4, <2>5
<1> QED
  BY <1>4, <1>5, <1>6 DEF SpeedInv
--------------------------------------------------------------------------------
(***************************************************************************)
(* The theorems of the rate meter                                           *)
(***************************************************************************)
LEMMA SpeedInitInv ==
  SpeedInit => SpeedInv
<1> SUFFICES ASSUME SpeedInit PROVE SpeedInv
  OBVIOUS
<1>1. /\ started = FALSE /\ since = 0 /\ tot_ippkt_len = 0 /\ q = << >>
      /\ past = [n \in 0..2*interval-1 |-> 0]
  BY DEF SpeedInit
<1>2. interval \in Nat /\ QUEUE_SIZE \in Nat
  BY SpeedAssumption
<1>3. SpeedTypeOK
  <2>1. << >> \in Seq(Int) /\ Len(<< >>) <= QUEUE_SIZE
    BY <1>2
  <2>2. 0 \in 0..2*interval /\ 0 \in Int
    BY <1>2
  <2>3. past \in [0..2*interval-1 -> Int]
    BY ONLY <1>1, <2>2
  <2>4. q \in Seq(Int) /\ Len(q) <= QUEUE_SIZE
    BY ONLY <1>1, <2>1
  <2> QED
    BY ONLY <1>1, <2>2, <2>3, <2>4 DEF SpeedTypeOK
<1> QED
  BY <1>1, <1>3 DEF SpeedInv, QuietSinceFull, WindowExact

LEMMA SpeedNextInv ==
  SpeedInv /\ [SpeedNext]_speedVars => SpeedInv'
<1> SUFFICES ASSUME SpeedInv, [SpeedNext]_speedVars PROVE SpeedInv'
  OBVIOUS
<1>1. ASSUME NEW p \in Payload, Start(p) PROVE SpeedInv'
  BY <1>1, StartStep
<1>2. ASSUME NEW p \in Payload, Close(p) PROVE SpeedInv'
  BY <1>2, CloseStep
<1>3. ASSUME NEW p \in Payload, CountPacket(p) PROVE SpeedInv'
  BY <1>3, CountStep
<1>4. CASE Tick
  BY <1>4, TickStep
<1>5. CASE UNCHANGED speedVars
  BY <1>5 DEF speedVars, SpeedInv, SpeedTypeOK, QuietSinceFull, WindowExact
<1> QED
  BY <1>1, <1>2, <1>3, <1>4, <1>5 DEF SpeedNext

\* Only a packet that closes a window changes the queue, and what it adds is the window.
LEMMA SampleStep ==
  ASSUME SpeedInv, [SpeedNext]_speedVars, q' # q
  PROVE  q'[Len(q')] = CapturedIn(since - interval + 1, since)
<1>1. PICK p \in Payload : Close(p)
  BY DEF SpeedNext, speedVars, Start, CountPacket, Tick
<1>2. /\ started /\ since < 2*interval /\ since >= interval /\ Sample(tot_ippkt_len)
      /\ SpeedTypeOK
  BY <1>1 DEF Close, SpeedInv
<1>3. tot_ippkt_len = SumFunctionOnSet(past, since - interval + 1 .. since)
  BY <1>2, FullWindow
<1>4. q'[Len(q')] = tot_ippkt_len
  <2>1. q \in Seq(Int) /\ QUEUE_SIZE \in Nat /\ QUEUE_SIZE >= 2 /\ tot_ippkt_len \in Int
    BY <1>2, SpeedAssumption DEF SpeedTypeOK
  <2>2. PICK r : r \in Seq(Int) /\ q' = Append(r, tot_ippkt_len)
    <3>1. CASE Len(q) < QUEUE_SIZE
      BY <1>2, <2>1, <3>1 DEF Sample
    <3>2. CASE ~(Len(q) < QUEUE_SIZE)
      <4>1. q # << >>
        BY <2>1, <3>2
      <4>2. Tail(q) \in Seq(Int)
        BY <2>1, <4>1
      <4> QED
        BY <1>2, <3>2, <4>2 DEF Sample
    <3> QED
      BY <3>1, <3>2
  <2>3. Len(Append(r, tot_ippkt_len)) = Len(r) + 1
        /\ Append(r, tot_ippkt_len)[Len(r) + 1] = tot_ippkt_len
    BY <2>1, <2>2
  <2> QED
    BY <2>2, <2>3
<1> QED
  BY <1>3, <1>4 DEF CapturedIn

\* The windows of the rate meter are typed, quiet and exact in every reachable state.
THEOREM SpeedInvariance == SpeedSpec => []SpeedInv
<1> QED
  BY SpeedInitInv, SpeedNextInv, PTL DEF SpeedSpec

\* handle_IP keeps no more than QUEUE_SIZE samples, and every variable its type.
THEOREM SpeedTypeCorrect == SpeedSpec => []SpeedTypeOK
<1>1. SpeedInv => SpeedTypeOK
  BY DEF SpeedInv
<1> QED
  BY <1>1, SpeedInvariance, PTL

\* However the packets come, a sample that handle_IP adds to the queue is the bytes of
\* one whole interval, the one that ends where the new window begins.
THEOREM WindowsCorrect == SpeedSpec => SampleIsOneWindow
<1>1. SpeedInv /\ [SpeedNext]_speedVars =>
        [q' # q => q'[Len(q')] = CapturedIn(since - interval + 1, since)]_speedVars
  BY SampleStep
<1> QED
  BY <1>1, SpeedInvariance, PTL DEF SpeedSpec, SampleIsOneWindow

\* The two loops of get_ratio find, in the samples sorted, a range that no other range
\* wide enough is denser than, for every queue of samples.
THEOREM RatioCorrect == SpeedSpec => []RatioFromDensestRange
<1>1. SpeedTypeOK => RatioFromDensestRange
  BY RatioLemma DEF SpeedTypeOK
<1> QED
  BY <1>1, SpeedTypeCorrect, PTL
================================================================================
