--------------------------- MODULE ToolCalls_proofs ---------------------------
(***************************************************************************)
(* For any texts in the place of the path arguments, and any keys: every   *)
(* request fits the template of the tool that sent it, and a path that     *)
(* fits another template as well breaks none of the promises.              *)
(***************************************************************************)
EXTENDS ToolCalls, FiniteSetTheorems, SequenceTheorems, WellFoundedInduction,
  TLAPS

Tools == ReadTools \cup WriteTools

\* Texts that are segments that a URL resolves or cuts off, or the one that no template
\* takes.
UnsafeTexts == {Empty, ".", "..", "?"}

Unsafe == {<<text>> : text \in UnsafeTexts}

\* What there may be between two slashes, escaped or not.
Parts ==
  STRING \cup {"%3F"} \cup UNION {{tool.path[i] : i \in DOMAIN tool.path} : tool \in Tools}

\* What one segment of a request may be.
Plain == (Seq(Parts) \ {<<>>}) \ Unsafe

PlainPath(path) == path \in Seq(Plain)

\* No path fits both templates.
Apart(template, other) ==
  \/ Len(template) # Len(other)
  \/ \E i \in DOMAIN template : template[i] # Id /\ other[i] # Id /\ template[i] # other[i]

LEMMA ApartMeansApart ==
  ASSUME NEW template, NEW other, NEW path,
         Matches(template, path), Matches(other, path),
         DOMAIN template = 1..Len(template), DOMAIN path = 1..Len(path)
  PROVE  ~Apart(template, other)
<1> SUFFICES ASSUME Apart(template, other) PROVE FALSE
  OBVIOUS
<1>1. Len(template) = Len(path) /\ Len(other) = Len(path)
  BY DEF Matches
<1>2. PICK i \in 1..Len(path) :
         template[i] # Id /\ other[i] # Id /\ template[i] # other[i]
  BY <1>1 DEF Apart
<1>3. path[i] = <<template[i]>> /\ path[i] = <<other[i]>>
  BY <1>2 DEF Matches
<1> QED  BY <1>2, <1>3

-------------------------------------------------------------------------------
(* Induction, and the helpers on sequences. *)

\* A set of numbers has a least one: the initial segments of its members are finite sets,
\* which strict inclusion orders well.
LEMMA LeastNumber ==
  ASSUME NEW T, T \subseteq Nat, T # {}
  PROVE  \E x \in T : \A y \in T : x <= y
<1> DEFINE F == {0..x : x \in T}
<1>1. F \subseteq FiniteSubsetsOf(Nat) /\ F # {}
  <2>1. ASSUME NEW x \in T PROVE 0..x \in SUBSET Nat /\ IsFiniteSet(0..x)
    BY FS_Interval
  <2>2. F \subseteq FiniteSubsetsOf(Nat)
    BY <2>1 DEF FiniteSubsetsOf
  <2> QED  BY <2>2
<1>2. PICK U \in F : \A V \in F : ~(<<V, U>> \in StrictSubsetOrdering(Nat))
  <2> HIDE DEF F
  <2> QED  BY <1>1, WFMin, FS_StrictSubsetOrderingWellFounded
<1>3. PICK x \in T : U = 0..x  OBVIOUS
<1>4. ASSUME NEW y \in T, ~(x <= y) PROVE FALSE
  <2>1. 0..y \in F /\ 0..y \subseteq 0..x /\ x \in 0..x /\ x \notin 0..y
    BY <1>4
  <2>2. <<0..y, 0..x>> \in StrictSubsetOrdering(Nat)
    BY <2>1 DEF StrictSubsetOrdering
  <2> QED  BY <2>1, <2>2, <1>2, <1>3
<1> QED  BY <1>4

\* Induction up to n, on a set instead of a predicate.
LEMMA Upwards ==
  ASSUME NEW n \in Nat, NEW G, 0 \in G, \A i \in 1..n : i - 1 \in G => i \in G
  PROVE  0..n \subseteq G
<1> DEFINE T == {i \in 0..n : i \notin G}
<1> SUFFICES ASSUME T # {} PROVE FALSE  OBVIOUS
<1>1. PICK x \in T : \A y \in T : x <= y
  <2>1. T \subseteq Nat
    OBVIOUS
  <2> HIDE DEF T
  <2> QED  BY <2>1, LeastNumber
<1>2. x \in 1..n /\ x - 1 \in 0..n /\ x - 1 \in Nat
  OBVIOUS
<1>3. x - 1 \in G
  BY <1>1, <1>2
<1> QED  BY <1>2, <1>3

\* Prefixes grow by one element.
LEMMA OneByOne ==
  ASSUME NEW S, NEW s \in Seq(S), NEW i \in 1..Len(s)
  PROVE  /\ SubSeq(s, 1, i) = SubSeq(s, 1, i - 1) \o <<s[i]>>
         /\ SubSeq(s, 1, i - 1) \in Seq(S)
         /\ SubSeq(s, 1, i - 1) \o <<s[i]>> = Append(SubSeq(s, 1, i - 1), s[i])
         /\ i = 1 => SubSeq(s, 1, i) = <<s[i]>> /\ SubSeq(s, 1, i - 1) = <<>>
<1>1. 1 \in 1..Len(s) /\ i \in 1..Len(s) /\ Len(s) \in Nat /\ s[i] \in S
  BY LenProperties, ElementOfSeq
<1>2. SubSeq(s, 1, i) = SubSeq(s, 1, i - 1) \o <<s[i]>>
  BY <1>1, SubSeqRecursiveSecond
<1>3. SubSeq(s, 1, i - 1) \in Seq(S)
  BY <1>1, SubSeqProperties
<1>4. Append(SubSeq(s, 1, i - 1), s[i]) = SubSeq(s, 1, i - 1) \o <<s[i]>>
  BY <1>1, <1>3, AppendIsConcat
<1>5. ASSUME i = 1 PROVE SubSeq(s, 1, i) = <<s[i]>> /\ SubSeq(s, 1, i - 1) = <<>>
  <2>1. SubSeq(s, 1, i - 1) = <<>>
    BY <1>5, SubSeqEmpty
  <2>2. <<s[i]>> \in Seq(S)
    BY <1>1
  <2> QED  BY <2>1, <2>2, <1>2, ConcatEmptySeq
<1> QED  BY <1>2, <1>3, <1>4, <1>5

\* Flattening undoes the splitting into singletons.
LEMMA FlattenSingles ==
  ASSUME NEW S, NEW s \in Seq(S)
  PROVE  FlattenSeq([i \in DOMAIN s |-> <<s[i]>>]) = s
<1> DEFINE singles == [i \in DOMAIN s |-> <<s[i]>>]
<1>1. Len(s) \in Nat /\ Len(singles) = Len(s) /\ DOMAIN singles = 1..Len(s)
  BY LenProperties
<1>2. CASE Len(s) = 0
  <2>1. s = <<>> /\ singles = <<>>
    BY <1>1, <1>2
  <2>2. FlattenSeq(singles) = singles
    BY <1>1, <1>2 DEF FlattenSeq
  <2> QED  BY <2>1, <2>2
<1>3. CASE Len(s) # 0
  <2> DEFINE Eqn(f) == f = [i \in 1..Len(singles) |->
                 IF i = 1 THEN singles[i] ELSE f[i - 1] \o singles[i]]
             prefixes == [i \in 1..Len(s) |-> SubSeq(s, 1, i)]
  <2>1. Eqn(prefixes)
    <3>1. ASSUME NEW i \in 1..Len(s)
          PROVE prefixes[i] = IF i = 1 THEN singles[i] ELSE prefixes[i - 1] \o singles[i]
      <4>1. singles[i] = <<s[i]>>
        OBVIOUS
      <4>2. CASE i = 1
        BY <4>1, <4>2, OneByOne
      <4>3. CASE i # 1
        <5>1. i - 1 \in 1..Len(s)
          BY <4>3
        <5>2. prefixes[i] = SubSeq(s, 1, i) /\ prefixes[i - 1] = SubSeq(s, 1, i - 1)
          BY <5>1
        <5> HIDE DEF prefixes, singles
        <5> QED  BY <5>2, <4>1, <4>3, OneByOne
      <4> QED  BY <4>2, <4>3
    <3> QED BY <3>1, <1>1
  <2>2. ASSUME NEW f, Eqn(f) PROVE f[Len(s)] = s
    <3> DEFINE G == {i \in 0..Len(s) : i # 0 => f[i] = SubSeq(s, 1, i)}
    <3>1. \A i \in 1..Len(s) : f[i] = IF i = 1 THEN <<s[i]>> ELSE f[i - 1] \o <<s[i]>>
      BY <2>2, <1>1
    <3>2. ASSUME NEW i \in 1..Len(s), i - 1 \in G PROVE i \in G
      <4>1. CASE i = 1
        <5>1. f[i] = SubSeq(s, 1, i)
          BY <4>1, <3>1, OneByOne
        <5> QED  BY <5>1
      <4>2. CASE i # 1
        <5>1. f[i - 1] = SubSeq(s, 1, i - 1)
          BY <4>2, <3>2
        <5>2. f[i] = f[i - 1] \o <<s[i]>> /\ SubSeq(s, 1, i) = SubSeq(s, 1, i - 1) \o <<s[i]>>
          BY <4>2, <3>1, OneByOne
        <5> QED  BY <5>1, <5>2
      <4> QED  BY <4>1, <4>2
    <3>3. Len(s) \in G
      <4>1. 0 \in G /\ Len(s) \in Nat /\ Len(s) \in 0..Len(s)
        OBVIOUS
      <4> HIDE DEF G
      <4> QED BY <4>1, <3>2, Upwards
    <3> QED BY <3>3, <1>3
  <2>3. FlattenSeq(singles) = (CHOOSE f : Eqn(f))[Len(s)]
    BY <1>1, <1>3 DEF FlattenSeq
  <2>4. Eqn(CHOOSE f : Eqn(f))
    BY <2>1
  <2> QED
    <3> HIDE DEF Eqn
    <3> QED BY <2>2, <2>3, <2>4
<1> QED  BY <1>2, <1>3

LEMMA FlattenThree ==
  ASSUME NEW S, NEW s \in Seq(Seq(S)), Len(s) = 3
  PROVE  FlattenSeq(s) = (s[1] \o s[2]) \o s[3]
<1> DEFINE Eqn(f) == f = [i \in 1..Len(s) |-> IF i = 1 THEN s[i] ELSE f[i - 1] \o s[i]]
           sums == [i \in 1..Len(s) |-> IF i = 1 THEN s[1]
                                        ELSE IF i = 2 THEN s[1] \o s[2]
                                        ELSE (s[1] \o s[2]) \o s[3]]
<1>1. Eqn(sums)
  <2>1. ASSUME NEW i \in 1..Len(s)
        PROVE  sums[i] = IF i = 1 THEN s[i] ELSE sums[i - 1] \o s[i]
    <3>1. i = 1 \/ i = 2 \/ i = 3
      OBVIOUS
    <3>2. /\ sums[1] = s[1]
          /\ sums[2] = s[1] \o s[2]
          /\ sums[3] = (s[1] \o s[2]) \o s[3]
      OBVIOUS
    <3> HIDE DEF sums
    <3>3. CASE i = 1
      BY <3>2, <3>3
    <3>4. CASE i = 2
      <4>1. i - 1 = 1 /\ i # 1
        BY <3>4
      <4> QED  BY <3>2, <3>4, <4>1
    <3>5. CASE i = 3
      <4>1. i - 1 = 2 /\ i # 1
        BY <3>5
      <4> QED  BY <3>2, <3>5, <4>1
    <3> QED  BY <3>1, <3>3, <3>4, <3>5
  <2> QED  BY <2>1
<1>2. FlattenSeq(s) = (CHOOSE f : Eqn(f))[3]
  BY DEF FlattenSeq
<1>3. Eqn(CHOOSE f : Eqn(f))
  BY <1>1
<1>4. ASSUME NEW f, Eqn(f) PROVE f[3] = (s[1] \o s[2]) \o s[3]
  <2>1. \A i \in 1..3 : f[i] = IF i = 1 THEN s[i] ELSE f[i - 1] \o s[i]
    BY <1>4
  <2>2. f[1] = s[1] /\ f[2] = f[1] \o s[2] /\ f[3] = f[2] \o s[3]
    BY <2>1
  <2> QED  BY <2>2
<1> QED
  <2> HIDE DEF Eqn
  <2> QED  BY <1>2, <1>3, <1>4

LEMMA PlainPathType ==
  ASSUME NEW path, PlainPath(path)
  PROVE  /\ path \in Seq(Plain)
         /\ Len(path) \in Nat
         /\ DOMAIN path = 1..Len(path)
         /\ \A i \in 1..Len(path) :
              path[i] \in Plain /\ path[i] \notin Unsafe
<1>1. path \in Seq(Plain)
  BY DEF PlainPath
<1>2. Len(path) \in Nat /\ DOMAIN path = 1..Len(path)
  BY <1>1, LenProperties
<1>3. \A i \in 1..Len(path) : path[i] \in Plain
  BY <1>1, <1>2, ElementOfSeq
<1> QED  BY <1>1, <1>2, <1>3 DEF Plain

\* new URL() keeps a plain path.
LEMMA PlainPathStays ==
  ASSUME NEW path, PlainPath(path)
  PROVE  Resolved(path) = path
<1> DEFINE n == Len(path)
           Eqn(f) == f = [i \in 0..n |-> IF i = 0 THEN <<>> ELSE Climb(f[i - 1], path[i])]
           prefixes == [i \in 0..n |-> SubSeq(path, 1, i)]
<1>1. /\ n \in Nat
      /\ DOMAIN path = 1..n
      /\ path \in Seq(Plain)
      /\ \A i \in 1..n : path[i] \notin Unsafe
  BY PlainPathType
<1>2. ASSUME NEW i \in 1..n, NEW prefix, prefix = SubSeq(path, 1, i - 1)
      PROVE  Climb(prefix, path[i]) = SubSeq(path, 1, i)
  <2>1. path[i] \notin {<<".">>, <<"..">>}
    BY <1>1 DEF Unsafe, UnsafeTexts
  <2>2. SubSeq(path, 1, i) = Append(prefix, path[i])
    BY <1>1, <1>2, OneByOne
  <2> QED  BY <2>1, <2>2 DEF Climb
<1>3. SubSeq(path, 1, 0) = <<>> /\ SubSeq(path, 1, n) = path
  BY <1>1, SubSeqEmpty, SubSeqFull
<1>4. Resolved(path) = (CHOOSE f : Eqn(f))[n]
  <2>1. {i \in DOMAIN path : path[i] = <<"?">>} = {}
    BY <1>1 DEF Unsafe, UnsafeTexts
  <2> QED  BY <2>1 DEF Resolved
<1>5. Eqn(prefixes)
  <2>1. ASSUME NEW i \in 0..n
        PROVE  prefixes[i] = IF i = 0 THEN <<>> ELSE Climb(prefixes[i - 1], path[i])
    <3>1. CASE i = 0
      BY <3>1, <1>3
    <3>2. CASE i # 0
      <4>1. i \in 1..n /\ i - 1 \in 0..n
        BY <1>1, <3>2
      <4>2. prefixes[i - 1] = SubSeq(path, 1, i - 1) /\ prefixes[i] = SubSeq(path, 1, i)
        BY <4>1
      <4> HIDE DEF prefixes, n
      <4> QED  BY <3>2, <4>1, <4>2, <1>2
    <3> QED  BY <3>1, <3>2
  <2> QED  BY <2>1
<1>6. ASSUME NEW f, Eqn(f) PROVE f[n] = path
  <2> DEFINE G == {i \in 0..n : f[i] = SubSeq(path, 1, i)}
  <2>1. \A i \in 0..n : f[i] = IF i = 0 THEN <<>> ELSE Climb(f[i - 1], path[i])
    BY <1>6
  <2>2. 0 \in G
    <3>1. 0 \in 0..n
      BY <1>1
    <3>2. f[0] = <<>>
      BY <3>1, <2>1
    <3> QED  BY <3>1, <3>2, <1>3
  <2>3. ASSUME NEW i \in 1..n, i - 1 \in G PROVE i \in G
    <3>1. f[i] = Climb(f[i - 1], path[i]) /\ f[i - 1] = SubSeq(path, 1, i - 1)
      BY <1>1, <2>1, <2>3
    <3>2. f[i] = SubSeq(path, 1, i)
      BY <3>1, <1>2
    <3> QED  BY <1>1, <3>2
  <2>4. n \in G
    <3> HIDE DEF G
    <3> QED  BY <1>1, <2>2, <2>3, Upwards
  <2> QED  BY <2>4, <1>3
<1> QED
  <2>1. Eqn(CHOOSE f : Eqn(f))
    BY <1>5
  <2> HIDE DEF Eqn
  <2> QED  BY <2>1, <1>4, <1>6

LEMMA IntervalMax ==
  ASSUME NEW n \in Nat
  PROVE  {0} \cup 1..n = 0..n /\ Max(0..n) = n
<1>1. {0} \cup 1..n = 0..n
  OBVIOUS
<1>2. n \in 0..n /\ \A y \in 0..n : n >= y
  OBVIOUS
<1>3. \A x \in 0..n : x >= n => x = n
  OBVIOUS
<1> QED  BY <1>1, <1>2, <1>3 DEF Max

\* A plain path has no slashes to trim.
LEMMA NothingToTrim ==
  ASSUME NEW path, PlainPath(path)
  PROVE  TrimSlashes(path) = path
<1> DEFINE ends == {0} \cup {i \in DOMAIN path : path[i] # <<Empty>>}
<1>1. /\ Len(path) \in Nat /\ DOMAIN path = 1..Len(path)
      /\ \A i \in 1..Len(path) : path[i] # <<Empty>>
  BY PlainPathType DEF Unsafe, UnsafeTexts
<1>2. ends = 0..Len(path)
  <2>1. {i \in DOMAIN path : path[i] # <<Empty>>} = 1..Len(path)
    BY <1>1
  <2>2. {0} \cup 1..Len(path) = 0..Len(path)
    BY <1>1, IntervalMax
  <2> QED  BY <2>1, <2>2
<1>3. Max(ends) = Len(path)
  BY <1>1, <1>2, IntervalMax
<1> QED  BY <1>3, PlainPathType, SubSeqFull DEF TrimSlashes

\* encodeSegment makes one plain segment of every text it accepts, of a text without a
\* slash one without a slash.
LEMMA OneSegment ==
  ASSUME NEW text \in Texts, SegmentAccepted(text)
  PROVE  \E segment \in Plain :
           /\ EncodeURIComponent(text) = <<segment>>
           /\ Len(text) = 1 => Len(segment) = 1
<1>1. text \in Seq(Parts) \ {<<>>}
  BY TextsAreParts DEF Parts
<1>2. CASE text = <<"?">>
  <2>1. EncodeURIComponent(text) = << <<"%3F">> >>
    BY <1>2 DEF EncodeURIComponent
  <2>2. "%3F" \notin UnsafeTexts
    BY DEF UnsafeTexts, Empty
  <2>3. <<"%3F">> \notin Unsafe
    BY <2>2 DEF Unsafe
  <2>4. "%3F" \in Parts
    BY DEF Parts
  <2>5. <<"%3F">> \in Plain /\ Len(<<"%3F">>) = 1
    BY <2>3, <2>4 DEF Plain
  <2> QED  BY <2>1, <2>5
<1>3. CASE text # <<"?">>
  <2>1. EncodeURIComponent(text) = <<text>>
    BY <1>3 DEF EncodeURIComponent
  <2>2. text \notin Unsafe
    BY <1>3 DEF Unsafe, UnsafeTexts, SegmentAccepted, TraversalTokens
  <2> QED  BY <1>1, <2>1, <2>2 DEF Plain
<1> QED  BY <1>2, <1>3

\* Every placeholder has its argument.
LEMMA ArgumentsCounted ==
  ASSUME NEW path, Len(path) \in Nat, NEW i \in 1..Len(path), path[i] = Id
  PROVE  ArgumentsUpTo(path, i) \in 1..ArgumentsUpTo(path, Len(path))
<1> DEFINE upTo(k) == {j \in 1..k : path[j] = Id}
<1>1. IsFiniteSet(1..Len(path))
  BY FS_Interval
<1>2. upTo(i) \subseteq upTo(Len(path)) /\ upTo(Len(path)) \subseteq 1..Len(path)
  OBVIOUS
<1>3. IsFiniteSet(upTo(Len(path))) /\ upTo(i) \subseteq upTo(Len(path))
  BY <1>1, <1>2, FS_Subset
<1>4. IsFiniteSet(upTo(i)) /\ Cardinality(upTo(i)) <= Cardinality(upTo(Len(path)))
  BY <1>3, FS_Subset
<1>5. Cardinality(upTo(i)) \in Nat /\ Cardinality(upTo(Len(path))) \in Nat
  BY <1>3, <1>4, FS_CardinalityType
<1>6. Cardinality(upTo(i)) # 0
  <2>1. i \in upTo(i)
    OBVIOUS
  <2> QED  BY <1>4, <2>1, FS_EmptySet
<1> QED  BY <1>4, <1>5, <1>6 DEF ArgumentsUpTo

-------------------------------------------------------------------------------
(* Facts about the catalogues, by looking at every row. *)

USE DEF WriteTools, ReadTools, Row, Tool, Idempotent, ReturnsSecret, Read, Asking,
  ServiceNameTools, ServiceDeployTools, ServiceSizeTools, ServiceTermTools,
  ServiceMediaTools, ServicePowerTools, ServiceRebuildTools, ServiceSshKeyTools,
  ServiceTagTools, RegistryTools, RegistryCredentialTools, RegistryImageTools,
  RegistryClusterTools, RegistryManifestTools, ProxyOrderTools, ProxyAuthTools,
  ProxyWhitelistTools, ProxyRequestTools, ProxyRotationTools, DomainOrderTools,
  DomainTermTools, DomainRecordTools, DomainManageTools, FirewallTools, FirewallAttachTools,
  LoadBalancerTools, BucketTools, BucketKeyTools, VolumeTools, NetworkTools,
  ReservedIpTools, ClusterPoolTools, ClusterAccessTools, AccountTools, AccountContactTools,
  BillingTools, TicketTools, LimitTools, SnapshotTools, SmtpTools, ReverseDnsTools,
  SandboxTools, SandboxRunTools, ServiceReads, ServiceOptionReads, OrderChecks,
  ClusterReads, LimitReads, AccountReads, InvoiceReads, BillingReads, ProductReads,
  CatalogReads, RegistryReads, RegistryImageReads, ProxyReads, ProxyChecks, SandboxReads,
  ApiAccessReads, DomainReads, InfraReads, StorageReads, OrderReads, ReverseDnsReads,
  SmtpReads, SnapshotReads, TicketReads

\* A template holds texts that are safe as segments.
LEMMA TemplateTexts ==
  ASSUME NEW tool \in Tools
  PROVE  /\ Len(tool.path) \in Nat
         /\ DOMAIN tool.path = 1..Len(tool.path)
         /\ \A i \in DOMAIN tool.path : tool.path[i] \notin UnsafeTexts
<1>1. Len(tool.path) \in Nat
  BY SMTT(60) DEF Tools
<1>2. DOMAIN tool.path = 1..Len(tool.path)
  BY SMTT(60) DEF Tools
<1>3. \A i \in DOMAIN tool.path : tool.path[i] \notin UnsafeTexts
  <2>1. CASE tool \in ReadTools
    BY <2>1, SMTT(60) DEF UnsafeTexts, Empty, Id
  <2>2. CASE tool \in WriteTools
    BY <2>2, SMTT(60) DEF UnsafeTexts, Empty, Id
  <2> QED  BY <2>1, <2>2 DEF Tools
<1> QED  BY <1>1, <1>2, <1>3

\* Its literal segments are plain.
LEMMA TemplatesArePlain ==
  ASSUME NEW tool \in Tools
  PROVE  /\ Len(tool.path) \in Nat
         /\ DOMAIN tool.path = 1..Len(tool.path)
         /\ \A i \in DOMAIN tool.path : <<tool.path[i]>> \in Plain
<1> HIDE DEF ReadTools, WriteTools
<1>1. ASSUME NEW i \in DOMAIN tool.path PROVE <<tool.path[i]>> \in Plain
  <2>1. tool.path[i] \notin UnsafeTexts /\ tool.path[i] \in Parts
    BY TemplateTexts DEF Parts
  <2>2. <<tool.path[i]>> \notin Unsafe
    BY <2>1 DEF Unsafe
  <2> QED  BY <2>1, <2>2 DEF Plain
<1> QED  BY <1>1, TemplateTexts

\* Write tools that share a method are on one route or on routes apart.
LEMMA WriteRoutesApart ==
  ASSUME NEW tool \in WriteTools, NEW other \in WriteTools, tool.method = other.method
  PROVE  tool.path = other.path \/ Apart(tool.path, other.path)
BY SMTT(60) DEF Apart, Id

\* Write tools that share a method and a route are one tool.
LEMMA WriteRoutesDiffer ==
  ASSUME NEW tool \in WriteTools, NEW other \in WriteTools, tool.method = other.method,
         tool.path = other.path
  PROVE  tool.name = other.name
BY SMTT(60)

\* No read is on a route that writes.
LEMMA ReadRoutesApart ==
  ASSUME NEW tool \in ReadTools, NEW other \in WriteTools, tool.method = other.method
  PROVE  Apart(tool.path, other.path)
BY SMTT(60) DEF Apart, Id

\* What is below /registry/repositories: the tools on a repository and on a part of one.
RepositoryTools == {"get_registry_repository", "delete_registry_repository"}

PartTools ==
  {"list_registry_tag_vulnerabilities", "delete_registry_tag", "delete_registry_manifest"}

LEMMA OnlyTheseBelowRepositories ==
  ASSUME NEW tool \in Tools, tool.name \notin RepositoryTools \cup PartTools
  PROVE  \/ Len(tool.path) \in {1, 2}
         \/ tool.path[1] \notin {Id, "registry"}
         \/ tool.path[2] \notin {Id, "repositories"}
<1>1. CASE tool \in ReadTools
  BY <1>1, SMTT(60) DEF RepositoryTools, PartTools, Id
<1>2. CASE tool \in WriteTools
  BY <1>2, SMTT(60) DEF RepositoryTools, PartTools, Id
<1> QED
  <2> HIDE DEF ReadTools, WriteTools
  <2> QED  BY <1>1, <1>2 DEF Tools

LEMMA WritersDoNotGet ==
  ASSUME NEW tool \in WriteTools
  PROVE  tool.method # "GET"
BY SMTT(60)

LEMMA RepositoryReadersGet ==
  ASSUME NEW tool \in Tools,
         tool.name \in {"get_registry_repository", "list_registry_tag_vulnerabilities"}
  PROVE  tool.method = "GET"
BY SMTT(60) DEF Tools

\* The word before the last argument names the kind of the part.
PartWord(tool) == IF tool.name = "delete_registry_tag" THEN "tags" ELSE "manifests"

LEMMA PartDeletersRows ==
  ASSUME NEW tool \in Tools, tool.name \in {"delete_registry_tag", "delete_registry_manifest"}
  PROVE  /\ tool.method = "DELETE"
         /\ Len(tool.path) = 5
         /\ tool.path[4] = PartWord(tool) /\ tool.path[5] = Id
         /\ tool.path[1] = "registry" /\ tool.path[2] = "repositories" /\ tool.path[3] = Id
<1>1. CASE tool \in ReadTools
  BY <1>1, SMTT(60)
<1>2. CASE tool \in WriteTools
  BY <1>2, SMTT(60) DEF PartWord
<1> QED
  <2> HIDE DEF ReadTools, WriteTools
  <2> QED  BY <1>1, <1>2 DEF Tools

\* No other tool deletes a part of a repository.
LEMMA OnePartDeleter ==
  ASSUME NEW tool \in WriteTools, tool.method = "DELETE", tool.path[1] \in {Id, "registry"}
  PROVE  /\ Len(tool.path) # 6
         /\ Len(tool.path) = 5 /\ tool.path[4] \in {Id, "tags"}
              => tool.name = "delete_registry_tag"
         /\ Len(tool.path) = 5 /\ tool.path[4] \in {Id, "manifests"}
              => tool.name = "delete_registry_manifest"
<1>1. Len(tool.path) # 6
  BY SMTT(60) DEF Id
<1>2. Len(tool.path) = 5 /\ tool.path[4] \in {Id, "tags"} => tool.name = "delete_registry_tag"
  BY SMTT(60) DEF Id
<1>3. Len(tool.path) = 5 /\ tool.path[4] \in {Id, "manifests"}
        => tool.name = "delete_registry_manifest"
  BY SMTT(60) DEF Id
<1> QED
  <2> HIDE DEF WriteTools
  <2> QED  BY <1>1, <1>2, <1>3

\* Tools of one name are on one route.
LEMMA NamesAreRoutes ==
  ASSUME NEW tool \in WriteTools, NEW other \in WriteTools, tool.name = other.name,
         tool.name \in {"delete_registry_tag", "delete_registry_manifest"}
  PROVE  tool.path = other.path
BY SMTT(60)

\* No tool is on the route of the switch.
LEMMA SwitchRoutesApart ==
  ASSUME NEW tool \in Tools, tool.method = "PUT", NEW owner \in {"services", "domains"}
  PROVE  Apart(tool.path, <<owner, Id, "api-access">>)
BY SMTT(60) DEF Tools, Apart, Id

\* Only a write tool is idempotent, with a POST.
LEMMA IdempotentToolsPost ==
  ASSUME NEW tool \in Tools, tool.idempotent
  PROVE  tool.method = "POST" /\ tool \in WriteTools
BY SMTT(60) DEF Tools

LEMMA ReadersDeleteNothing ==
  ASSUME NEW tool \in ReadTools
  PROVE  tool.name \notin {"delete_registry_tag", "delete_registry_manifest"}
BY SMTT(60)

LEMMA ReadsAreUnkeyed ==
  ASSUME NEW tool \in ReadTools
  PROVE  ~tool.idempotent
BY SMTT(60)

\* A POST of any other tool goes to no route that honours a key.
LEMMA UnkeyedRoutesApart ==
  ASSUME NEW tool \in Tools, tool.method = "POST", ~tool.idempotent,
         NEW template \in IDEMPOTENT_POST_ROUTES
  PROVE  Apart(tool.path, template)
BY SMTT(60) DEF Tools, Apart, Id, IDEMPOTENT_POST_ROUTES

\* No tool whose answers hold no credential is on the route of one whose answers do:
\* reads among themselves, writes among themselves, then all of them.
LEMMA SecretReadsApart ==
  ASSUME NEW tool \in ReadTools, NEW other \in ReadTools, tool.method = other.method,
         ~tool.secret, other.secret
  PROVE  Apart(tool.path, other.path)
BY SMTT(60) DEF Apart, Id

LEMMA SecretWritesApart ==
  ASSUME NEW tool \in WriteTools, NEW other \in WriteTools, tool.method = other.method,
         ~tool.secret, other.secret
  PROVE  Apart(tool.path, other.path)
BY SMTT(60) DEF Apart, Id

LEMMA SecretRoutesApart ==
  ASSUME NEW tool \in Tools, NEW other \in Tools, tool.method = other.method,
         ~tool.secret, other.secret
  PROVE  Apart(tool.path, other.path)
<1>1. CASE tool \in ReadTools /\ other \in ReadTools
  <2> HIDE DEF ReadTools
  <2> QED  BY <1>1, SecretReadsApart
<1>2. CASE tool \in ReadTools /\ other \in WriteTools
  <2> HIDE DEF ReadTools, WriteTools
  <2> QED  BY <1>2, ReadRoutesApart
<1>3. CASE tool \in WriteTools /\ other \in ReadTools
  BY <1>3, SMTT(60) DEF Apart, Id
<1>4. CASE tool \in WriteTools /\ other \in WriteTools
  <2> HIDE DEF WriteTools
  <2> QED  BY <1>4, SecretWritesApart
<1> QED
  <2> HIDE DEF ReadTools, WriteTools
  <2> QED  BY <1>1, <1>2, <1>3, <1>4 DEF Tools

HIDE DEF WriteTools, ReadTools

-------------------------------------------------------------------------------
(* The request of a call. *)

\* With every argument accepted, the path of a request is its tool's template with one
\* safe segment for each argument, and new URL() keeps it.
LEMMA BuildsItsRoute ==
  ASSUME NEW tool \in Tools, NEW texts \in [1..Arity(tool) -> Texts],
         \A i \in DOMAIN texts : SegmentAccepted(texts[i])
  PROVE  /\ PlainPath(BuildPath(tool, texts))
         /\ Matches(tool.path, BuildPath(tool, texts))
         /\ Resolved(BuildPath(tool, texts)) = BuildPath(tool, texts)
         /\ \A n \in 1..Len(tool.path) :
              n = Len(tool.path) /\ tool.path[n] = Id /\ Len(texts[Arity(tool)]) = 1
              => Len(BuildPath(tool, texts)[n]) = 1
<1> DEFINE n == Len(tool.path)
           text(i) == texts[ArgumentsUpTo(tool.path, i)]
           Encoded(i, s) == /\ EncodeURIComponent(text(i)) = <<s>>
                            /\ Len(text(i)) = 1 => Len(s) = 1
           segment(i) == IF tool.path[i] = Id THEN CHOOSE s \in Plain : Encoded(i, s)
                         ELSE <<tool.path[i]>>
           path == [i \in 1..n |-> segment(i)]
<1>1. n \in Nat /\ DOMAIN tool.path = 1..n /\ \A i \in 1..n : <<tool.path[i]>> \in Plain
  BY TemplatesArePlain
<1>2. ASSUME NEW i \in 1..n, tool.path[i] = Id
      PROVE  segment(i) \in Plain /\ Encoded(i, segment(i))
  <2>1. ArgumentsUpTo(tool.path, i) \in 1..Arity(tool)
    BY <1>1, <1>2, ArgumentsCounted DEF Arity
  <2>2. text(i) \in Texts /\ SegmentAccepted(text(i))
    BY <2>1
  <2>3. \E s \in Plain : Encoded(i, s)
    BY <2>2, OneSegment
  <2> HIDE DEF Encoded
  <2> QED  BY <1>2, <2>3
<1>3. ASSUME NEW i \in 1..n
      PROVE  /\ segment(i) \in Plain
             /\ tool.path[i] = Id \/ segment(i) = <<tool.path[i]>>
             /\ <<segment(i)>> = IF tool.path[i] = Id THEN EncodeURIComponent(text(i))
                                 ELSE << <<tool.path[i]>> >>
  <2>1. CASE tool.path[i] = Id
    BY <1>2, <2>1
  <2>2. CASE tool.path[i] # Id
    BY <1>1, <2>2
  <2> QED  BY <2>1, <2>2
<1> HIDE DEF segment
<1>4. /\ DOMAIN path = 1..n
      /\ \A i \in 1..n : path[i] = segment(i)
      /\ path \in Seq(Plain)
      /\ Len(path) = n
  <2>1. path \in [1..n -> Plain]
    BY <1>3
  <2> QED  BY <1>1, <2>1
<1>5. BuildPath(tool, texts) = path
  <2>1. [i \in DOMAIN tool.path |-> IF tool.path[i] = Id THEN EncodeURIComponent(text(i))
                                    ELSE << <<tool.path[i]>> >>]
          = [i \in DOMAIN path |-> <<path[i]>>]
    BY <1>1, <1>3, <1>4
  <2> HIDE DEF path
  <2>2. FlattenSeq([i \in DOMAIN path |-> <<path[i]>>]) = path
    BY <1>4, FlattenSingles
  <2> QED  BY <2>1, <2>2 DEF BuildPath
<1>6. PlainPath(path)
  BY <1>4 DEF PlainPath
<1>7. Matches(tool.path, path)
  <2>1. ASSUME NEW i \in 1..n
        PROVE  path[i] # <<Empty>> /\ (tool.path[i] = Id \/ path[i] = <<tool.path[i]>>)
    BY <1>3, <1>4 DEF Plain, Unsafe, UnsafeTexts
  <2> HIDE DEF path
  <2> QED  BY <1>4, <2>1 DEF Matches
<1>8. ASSUME NEW k \in 1..n, k = n, tool.path[k] = Id, Len(texts[Arity(tool)]) = 1
      PROVE  Len(path[k]) = 1
  <2>1. Len(text(k)) = 1
    BY <1>8 DEF Arity
  <2>2. Len(segment(k)) = 1
    BY <1>2, <1>8, <2>1
  <2> QED  BY <1>4, <1>8, <2>2
<1> HIDE DEF path, n
<1>9. Resolved(path) = path
  BY <1>6, PlainPathStays
<1> QED  BY <1>5, <1>6, <1>7, <1>8, <1>9 DEF n

\* The inductive invariant: a request is its tool's own, on a path that fits the tool's
\* template, with a key where both the tool and the path ask for one; what it deletes of a
\* repository has a name without a slash.
RequestInv ==
  outcome # None =>
    /\ outcome.tool \in Tools
    /\ outcome.request # None =>
         /\ Request.method = outcome.tool.method
         /\ PlainPath(Request.path)
         /\ Matches(outcome.tool.path, Request.path)
         /\ outcome.tool.name \in {"delete_registry_tag", "delete_registry_manifest"} =>
              Len(Request.path[5]) = 1
         /\ Request.keyed <=> outcome.tool.idempotent /\ isIdempotentPostPath(Request.path)

LEMMA RequestInvStep ==
  ASSUME RequestInv, [Next]_outcome
  PROVE  RequestInv'
<1>1. CASE FinishCall
  BY <1>1 DEF FinishCall, RequestInv
<1>2. ASSUME NEW tool \in WriteTools, NEW key, NEW confirm, NEW valid,
             NEW texts \in [1..Arity(tool) -> Texts], HandleCall(tool, texts, key, confirm, valid)
      PROVE  RequestInv'
  <2> DEFINE call == CallOf(tool, texts, key, confirm, valid)
  <2>1. tool \in Tools
    BY DEF Tools
  <2>2. outcome' = [tool |-> tool,
                    request |-> IF Refusal(call) = "NONE" THEN RequestOf(tool, texts, call)
                                ELSE None]
    BY <1>2 DEF HandleCall
  <2>3. ASSUME Refusal(call) = "NONE" PROVE \A i \in DOMAIN texts : SegmentAccepted(texts[i])
    BY <2>3 DEF Refusal, CallOf
  <2>5. ASSUME Refusal(call) = "NONE",
               tool.name \in {"delete_registry_tag", "delete_registry_manifest"}
        PROVE  Len(BuildPath(tool, texts)[5]) = 1
    <3>1. valid
      BY <2>5 DEF Refusal, CallOf, InputAccepted, DomainArgumentsParse
    <3>2. Len(texts[Arity(tool)]) = 1
      BY <1>2, <2>5, <3>1 DEF HandleCall, SchemaAccepts
    <3>3. Len(tool.path) = 5 /\ tool.path[5] = Id
      BY <2>1, <2>5, PartDeletersRows
    <3>4. 5 \in 1..Len(tool.path)
      BY <3>3
    <3> QED  BY <2>1, <2>3, <2>5, <3>2, <3>3, <3>4, BuildsItsRoute
  <2>4. Keyed(call) <=> tool.idempotent /\ isIdempotentPostPath(BuildPath(tool, texts))
    BY DEF Keyed, CallOf
  <2> HIDE DEF call
  <2> QED  BY <2>1, <2>2, <2>3, <2>4, <2>5, BuildsItsRoute DEF RequestInv, Request, RequestOf
<1>3. ASSUME NEW tool \in ReadTools, NEW valid,
             NEW texts \in [1..Arity(tool) -> Texts], HandleRead(tool, texts, valid)
      PROVE  RequestInv'
  <2>1. tool \in Tools /\ ~tool.idempotent
    BY ReadsAreUnkeyed DEF Tools
  <2>2. tool.name \notin {"delete_registry_tag", "delete_registry_manifest"}
    BY ReadersDeleteNothing
  <2> QED  BY <1>3, <2>1, <2>2, BuildsItsRoute DEF HandleRead, RequestInv, Request
<1>4. CASE UNCHANGED outcome
  BY <1>4 DEF RequestInv, Request
<1> QED
  BY <1>1, <1>2, <1>3, <1>4 DEF Next

LEMMA RequestInvHolds == Spec => []RequestInv
<1>1. Init => RequestInv
  BY DEF Init, RequestInv
<1> QED  BY <1>1, RequestInvStep, PTL DEF Spec

\* Two templates that one path fits are not apart.
LEMMA OnlyOneRouteFits ==
  ASSUME RequestInv, Sent, NEW other, Matches(other, Request.path)
  PROVE  ~Apart(outcome.tool.path, other)
<1>1. outcome.tool \in Tools /\ PlainPath(Request.path) /\ Matches(outcome.tool.path, Request.path)
  BY DEF RequestInv, Sent, Request
<1>2. /\ DOMAIN outcome.tool.path = 1..Len(outcome.tool.path)
      /\ DOMAIN Request.path = 1..Len(Request.path)
  BY <1>1, TemplatesArePlain, PlainPathType
<1> QED  BY <1>1, <1>2, ApartMeansApart

-------------------------------------------------------------------------------
(* Where the API takes a request. *)

\* Only below /registry/repositories does the API undo the escaping.
LEMMA NothingElseIsDecoded ==
  ASSUME RequestInv, Sent, outcome.tool.name \notin RepositoryTools \cup PartTools
  PROVE  Landings(Request.path) = {Request.path}
<1> DEFINE path == Request.path
           own == outcome.tool.path
<1>1. outcome.tool \in Tools /\ PlainPath(path) /\ Matches(own, path)
  BY DEF RequestInv, Sent, Request
<1>2. /\ path \in Seq(Plain) /\ Len(path) \in Nat /\ DOMAIN path = 1..Len(path)
      /\ Len(own) = Len(path)
  BY <1>1, PlainPathType DEF Matches
<1>3. CASE Len(own) \in {1, 2}
  <2> HIDE DEF path, own
  <2>1. Len(path) = 1 \/ Len(path) = 2
    BY <1>2, <1>3
  <2>2. Len(path) < 3
    BY <1>2, <2>1
  <2> QED  BY <2>2 DEF Landings, path
<1>4. CASE Len(path) >= 3 /\ (own[1] \notin {Id, "registry"} \/ own[2] \notin {Id, "repositories"})
  <2> DEFINE start == SubSeq(path, 1, 2)
  <2>1. start[1] = path[1] /\ start[2] = path[2]
    BY <1>2, <1>4
  <2>2. 1 \in DOMAIN path /\ 2 \in DOMAIN path
    BY <1>2, <1>4
  <2>3. /\ own[1] \notin {Id, "registry"} => path[1] = <<own[1]>> /\ own[1] # "registry"
        /\ own[2] \notin {Id, "repositories"} => path[2] = <<own[2]>> /\ own[2] # "repositories"
    BY <1>1, <2>2 DEF Matches
  <2>4. path[1] # <<"registry">> \/ path[2] # <<"repositories">>
    BY <1>4, <2>3
  <2>5. Repositories[1] = <<"registry">> /\ Repositories[2] = <<"repositories">>
    BY DEF Repositories
  <2> HIDE DEF start, path, own
  <2>6. start # Repositories
    BY <2>1, <2>4, <2>5
  <2> QED  BY <2>6 DEF Landings, start, path
<1>5. CASE Len(path) < 3 /\ Len(own) \notin {1, 2}
  BY <1>2, <1>5 DEF Landings
<1> QED
  <2> HIDE DEF path, own
  <2>1. \/ Len(own) \in {1, 2}
        \/ own[1] \notin {Id, "registry"}
        \/ own[2] \notin {Id, "repositories"}
    BY <1>1, OnlyTheseBelowRepositories DEF own
  <2> QED  BY <1>2, <1>3, <1>4, <1>5, <2>1 DEF path

\* The route of a part has the repository as one segment, and the parts behind it.
LEMMA PartRouteShape ==
  ASSUME NEW name \in Seq(Parts), NEW sub \in SubResources, EndsLike(name, sub)
  PROVE  /\ Len(sub) \in 2..3 /\ DOMAIN sub = 1..Len(sub)
         /\ Len(PartRoute(name, sub)) = 3 + Len(sub)
         /\ DOMAIN PartRoute(name, sub) = 1..(3 + Len(sub))
         /\ PartRoute(name, sub)[1] = <<"registry">>
         /\ PartRoute(name, sub)[4] = <<name[Len(name) - Len(sub) + 1]>>
<1> DEFINE repository == SubSeq(name, 1, Len(name) - Len(sub))
           parts == [i \in DOMAIN sub |-> <<name[Len(name) - Len(sub) + i]>>]
           before == Repositories \o <<repository>>
<1>1. Len(sub) \in 2..3 /\ DOMAIN sub = 1..Len(sub)
  BY DEF SubResources
<1>2. Len(before) = 3 /\ before[1] = <<"registry">> /\ DOMAIN before = 1..3
  <2> HIDE DEF repository
  <2> QED  BY DEF Repositories
<1>3. Len(parts) = Len(sub) /\ parts[1] = <<name[Len(name) - Len(sub) + 1]>>
  BY <1>1
<1>4. DEFINE S == {before[i] : i \in 1..3} \cup {parts[i] : i \in 1..Len(sub)}
<1>5. before \in Seq(S)
  <2>1. before = [i \in 1..3 |-> before[i]]
    <3> HIDE DEF repository
    <3> QED  BY <1>2 DEF Repositories
  <2> HIDE DEF before, parts
  <2> QED  BY <2>1
<1>6. parts \in Seq(S)
  <2>1. parts \in [1..Len(sub) -> S]
    BY <1>1
  <2> QED  BY <1>1, <2>1
<1> HIDE DEF before, parts, S
<1>7. /\ Len(before \o parts) = 3 + Len(sub)
      /\ DOMAIN (before \o parts) = 1..(3 + Len(sub))
      /\ (before \o parts)[1] = before[1]
      /\ (before \o parts)[4] = parts[1]
  <2>1. /\ before \o parts \in Seq(S)
        /\ Len(before \o parts) = Len(before) + Len(parts)
        /\ \A i \in 1..Len(before) + Len(parts) :
             (before \o parts)[i] = IF i <= Len(before) THEN before[i] ELSE parts[i - Len(before)]
    BY <1>5, <1>6, ConcatProperties
  <2>2. Len(before) + Len(parts) = 3 + Len(sub) /\ 1 \in 1..3 + Len(sub) /\ 4 \in 1..3 + Len(sub)
    BY <1>1, <1>2, <1>3
  <2>3. (before \o parts)[1] = before[1]
    BY <1>2, <2>1, <2>2
  <2>4. (before \o parts)[4] = parts[1]
    BY <1>2, <2>1, <2>2
  <2> QED  BY <2>1, <2>2, <2>3, <2>4, LenProperties
<1> QED  BY <1>1, <1>2, <1>3, <1>7 DEF PartRoute, before, parts, repository

\* A tag or digest has no slash, so the API finds the word before it where the tool put it:
\* a deletion of a part lands on its own route, whatever the repository is called.
LEMMA PartsLandAtHome ==
  ASSUME RequestInv, Sent,
         outcome.tool.name \in {"delete_registry_tag", "delete_registry_manifest"},
         NEW landing \in Landings(Request.path),
         NEW tool \in WriteTools, tool.method = "DELETE", Matches(tool.path, landing)
  PROVE  tool.path = outcome.tool.path
<1> DEFINE path == Request.path
           own == outcome.tool
           word == PartWord(own)
           rest == SubSeq(path, 3, Len(path))
           name == FlattenSeq(rest)
           L == Len(path[3])
<1>1. own \in Tools /\ PlainPath(path) /\ Matches(own.path, path) /\ Len(path[5]) = 1
  BY DEF RequestInv, Sent, Request
<1>2. /\ Len(own.path) = 5
      /\ own.path[1] = "registry" /\ own.path[2] = "repositories" /\ own.path[4] = word
  BY <1>1, PartDeletersRows
<1>3. word = IF own.name = "delete_registry_tag" THEN "tags" ELSE "manifests"
  BY DEF PartWord
<1> HIDE DEF own, word, path, rest, name, L
<1>4. path \in Seq(Plain) /\ Len(path) = 5 /\ DOMAIN path = 1..5
  BY <1>1, <1>2, PlainPathType DEF Matches
<1>5. path[1] = <<"registry">> /\ path[2] = <<"repositories">> /\ path[4] = <<word>>
  <2>1. \A i \in 1..5 : own.path[i] = Id \/ path[i] = <<own.path[i]>>
    BY <1>1, <1>4 DEF Matches
  <2> QED  BY <1>2, <1>3, <2>1 DEF Id
<1>6. \A i \in 1..5 : path[i] \in Seq(Parts) /\ path[i] # <<>>
  BY <1>1, <1>4, PlainPathType DEF Plain
<1>7. L \in Nat /\ L > 0
  <2>1. path[3] \in Seq(Parts) /\ path[3] # <<>>
    BY <1>6
  <2> QED  BY <2>1 DEF L
<1>8. SubSeq(path, 1, 2) = Repositories
  <2> DEFINE start == SubSeq(path, 1, 2)
  <2>1. start \in Seq(Plain) /\ Len(start) = 2 /\ start[1] = path[1] /\ start[2] = path[2]
    <3>1. \A i \in 1..2 : path[i] \in Plain
      <4>1. \A i \in 1..5 : path[i] \in Plain
        BY <1>1, <1>4, PlainPathType
      <4> QED  BY <4>1
    <3>2. \A i \in 1..(2 - 1 + 1) : start[i] = path[1 + i - 1]
      BY <3>1, SubSeqProperties
    <3>3. start \in Seq(Plain) /\ Len(start) = 2
      BY <3>1, SubSeqProperties
    <3> QED  BY <3>2, <3>3
  <2> HIDE DEF start
  <2>2. DOMAIN start = 1..2 /\ start = [i \in 1..2 |-> start[i]]
    BY <2>1
  <2>3. <<path[1], path[2]>> = [i \in 1..2 |-> start[i]]
    BY <2>1
  <2> QED  BY <1>5, <2>2, <2>3 DEF Repositories, start
<1>9. name = (path[3] \o <<word>>) \o path[5]
  <2>1. /\ rest \in Seq(Seq(Parts)) /\ Len(rest) = 3
        /\ rest[1] = path[3] /\ rest[2] = path[4] /\ rest[3] = path[5]
    <3>1. \A i \in 3..5 : path[i] \in Seq(Parts)
      BY <1>6
    <3>2. rest = SubSeq(path, 3, 5)
      BY <1>4 DEF rest
    <3>3. rest \in Seq(Seq(Parts)) /\ Len(rest) = 3
      BY <3>1, <3>2, SubSeqProperties
    <3>4. \A i \in 1..(5 - 3 + 1) : rest[i] = path[3 + i - 1]
      BY <3>1, <3>2, SubSeqProperties
    <3> QED  BY <3>3, <3>4
  <2> QED  BY <1>5, <2>1, FlattenThree DEF name
<1>10. name \in Seq(Parts) /\ Len(name) = L + 2 /\ name[L + 1] = word
  <2>1. path[3] \in Seq(Parts) /\ path[5] \in Seq(Parts) /\ <<word>> \in Seq(Parts)
    BY <1>5, <1>6
  <2> DEFINE front == path[3] \o <<word>>
  <2>2. front \in Seq(Parts) /\ Len(front) = L + 1 /\ front[L + 1] = word
    BY <1>7, <2>1, ConcatProperties DEF L
  <2> HIDE DEF front
  <2>3. name = front \o path[5]
    BY <1>9 DEF front
  <2> DEFINE back == path[5]
  <2>4. back \in Seq(Parts) /\ Len(back) = 1 /\ name = front \o back
    BY <1>1, <2>1, <2>3
  <2> HIDE DEF back
  <2>5. /\ name \in Seq(Parts) /\ Len(name) = Len(front) + Len(back)
        /\ \A i \in 1..Len(front) + Len(back) :
             name[i] = IF i <= Len(front) THEN front[i] ELSE back[i - Len(front)]
    BY <2>2, <2>4, ConcatProperties
  <2>6. Len(front) + Len(back) = L + 2 /\ L + 1 \in 1..L + 2 /\ L + 1 <= Len(front)
    BY <1>7, <2>2, <2>4
  <2>7. name[L + 1] = front[L + 1]
    BY <2>5, <2>6
  <2> QED  BY <2>2, <2>5, <2>6, <2>7
<1>11. EndsLike(name, <<word, Id>>) /\ <<word, Id>> \in SubResources
  <2>1. Len(name) > 2 /\ name[Len(name) - 2 + 1] = word
    BY <1>7, <1>10
  <2>2. EndsLike(name, <<word, Id>>)
    BY <2>1 DEF EndsLike
  <2> QED  BY <1>3, <2>2 DEF SubResources
<1>12. PICK sub \in SubResources : EndsLike(name, sub) /\ landing = PartRoute(name, sub)
  <2>1. landing \in Landings(path)
    BY DEF path
  <2> QED  BY <1>4, <1>8, <1>11, <2>1 DEF Landings, name, rest
<1>13. /\ Len(sub) \in 2..3 /\ DOMAIN sub = 1..Len(sub)
       /\ Len(landing) = 3 + Len(sub) /\ DOMAIN landing = 1..(3 + Len(sub))
       /\ landing[1] = <<"registry">>
       /\ landing[4] = <<name[Len(name) - Len(sub) + 1]>>
  BY <1>10, <1>12, PartRouteShape
<1>14. /\ Len(tool.path) = 3 + Len(sub)
       /\ tool.path[1] \in {Id, "registry"}
       /\ tool.path[4] = Id \/ landing[4] = <<tool.path[4]>>
  <2> DEFINE last == 3 + Len(sub)
  <2>1. 1 \in DOMAIN landing /\ 4 \in DOMAIN landing
    <3>1. last \in Int /\ last >= 4 /\ DOMAIN landing = 1..last
      BY <1>13
    <3> HIDE DEF last
    <3> QED  BY <3>1
  <2>2. \A i \in DOMAIN landing : tool.path[i] = Id \/ landing[i] = <<tool.path[i]>>
    BY DEF Matches
  <2>3. tool.path[1] = Id \/ landing[1] = <<tool.path[1]>>
    BY <2>1, <2>2
  <2>4. tool.path[4] = Id \/ landing[4] = <<tool.path[4]>>
    BY <2>1, <2>2
  <2>5. Len(tool.path) = Len(landing)
    BY DEF Matches
  <2>6. tool.path[1] \in {Id, "registry"}
    BY <1>13, <2>3
  <2> QED  BY <1>13, <2>4, <2>5, <2>6
<1>15. Len(sub) = 2
  <2>1. Len(tool.path) # 6
    BY <1>14, OnePartDeleter
  <2>2. Len(sub) # 3
    <3> SUFFICES ASSUME Len(sub) = 3  PROVE FALSE
      OBVIOUS
    <3>1. Len(tool.path) = 3 + 3
      BY <1>14
    <3>2. 3 + 3 = 6
      OBVIOUS
    <3> QED  BY <2>1, <3>1, <3>2, Zenon
  <2>3. Len(sub) = 2 \/ Len(sub) = 3
    BY <1>13
  <2> QED  BY <2>2, <2>3
<1>16. sub[1] = word /\ tool.path[4] \in {Id, word} /\ Len(tool.path) = 5
  <2>1. Len(name) - Len(sub) + 1 = L + 1
    BY <1>7, <1>10, <1>15
  <2>2. sub[1] \in {Id, word}
    BY <1>10, <1>12, <1>13, <1>15, <2>1 DEF EndsLike
  <2>3. sub[1] # Id
    BY DEF SubResources, Id
  <2> QED  BY <1>10, <1>13, <1>14, <1>15, <2>1, <2>2, <2>3
<1>17. tool.name = own.name
  BY <1>3, <1>14, <1>16, OnePartDeleter DEF own
<1>18. own \in WriteTools
  BY <1>1, ReadersDeleteNothing DEF Tools, own
<1> QED  BY <1>17, <1>18, NamesAreRoutes DEF own

-------------------------------------------------------------------------------
(* What holds of every request. *)

\* A request goes to its own tool's route and to no route where another tool writes, in
\* its URL and where the API takes it, with the one exception that RouteIsItsOwn names
\* (encodeSegment in tools/factories.ts, repo in tools/registry.ts).
THEOREM RoutesKept == Spec => []RouteIsItsOwn
<1>1. RequestInv => RouteIsItsOwn
  <2> SUFFICES ASSUME RequestInv, Sent,
                      NEW tool \in WriteTools, NEW landing \in Landings(Request.path),
                      tool.method = Request.method, Matches(tool.path, landing),
                      landing = Request.path \/ outcome.tool.name # "delete_registry_repository"
               PROVE  tool.path = outcome.tool.path
    BY DEF RouteIsItsOwn, RequestInv, Sent, Request
  <2>1. outcome.tool \in Tools /\ outcome.tool.method = tool.method
    BY DEF RequestInv, Sent, Request
  <2>2. CASE landing = Request.path
    <3>1. ~Apart(outcome.tool.path, tool.path)
      BY <2>2, OnlyOneRouteFits
    <3>2. CASE outcome.tool \in ReadTools
      BY <2>1, <3>1, <3>2, ReadRoutesApart
    <3>3. CASE outcome.tool \in WriteTools
      BY <2>1, <3>1, <3>3, WriteRoutesApart
    <3> QED  BY <2>1, <3>2, <3>3 DEF Tools
  <2>3. CASE landing # Request.path
    <3>1. outcome.tool.name \in RepositoryTools \cup PartTools
      BY <2>3, NothingElseIsDecoded
    <3>2. outcome.tool.name
            \notin {"get_registry_repository", "list_registry_tag_vulnerabilities"}
      BY <2>1, RepositoryReadersGet, WritersDoNotGet
    <3>3. outcome.tool.name \in {"delete_registry_tag", "delete_registry_manifest"}
      BY <2>3, <3>1, <3>2 DEF RepositoryTools, PartTools
    <3>4. tool.method = "DELETE"
      BY <2>1, <3>3, PartDeletersRows
    <3> QED  BY <3>3, <3>4, PartsLandAtHome
  <2> QED  BY <2>2, <2>3
<1> QED  BY <1>1, RequestInvHolds, PTL

\* What a request is names the tool that wrote it, whatever their arguments: no two write
\* tools have a method and a path in common (tools/*-write.ts).
THEOREM RequestsNameTheirTools ==
  \A tool \in WriteTools, other \in WriteTools :
    \A texts \in [1..Arity(tool) -> Texts], others \in [1..Arity(other) -> Texts] :
      /\ \A i \in DOMAIN texts : SegmentAccepted(texts[i])
      /\ \A i \in DOMAIN others : SegmentAccepted(others[i])
      /\ tool.method = other.method
      /\ Resolved(BuildPath(tool, texts)) = Resolved(BuildPath(other, others))
      => tool.name = other.name
<1> SUFFICES ASSUME NEW tool \in WriteTools, NEW other \in WriteTools,
                    NEW texts \in [1..Arity(tool) -> Texts],
                    NEW others \in [1..Arity(other) -> Texts],
                    \A i \in DOMAIN texts : SegmentAccepted(texts[i]),
                    \A i \in DOMAIN others : SegmentAccepted(others[i]),
                    tool.method = other.method,
                    Resolved(BuildPath(tool, texts)) = Resolved(BuildPath(other, others))
             PROVE  tool.name = other.name
  OBVIOUS
<1> DEFINE path == BuildPath(tool, texts)
<1>1. tool \in Tools /\ other \in Tools
  BY DEF Tools
<1>2. PlainPath(path) /\ Matches(tool.path, path) /\ Matches(other.path, path)
  BY <1>1, BuildsItsRoute
<1>3. DOMAIN path = 1..Len(path) /\ DOMAIN tool.path = 1..Len(tool.path)
  BY <1>1, <1>2, PlainPathType, TemplatesArePlain
<1> HIDE DEF path
<1>4. ~Apart(tool.path, other.path)
  BY <1>2, <1>3, ApartMeansApart
<1>5. tool.path = other.path
  BY <1>4, WriteRoutesApart
<1> QED  BY <1>5, WriteRoutesDiffer

\* No call reaches the switch that makes a resource read-only for agents (README, "API
\* access").
THEOREM SwitchNotReached == Spec => []SwitchOutOfReach
<1>1. RequestInv => SwitchOutOfReach
  <2> SUFFICES ASSUME RequestInv, Sent, NEW owner \in {"services", "domains"},
                      Request.method = "PUT",
                      Matches(<<owner, Id, "api-access">>, Request.path)
               PROVE  FALSE
    BY DEF SwitchOutOfReach
  <2>1. outcome.tool \in Tools /\ outcome.tool.method = "PUT"
    BY DEF RequestInv, Sent, Request
  <2>2. ~Apart(outcome.tool.path, <<owner, Id, "api-access">>)
    BY OnlyOneRouteFits
  <2> QED  BY <2>1, <2>2, SwitchRoutesApart
<1> QED  BY <1>1, RequestInvHolds, PTL

\* A request carries a key exactly when it is a POST to a route of idempotency.ts: the
\* `idempotent` flags of the catalogue agree with that list.
THEOREM KeysWhereHonoured == Spec => []KeyExactlyWhereHonoured
<1>1. RequestInv => KeyExactlyWhereHonoured
  <2> SUFFICES ASSUME RequestInv, Sent
               PROVE  Request.keyed <=>
                        Request.method = "POST" /\ isIdempotentPostPath(Request.path)
    BY DEF KeyExactlyWhereHonoured
  <2>1. /\ outcome.tool \in Tools
        /\ outcome.tool.method = Request.method
        /\ PlainPath(Request.path)
        /\ Request.keyed <=> outcome.tool.idempotent /\ isIdempotentPostPath(Request.path)
    BY DEF RequestInv, Sent, Request
  <2>2. ASSUME Request.method = "POST", isIdempotentPostPath(Request.path)
        PROVE  outcome.tool.idempotent
    <3>1. PICK template \in IDEMPOTENT_POST_ROUTES : Matches(template, Request.path)
      BY <2>1, <2>2, NothingToTrim DEF isIdempotentPostPath
    <3>2. ~Apart(outcome.tool.path, template)
      BY <3>1, OnlyOneRouteFits
    <3> QED  BY <2>1, <2>2, <3>2, UnkeyedRoutesApart
  <2> QED  BY <2>1, <2>2, IdempotentToolsPost
<1> QED  BY <1>1, RequestInvHolds, PTL

\* A request to a route that answers with a credential comes from a tool that is marked
\* (README: "Credentials are marked").
THEOREM CredentialsMarked == Spec => []CredentialsComeMarked
<1>1. RequestInv => CredentialsComeMarked
  <2> SUFFICES ASSUME RequestInv, Sent,
                      NEW tool \in Tools, tool.secret, tool.method = Request.method,
                      Matches(tool.path, Request.path)
               PROVE  outcome.tool.secret
    BY DEF CredentialsComeMarked, Tools
  <2>1. outcome.tool \in Tools /\ outcome.tool.method = tool.method
    BY DEF RequestInv, Sent, Request
  <2>2. ~Apart(outcome.tool.path, tool.path)
    BY OnlyOneRouteFits
  <2> QED  BY <2>1, <2>2, SecretRoutesApart
<1> QED  BY <1>1, RequestInvHolds, PTL

==============================================================================
