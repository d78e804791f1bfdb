---------------------------- MODULE CodecProofs ----------------------------
(***************************************************************************)
(* What Kata believes of what comes from outside, for every input: AWS's   *)
(* answers and messages, the status server's peers, the boot's self-test,  *)
(* Fleet's commands however they are repeated, delayed and mixed, and the  *)
(* files that are sealed for it.                                           *)
(***************************************************************************)
EXTENDS Outside, SelfTest, FleetCommands, SequenceLemmas

-----------------------------------------------------------------------------
(* Answers, messages and peers: what is believed is what was checked.      *)

\* sqs_send_batch calls an entry sent only when what SQS stored is its body, however the answer is
\* mixed up, so a job whose result was lost or spoilt is never deleted.
THEOREM SendsMeanStored ==
  ASSUME NEW c, NEW S, NEW sent \in Seq(S), NEW stored, NEW a
  PROVE  SentMeansStored(c, sent, stored, a)
<1> DEFINE ok == sqs_send_batch(c, sent, a).ok
           good == InLimits(sent) /\ Answered(c, a)
<1>1. ok = [i \in 0..Len(sent) - 1 |-> good /\ Listed(i, sent[i + 1].body, a)]
  BY DEF sqs_send_batch
<1>2. sqs_send_batch(c, sent, a).rc = IF good THEN 0 ELSE -1
  BY DEF sqs_send_batch
<1>3. ASSUME Honest(stored, a), NEW i \in DOMAIN ok, ok[i]
      PROVE  good /\ i \in DOMAIN stored /\ stored[i] = sent[i + 1].body
  <2>1. good /\ Listed(i, sent[i + 1].body, a)
    BY <1>1, <1>3, Zenon
  <2>2. PICK e \in Range(a.successful) : e.id = i /\ e.md5 = sent[i + 1].body
    BY <2>1 DEF Listed
  <2> QED
    BY <1>3, <2>1, <2>2 DEF Honest
<1>4. ASSUME Honest(stored, a), NEW i \in DOMAIN ok, good, i \in DOMAIN stored, stored[i] = sent[i + 1].body,
             \E e \in Range(a.successful) : e.id = i
      PROVE  ok[i]
  BY <1>1, <1>4 DEF Honest, Listed
<1> HIDE DEF ok, good
<1> QED
  BY <1>2, <1>3, <1>4 DEF SentMeansStored, ok

\* Deletes and hides count only as far as SQS lists them.
THEOREM DeletesMeanListed ==
  ASSUME NEW c, NEW n, NEW deleted, NEW a
  PROVE  DeletedMeansListed(c, n, deleted, a)
  BY DEF DeletedMeansListed, receipt_batch

\* creds_refresh lets a phase go on only with credentials that will not expire under it; after a
\* failure there are the old ones, or fetched ones that are as good as expired.
THEOREM CredentialsGood ==
  ASSUME NEW c, NEW when \in Int, NEW provisioned, NEW a, c.expires \in Int, a.expires \in Int,
         RefreshMargin \in Int, UseMargin \in Int, UseMargin <= RefreshMargin
  PROVE  CredsGood(c, when, provisioned, a)
<1>1. creds_fresh(c, when, RefreshMargin) => creds_fresh(c, when, UseMargin)
  BY DEF creds_fresh
<1>2. Parses(a) /\ ~creds_fresh(creds_parse(c, a), when, UseMargin)
        => creds_parse(c, a).token # None /\ creds_parse(c, a).expires <= when + UseMargin
  BY DEF Parses, creds_parse, creds_fresh
<1>3. ~Parses(a) => creds_parse(c, a) = c
  BY DEF creds_parse
<1> QED
  BY <1>1, <1>2, <1>3 DEF CredsGood, creds_refresh, Refreshed

\* open_job's codes.
LEMMA Codes == -2 # 0 /\ -1 # 0 /\ -2 # -1
  OBVIOUS

\* A result's envelope and an embedded job are such as Cal's serde reads, but for the one reading of
\* numbers in which cJSON is the wider.
THEOREM MessagesStrictAsCal ==
  ASSUME NEW m, m.env.is \in [EnvelopeFields -> Kinds], m.job.is \in [JobFields -> Kinds],
         m.env.s3.is \in {"absent", "null", "object", "other"}, m.age \in {"ok", "no memory", "fails"}
  PROVE  StrictAsCal(m)
<1> DEFINE r == arrive(m)
<1>1. r.verdict = "KEEP" => parse_strict(m.env) /\ envelope_fields_ok(m.env)
  BY DEF arrive, Later, Drop
<1>3. /\ open_job(m.job) = 0 => parse_strict(m.job) /\ job_fields_ok(m.job) /\ m.job.same_uuid /\ m.job.known_role
      /\ open_job(m.job) = -2 => ~m.job.memory \/ ~m.job.tokenises
      /\ open_job(m.job) \in {0, -1, -2}
  BY Codes, Zenon DEF open_job
<1>4. /\ r = Embeds => m.age = "ok" /\ open_job(m.job) = 0
      /\ r = Later => ~m.env.memory \/ m.age = "no memory" \/ open_job(m.job) = -2
  <2> DEFINE o == open_job(m.job)
  <2>1. o \in {0, -1, -2}
    BY <1>3
  <2>2. Opened(m) = IF m.age = "no memory" THEN Later
                    ELSE IF m.age = "fails" THEN Kept("decrypt failed")
                    ELSE IF o = -2 THEN Later ELSE IF o = -1 THEN Kept("decrypt failed") ELSE Embeds
    BY <2>1 DEF Opened
  <2> HIDE DEF o
  <2>3. Embeds # Later /\ Later # Drop /\ Embeds # Drop
    BY DEF Embeds, Later, Drop, Kept
  <2>4. \A reason \in {"claim check", "retries", "too long", "kata unhealthy", "decrypt failed"} :
          Kept(reason) # Embeds /\ Kept(reason) # Later
    BY DEF Embeds, Later, Kept
  <2>5. Opened(m) = Embeds => m.age = "ok" /\ o = 0
    BY <2>1, <2>2, <2>3, <2>4, Zenon
  <2>6. Opened(m) = Later => m.age = "no memory" \/ o = -2
    BY <2>2, <2>3, <2>4, Zenon
  <2>7. r = Embeds => Opened(m) = Embeds
    BY <2>3, <2>4, Zenon DEF arrive
  <2>8. r = Later => ~m.env.memory \/ Opened(m) = Later
    BY <2>3, <2>4, Zenon DEF arrive
  <2> QED
    BY <2>5, <2>6, <2>7, <2>8, Zenon DEF o
<1>5. parse_strict(m.env) /\ envelope_fields_ok(m.env) /\ m.env.is["v"] # "whole" => CalReadsEnvelope(m.env)
  BY DEF parse_strict, envelope_fields_ok, opt_string, req_string, integer, CalReadsEnvelope, CalReadsText
<1>6. parse_strict(m.job) /\ job_fields_ok(m.job) /\ m.job.is["sequence_num"] # "whole" => CalReadsJob(m.job)
  BY DEF parse_strict, job_fields_ok, opt_string, req_string, integer, Opt, NotNull, JobFields, CalReadsJob, CalReadsText
<1> HIDE DEF r
<1> QED
  BY <1>1, <1>3, <1>4, <1>5, <1>6 DEF StrictAsCal, PlainNumbers, r, Embeds, Kept

\* A list as it is found in NVS, whatever its items are.
AList(nvs, S) == nvs.key \in {"absent", "unreadable", "there"} /\ nvs.text.chars \in Nat /\ nvs.text.items \in Seq(S)

\* Whoever hears anything from the status server is meant to: nothing that is wrong with the list
\* widens it.
THEOREM PeersOnly ==
  ASSUME NEW nvs, NEW peer, NEW self, NEW mask, NEW h, NEW arrived, NEW serves, NEW S,
         MaxAllow \in Nat, AList(nvs, S)
  PROVE  OnlyPeers(nvs, peer, self, mask, h, arrived, serves)
<1>0. nvs.key \in {"absent", "unreadable", "there"} /\ nvs.text.chars \in Nat /\ nvs.text.items \in Seq(S)
  BY DEF AList
<1> DEFINE s == status_allow(nvs)
           list == httpreq_parse_allow(s)
<1>1. handle(peer, self, mask, list, h, arrived, serves) # 0 => list.n >= 0 /\ httpreq_peer_ok(peer, self, mask, list)
  BY DEF handle, httpreq_parse_allow, Broken
<1>2. nvs.key = "unreadable" => list = Broken
  BY DEF status_allow, httpreq_parse_allow, Range
<1>3. nvs.key = "absent" => list.n = 0
  BY Range(<<>>) = {} DEF Range, status_allow, httpreq_parse_allow, Broken
<1>4. nvs.key = "there" /\ nvs.text.chars > 0 /\ list.n >= 0 => list.n > 0 /\ list.allow = Range(nvs.text.items)
  BY DEF status_allow, httpreq_parse_allow, Broken
<1>5. Broken.n = -1
  BY DEF Broken
<1> HIDE DEF list, s
<1> QED
  BY <1>0, <1>1, <1>2, <1>3, <1>4, <1>5 DEF OnlyPeers, httpreq_peer_ok, list, s

-----------------------------------------------------------------------------
(* The self-test: its counters say, for any tests, recorded CRCs and       *)
(* cosines, what HealthyMeans asks of every single vector.                 *)

\* Each test runs once, so its vector stays.
Ran == /\ to_run \subseteq Tests /\ st_done \subseteq Tests /\ to_run \cap st_done = {}
        /\ {st_fail, st_new, tok_bad, crc_bad} \subseteq Nat /\ st_min_cos \in Int
        /\ vector \in [st_done -> Vectors]
\* The counters forget which test it was, but not whether there was one.
Failing == st_fail > 0 <=> \E i \in st_done : i \in Recorded /\ ~vector[i].exact
News == st_new > 0 <=> \E i \in st_done : i \notin Recorded
\* The least cosine is low when one of those it stands for is.
Least == st_min_cos >= MinCos <=> \A i \in st_done \ Recorded : ~Less(vector[i].cos, MinCos)
StInv == Ran /\ Failing /\ News /\ Least

LEMMA StInvInit == StInit => StInv
  BY SelfTestAssumption DEF StInit, StInv, Ran, Failing, News, Least

\* A test that gives a vector.
LEMMA StInvRuns ==
  ASSUME StInv, NEW i \in Tests, Runs(i)
  PROVE  StInv'
<1>1. PICK v \in Vectors, bad \in {0, 1} : selftest(i, v) /\ crc_bad' = crc_bad + bad
  BY DEF Runs
<1> DEFINE old == st_done
<1>2. i \in to_run /\ i \notin st_done /\ to_run' = to_run \ {i} /\ st_done' = st_done \cup {i} /\ tok_bad' = tok_bad
  BY <1>1 DEF Runs, StInv, Ran, selftest
<1>3. vector'[i] = v /\ \A k \in old : vector'[k] = vector[k] /\ vector'[k] \in Vectors
  BY <1>1, <1>2 DEF selftest, StInv, Ran
<1>4. Ran'
  <2>1. vector' \in [st_done' -> Vectors]
    BY <1>1, <1>2, <1>3 DEF selftest
  <2>2. v.cos \in Int \/ v.cos = NaN
    BY SelfTestAssumption DEF Vectors
  <2>3. st_min_cos' \in Int
    BY <1>1, <2>2 DEF selftest, Judge, Less, StInv, Ran
  <2> QED
    BY <1>1, <1>2, <2>1, <2>3 DEF selftest, StInv, Ran
<1>5. Failing'
  <2>1. st_fail' > 0 <=> st_fail > 0 \/ (i \in Recorded /\ ~v.exact)
    BY <1>1 DEF selftest, StInv, Ran
  <2> QED
    BY <1>2, <1>3, <2>1 DEF StInv, Failing
<1>6. News'
  <2>1. st_new' > 0 <=> st_new > 0 \/ i \notin Recorded
    BY <1>1 DEF selftest, StInv, Ran
  <2> QED
    BY <1>2, <2>1 DEF StInv, News
<1>7. Least'
  <2>1. v.cos \in Int \/ v.cos = NaN
    BY SelfTestAssumption DEF Vectors
  <2>2. st_min_cos' >= MinCos <=> st_min_cos >= MinCos /\ (i \in Recorded \/ ~Less(v.cos, MinCos))
    BY <1>1, <2>1, SelfTestAssumption DEF selftest, Judge, Less, StInv, Ran
  <2>3. (\A k \in st_done' \ Recorded : ~Less(vector'[k].cos, MinCos))
          <=> /\ \A k \in st_done \ Recorded : ~Less(vector[k].cos, MinCos)
              /\ i \in Recorded \/ ~Less(v.cos, MinCos)
    BY <1>2, <1>3
  <2> QED
    BY <2>2, <2>3 DEF StInv, Least, Less
<1> QED
  BY <1>4, <1>5, <1>6, <1>7 DEF StInv

\* A test whose tokens differ gives none.
LEMMA StInvStep == StInv /\ [StNext]_stVars => StInv'
<1> SUFFICES ASSUME StInv, [StNext]_stVars
             PROVE  StInv'
  OBVIOUS
<1>1. CASE UNCHANGED stVars
  BY <1>1 DEF stVars, StInv, Ran, Failing, News, Least, Less
<1>2. ASSUME NEW i \in Tests, Differs(i)
      PROVE  StInv'
  BY <1>2 DEF Differs, StInv, Ran, Failing, News, Least, Less
<1> QED
  BY <1>1, <1>2, StInvRuns DEF StNext

\* With every test done, what the counters say is said of each vector.
LEMMA Judged == StInv => HealthyMeans
<1> SUFFICES ASSUME StInv
             PROVE  HealthyMeans
  OBVIOUS
<1>1. healthy <=> /\ st_fail = 0 /\ Tests \subseteq st_done /\ crc_bad = 0 /\ tok_bad = 0
                  /\ st_new = 0 \/ st_min_cos >= MinCos
  BY DEF healthy, verdict, StInv, Ran
<1>2. ASSUME Tests \subseteq st_done
      PROVE  /\ st_done = Tests /\ DOMAIN vector = Tests
             /\ st_fail = 0 <=> \A i \in Tests : i \in Recorded => vector[i].exact
             /\ st_new = 0 => Tests \subseteq Recorded
             /\ st_min_cos >= MinCos <=> \A i \in Tests \ Recorded : ~Less(vector[i].cos, MinCos)
  <2>1. st_done = Tests
    BY <1>2 DEF StInv, Ran
  <2> QED
    BY <2>1 DEF StInv, Ran, Failing, News, Least
<1>3. ASSUME Tests \subseteq st_done, NEW i \in Tests
      PROVE  /\ i \notin Recorded /\ i \notin NoNumber => (~Less(vector[i].cos, MinCos) <=> Close(i))
             /\ Close(i) => ~Less(vector[i].cos, MinCos)
             /\ i \in NoNumber => i \notin Recorded
  <2>1. vector[i].cos \in Int \/ vector[i].cos = NaN
    BY <1>2, <1>3, SelfTestAssumption DEF StInv, Ran, Vectors
  <2> QED
    BY <1>2, <1>3, <2>1, SelfTestAssumption DEF Less, Close, NoNumber
<1>4. ASSUME healthy
      PROVE  AllRan /\ \A i \in Tests \ NoNumber : Good(i)
  BY <1>1, <1>2, <1>3, <1>4 DEF AllRan, Good
<1>5. ASSUME AllRan, \A i \in Tests : Good(i)
      PROVE  healthy
  BY <1>1, <1>2, <1>3, <1>5 DEF AllRan, Good
<1> QED
  BY <1>4, <1>5 DEF HealthyMeans

\* An image is kept at its first boot only if every vector that can be judged is good, and it is kept if
\* they all are (full.c's healthy, which ota.c asks before it confirms the image).
THEOREM SelfTestHealthyMeans == StSpec => []HealthyMeans
<1>1. StSpec => []StInv
  BY StInvInit, StInvStep, PTL DEF StSpec
<1> QED
  BY <1>1, Judged, PTL

-----------------------------------------------------------------------------
(* Messages: what a receive accepts is what it accepts of each, in order.  *)

\* What sqs_receive has kept of the first n messages.
Receives(h, messages, max, S) ==
  /\ h \in [0..Len(messages) -> Seq(S)]
  /\ h[0] = <<>>
  /\ FoldLeft(LAMBDA got, m : Received(got, m, max), <<>>, messages) = h[Len(messages)]
  /\ \A n \in 1..Len(messages) : h[n] = Received(h[n - 1], messages[n], max)

LEMMA ReceiveSteps ==
  ASSUME NEW S, NEW messages \in Seq(S), NEW max
  PROVE  \E h : Receives(h, messages, max, S)
<1> DEFINE N == Len(messages)
           R == Seq(S)
           Does(got, m) == Received(got, m, max)
           G == [p \in (1..N) \X R |-> Does(p[2], messages[p[1]])]
           Eq(f) == f = [s \in SUBSET (1..N) |-> IF s = {} THEN <<>> ELSE Does(f[s \ {Max(s)}], messages[Max(s)])]
           it == CHOOSE f : Eq(f)
<1>1. N \in Nat /\ DOMAIN messages = 1..N /\ \A n \in 1..N : messages[n] \in S
  OBVIOUS
<1>2. \A got \in R, n \in 1..N : Does(got, messages[n]) \in R
  <2>1. \A got \in R, n \in 1..N : Append(got, messages[n]) \in R
    BY <1>1
  <2>2. \A got, m : Does(got, m) = Append(got, m) \/ Does(got, m) = got
    BY Zenon DEF Received
  <2> HIDE DEF R, N, Does
  <2> QED
    BY <2>1, <2>2
<1>3. FoldLeft(LAMBDA got, m : Received(got, m, max), <<>>, messages) = it[1..N]
  <2>1. FoldLeft(LAMBDA got, m : Received(got, m, max), <<>>, messages)
          = (CHOOSE g : g = [s \in SUBSET DOMAIN messages |->
               IF s = {} THEN <<>> ELSE Does(g[s \ {Max(s)}], messages[Max(s)])])[DOMAIN messages]
    BY Zenon DEF FoldLeft, MapThenFoldSet
  <2> HIDE DEF Does
  <2> QED
    BY <1>1, <2>1
<1>4. <<>> \in R
  OBVIOUS
<1> HIDE DEF N, R, Does
<1>5. G \in [(1..N) \X R -> R] /\ \A n \in 1..N, got \in R : G[<<n, got>>] = Does(got, messages[n])
  BY <1>2
<1> HIDE DEF G
<1>6. PICK f : Folds(f, N, R, <<>>, G)
  BY <1>1, <1>4, <1>5, FoldExists
<1>7. Eq(f)
  BY <1>5, <1>6 DEF Folds
<1>8. Eq(it)
  <2> HIDE DEF Eq
  <2> QED
    BY <1>7
<1> HIDE DEF it
<1>9. it[{}] = <<>> /\ \A s \in SUBSET (1..N) : s # {} => it[s] = Does(it[s \ {Max(s)}], messages[Max(s)])
  BY <1>8
<1>10. Unfolds(it, N, R, <<>>, G)
  BY <1>5, <1>6, <1>9 DEF Folds, Unfolds
<1>11. PICK h : RunsTo(h, it[1..N], N, R, <<>>, G)
  <2> HIDE DEF Eq
  <2> QED
    BY <1>1, <1>4, <1>5, <1>10, FoldRuns
<1>12. ASSUME NEW n \in 1..N PROVE h[n] = Does(h[n - 1], messages[n])
  <2>1. h[n - 1] \in R
    BY <1>1, <1>11 DEF RunsTo
  <2> QED
    BY <1>5, <1>11, <2>1 DEF RunsTo
<1> QED
  BY <1>3, <1>11, <1>12 DEF N, R, Does, Receives, RunsTo

\* got is what is whole of the first n messages, in order, up to the limit.
Lists(at, got, messages, n, max) ==
  /\ Len(got) <= Clamped(max)
  /\ at \in [1..Len(got) -> 1..n]
  /\ \A j, k \in 1..Len(got) : j < k => at[j] < at[k]
  /\ \A k \in 1..Len(got) : got[k] = messages[at[k]] /\ Intact(got[k])
  /\ \A i \in 1..n : Intact(messages[i]) =>
       (\E k \in 1..Len(got) : at[k] = i) \/ (Len(got) = Clamped(max) /\ \A k \in 1..Len(got) : at[k] < i)
WholeFrom(got, messages, n, max) == \E at : Lists(at, got, messages, n, max)

LEMMA WholeNext ==
  ASSUME NEW S, NEW got \in Seq(S), NEW messages \in Seq(S), NEW max \in Int, MaxReceive \in Nat \ {0},
         NEW n \in 1..Len(messages), WholeFrom(got, messages, n - 1, max)
  PROVE  WholeFrom(Received(got, messages[n], max), messages, n, max)
<1> DEFINE N == Len(got)
           m == messages[n]
<1>0. PICK at : Lists(at, got, messages, n - 1, max)
  BY DEF WholeFrom
<1>1. /\ N <= Clamped(max)
      /\ at \in [1..N -> 1..(n - 1)]
      /\ \A j, k \in 1..N : j < k => at[j] < at[k]
      /\ \A k \in 1..N : got[k] = messages[at[k]] /\ Intact(got[k])
      /\ \A i \in 1..(n - 1) : Intact(messages[i]) =>
           (\E k \in 1..N : at[k] = i) \/ (N = Clamped(max) /\ \A k \in 1..N : at[k] < i)
  BY <1>0 DEF Lists
<1>2. N \in Nat /\ Clamped(max) \in Nat /\ n \in Nat /\ n >= 1
  BY DEF Clamped
<1>3. \A k \in 1..N : at[k] \in 1..n /\ at[k] < n
  <2> TAKE k \in 1..N
  <2> HIDE DEF N
  <2>1. at[k] \in 1..(n - 1)
    BY <1>1
  <2> QED
    BY <1>2, <2>1
<1>4. CASE N < Clamped(max) /\ Intact(m)
  <2> DEFINE q == Append(got, m)
             to == [k \in 1..(N + 1) |-> IF k = N + 1 THEN n ELSE at[k]]
  <2>1. Received(got, m, max) = q
    BY <1>4 DEF Received
  <2>2. /\ Len(q) = N + 1 /\ q[N + 1] = m
        /\ \A k \in 1..N : q[k] = got[k]
    OBVIOUS
  <2>3. to[N + 1] = n /\ \A k \in 1..N : to[k] = at[k]
    BY <1>2
  <2>4. to \in [1..(N + 1) -> 1..n]
    BY <1>2, <1>3
  <2> HIDE DEF q, to, N, m
  <2>5. \A k \in 1..(N + 1) : k \in 1..N \/ k = N + 1
    BY <1>2
  <2>6. ASSUME NEW j \in 1..(N + 1), NEW k \in 1..(N + 1), j < k PROVE to[j] < to[k]
    <3>1. j \in 1..N
      BY <1>2, <2>6
    <3>2. CASE k = N + 1
      BY <1>3, <2>3, <3>1, <3>2
    <3>3. CASE k \in 1..N
      BY <1>1, <2>3, <2>6, <3>1, <3>3
    <3> QED
      BY <2>5, <3>2, <3>3
  <2>7. \A k \in 1..(N + 1) : q[k] = messages[to[k]] /\ Intact(q[k])
    BY <1>1, <1>4, <2>2, <2>3, <2>5 DEF m
  <2>8. ASSUME NEW i \in 1..n, Intact(messages[i]) PROVE \E k \in 1..(N + 1) : to[k] = i
    <3>1. CASE i = n
      BY <1>2, <2>3, <3>1, N + 1 \in 1..(N + 1)
    <3>2. CASE i # n
      <4>1. i \in 1..(n - 1)
        BY <1>2, <3>2
      <4>2. PICK k \in 1..N : at[k] = i
        <5>1. \/ \E k \in 1..N : at[k] = i
              \/ N = Clamped(max)
          BY <1>1, <2>8, <4>1
        <5> QED
          BY <1>2, <1>4, <5>1 DEF N
      <4>3. k \in 1..(N + 1)
        BY <1>2
      <4> QED
        BY <2>3, <4>2, <4>3
    <3> QED
      BY <3>1, <3>2
  <2>9. N + 1 <= Clamped(max)
    BY <1>2, <1>4
  <2>10. Lists(to, q, messages, n, max)
    BY <2>2, <2>4, <2>6, <2>7, <2>8, <2>9 DEF Lists
  <2> QED
    BY <2>1, <2>10 DEF WholeFrom, m
<1>5. CASE ~(N < Clamped(max) /\ Intact(m))
  <2>1. Received(got, m, max) = got
    BY <1>5 DEF Received
  <2>2. at \in [1..N -> 1..n]
    BY <1>1, <1>3
  <2>3. ASSUME NEW i \in 1..n, Intact(messages[i])
        PROVE  (\E k \in 1..N : at[k] = i) \/ (N = Clamped(max) /\ \A k \in 1..N : at[k] < i)
    <3>1. CASE i = n
      BY <1>1, <1>2, <1>3, <1>5, <2>3, <3>1
    <3>2. CASE i # n
      <4>1. i \in 1..(n - 1)
        BY <1>2, <3>2
      <4> QED
        BY <1>1, <2>3, <4>1
    <3> QED
      BY <3>1, <3>2
  <2>4. Lists(at, got, messages, n, max)
    BY <1>1, <2>2, <2>3 DEF Lists
  <2> QED
    BY <2>1, <2>4 DEF WholeFrom
<1> QED
  BY <1>4, <1>5

\* What sqs_receive takes into the pool is whole, in the order of the answer and as much as was asked
\* for; however many messages SQS answers with, whatever is wrong with some of them.
THEOREM ReceivesIntact ==
  ASSUME NEW c, NEW max \in Int, MaxReceive \in Nat \ {0}, NEW S, NEW a, a.messages \in Seq(S)
  PROVE  ReceivedIntact(c, max, a)
<1> DEFINE messages == a.messages
           got == sqs_receive(c, max, a).msgs
           N == Len(messages)
<1>1. messages \in Seq(S) /\ N \in Nat /\ DOMAIN messages = 1..N
  OBVIOUS
<1> HIDE DEF messages
<1>2. PICK h : Receives(h, messages, max, S)
  BY <1>1, ReceiveSteps
<1>3. /\ h \in [0..N -> Seq(S)] /\ h[0] = <<>>
      /\ \A n \in 1..N : h[n] = Received(h[n - 1], messages[n], max)
  BY <1>2, Zenon DEF Receives
<1>4. WholeFrom(h[N], messages, N, max)
  <2> DEFINE T == {n \in 0..N : WholeFrom(h[n], messages, n, max)}
  <2>1. 0 \in T
    <3> DEFINE at == [k \in 1..0 |-> 0]
    <3>1. Len(<<>>) = 0 /\ Clamped(max) >= 0
      BY DEF Clamped
    <3>2. at \in [1..0 -> 1..0]
      OBVIOUS
    <3> HIDE DEF at
    <3>3. Lists(at, <<>>, messages, 0, max)
      BY <3>1, <3>2 DEF Lists
    <3>4. WholeFrom(h[0], messages, 0, max)
      BY <1>3, <3>3 DEF WholeFrom
    <3> QED
      BY <1>1, <3>4
  <2>2. ASSUME NEW n \in 1..N, n - 1 \in T PROVE n \in T
    <3>1. h[n - 1] \in Seq(S) /\ WholeFrom(h[n - 1], messages, n - 1, max) /\ n \in 0..N
      <4> HIDE DEF N
      <4> QED
        BY <1>1, <1>3, <2>2
    <3>2. WholeFrom(Received(h[n - 1], messages[n], max), messages, n, max)
      BY <1>1, <3>1, WholeNext
    <3> QED
      BY <1>3, <3>1, <3>2
  <2> HIDE DEF T, N
  <2>3. 0..N \subseteq T
    BY <1>1, <2>1, <2>2, InductionTo
  <2> QED
    BY <1>1, <2>3 DEF T
<1>5. got = IF Answered(c, a) THEN h[N] ELSE <<>>
  BY <1>2, Zenon DEF Receives, sqs_receive, messages
<1>6. h[N] \in Seq(S)
  BY <1>1, <1>3
<1>7. DOMAIN got = 1..Len(got) /\ Len(got) \in Nat
  BY <1>5, <1>6
<1> HIDE DEF got, N
<1>8. PICK at : /\ Len(got) <= Clamped(max)
                /\ at \in [1..Len(got) -> 1..N]
                /\ \A j, k \in 1..Len(got) : j < k => at[j] < at[k]
                /\ \A k \in 1..Len(got) : got[k] = messages[at[k]] /\ Intact(got[k])
                /\ Answered(c, a) => \A i \in 1..N : Intact(messages[i]) =>
                     (\E k \in 1..Len(got) : at[k] = i) \/ (Len(got) = Clamped(max) /\ \A k \in 1..Len(got) : at[k] < i)
  <2>1. CASE Answered(c, a)
    <3>1. got = h[N]
      BY <1>5, <2>1
    <3> QED
      BY <1>4, <3>1 DEF WholeFrom, Lists
  <2>2. CASE ~Answered(c, a)
    <3>1. got = <<>> /\ Len(got) = 0 /\ Clamped(max) >= 0
      BY <1>5, <2>2 DEF Clamped
    <3> DEFINE at == [k \in 1..0 |-> 0]
    <3>2. at \in [1..0 -> 1..N]
      OBVIOUS
    <3>3. \A k \in 1..0 : FALSE
      OBVIOUS
    <3> HIDE DEF at
    <3> QED
      BY <2>2, <3>1, <3>2, <3>3
  <2> QED
    BY <2>1, <2>2
<1>9. max \in 1..MaxReceive => Len(got) <= max
  <2>1. max \in 1..MaxReceive => Clamped(max) = max
    BY DEF Clamped
  <2> QED
    BY <1>7, <1>8, <2>1
<1>10. \A k \in DOMAIN got : got[k].md5 \in {None, got[k].body}
  BY <1>7, <1>8 DEF Intact
<1>11. \A i \in DOMAIN messages : Answered(c, a) /\ Intact(messages[i]) =>
         i \in Range(at) \/ (Len(got) = Clamped(max) /\ \A k \in DOMAIN got : at[k] < i)
  <2> SUFFICES ASSUME NEW i \in 1..N, Answered(c, a), Intact(messages[i]), i \notin Range(at)
               PROVE  Len(got) = Clamped(max) /\ \A k \in DOMAIN got : at[k] < i
    BY <1>1
  <2>1. \A k \in 1..Len(got) : at[k] # i
    BY <1>8 DEF Range
  <2> QED
    BY <1>7, <1>8, <2>1
<1> QED
  BY <1>1, <1>7, <1>8, <1>9, <1>10, <1>11 DEF ReceivedIntact, got, messages

\* Nothing in the document leaves the board but for a whole GET of /json, whatever the head, however much
\* of it came in time (handle).
LEMMA DocumentAskedFor ==
  ASSUME NEW list, NEW peer, NEW self, NEW mask, NEW h, NEW arrived \in Int, NEW serves,
         h.size \in Int, MaxHead \in Int
  PROVE  StatusIsAskedFor(list, peer, self, mask, h, arrived, serves)
<1> DEFINE room == IF arrived < MaxHead THEN arrived ELSE MaxHead
           r == httpreq_route(h, room)
<1>1. SUFFICES ASSUME handle(peer, self, mask, list, h, arrived, serves) = 200
               PROVE  /\ h.method = "GET" /\ h.target = "/json" /\ ~h.control /\ h.three_parts /\ h.version
                      /\ h.size <= MaxHead /\ h.size <= arrived /\ serves
  BY Zenon DEF StatusIsAskedFor
<1>2. r # "incomplete" /\ (r = "json" => serves) /\ httpreq_status(r) = 200
  BY <1>1 DEF handle, Complete
<1>3. room \in Int /\ room <= arrived /\ room <= MaxHead
  OBVIOUS
<1> HIDE DEF room
<1>4. r \in {"bad", "incomplete", "bad_method", "json", "not_found"}
  BY Zenon DEF httpreq_route
<1>5. r = "json"
  <2> HIDE DEF r
  <2>1. r = "json" \/ httpreq_status(r) \in {400, 404, 405}
    BY <1>2, <1>4 DEF httpreq_status
  <2> QED
    BY <1>2, <2>1
<1>6. /\ ~(room < h.size)
      /\ h.method = "GET" /\ h.target = "/json" /\ ~h.control /\ h.three_parts /\ h.version
  BY <1>5, Zenon DEF httpreq_route
<1> QED
  BY <1>2, <1>3, <1>5, <1>6

\* A message and a request, whatever is in them.
AMessage(m) == /\ m.env.is \in [EnvelopeFields -> Kinds] /\ m.job.is \in [JobFields -> Kinds]
               /\ m.env.s3.is \in {"absent", "null", "object", "other"} /\ m.age \in {"ok", "no memory", "fails"}
ARequest(r, S) == AList(r.nvs, S) /\ r.head.size \in Int /\ r.arrived \in Int

\* All of it together: Kata believes AWS, a message and a peer only as far as it has checked them, whatever
\* they say.  Asked is what Kata asked for (lists of any bodies, any numbers of receipts and messages).
\* Of an answer, a message or a request it is supposed only that it has its fields; UseMargin (60 s) is
\* less than RefreshMargin (CREDS_REFRESH_S, 600 s).
THEOREM OutsideIsBelieved ==
  ASSUME NEW S, Asked.sendings \subseteq Seq(S), Asked.counts \subseteq Int,
         RefreshMargin \in Int, UseMargin \in Int, UseMargin <= RefreshMargin, MaxReceive \in Nat \ {0},
         MaxAllow \in Nat, MaxHead \in Int,
         input.kind = "messages" => input.messages \in Seq(S),
         input.kind = "credentials" => input.had.expires \in Int /\ input.now \in Int /\ input.expires \in Int,
         input.kind = "message" => AMessage(input),
         input.kind = "request" => ARequest(input, S)
  PROVE  OutsideIsChecked
<1>1. ASSUME NEW c, NEW sent \in Asked.sendings, NEW stored PROVE SentMeansStored(c, sent, stored, input)
  BY SendsMeanStored
<1>2. ASSUME NEW c, NEW n, NEW deleted PROVE DeletedMeansListed(c, n, deleted, input)
  BY DeletesMeanListed
<1>3. ASSUME input.kind = "messages", NEW c, NEW max \in Asked.counts PROVE ReceivedIntact(c, max, input)
  BY <1>3, ReceivesIntact
<1>4. ASSUME input.kind = "credentials" PROVE CredsGood(input.had, input.now, input.provisioned, input)
  BY <1>4, CredentialsGood
<1>5. ASSUME input.kind = "message" PROVE StrictAsCal(input)
  BY <1>5, MessagesStrictAsCal DEF AMessage
<1>6. ASSUME input.kind = "request"
      PROVE  OnlyPeers(input.nvs, input.peer, input.self, input.mask, input.head, input.arrived, input.serves)
  BY <1>6, PeersOnly DEF ARequest
<1>7. ASSUME input.kind = "request"
      PROVE  StatusIsAskedFor(httpreq_parse_allow(status_allow(input.nvs)), input.peer, input.self, input.mask,
                              input.head, input.arrived, input.serves)
  BY <1>7, DocumentAskedFor DEF ARequest
<1> QED
  BY <1>1, <1>2, <1>3, <1>4, <1>5, <1>6, <1>7, Zenon DEF OutsideIsChecked

-----------------------------------------------------------------------------
(* Fleet: however chunks are repeated, delayed and mixed, an update put    *)
(* together from them is of one version, whole, and of chunks of one time, *)
(* as long as the silence between two commands stays under a turn of the   *)
(* board's clock.                                                          *)

Shas(version) == {u.sha : u \in {w \in Updates : w.version = version}}
\* What is collected is of the version and the count it was begun with.
Collects(c) ==
    /\ c = [total |-> c.total, version |-> c.version, sha |-> c.sha, chunk |-> c.chunk, started |-> c.started]
    /\ c.total \in Nat /\ c.started \in 0..Wrap - 1
    /\ c.chunk = [k \in DOMAIN c.chunk |-> c.chunk[k]]
    /\ \A k \in DOMAIN c.chunk : /\ c.chunk[k] \in Parts /\ c.chunk[k].at = k
                                 /\ c.chunk[k].of.version = c.version /\ Len(c.chunk[k].of.sizes) = c.total
    /\ c.sha \in {NoSha, Spoilt} \cup Shas(c.version)
\* The history's count is what the clock says, which may have wrapped once since.
Ages(c, h, s) ==
    c.total > 0 => /\ h \in Nat /\ h <= MaxAge + s
                   /\ now - c.started = h \/ now - c.started = h - Wrap
CmdInv ==
    /\ pending \in Seq(Commands) /\ now \in 0..Wrap - 1 /\ silent \in 0..MaxSilence
    /\ Collects(chunks) /\ Ages(chunks, held, silent) /\ UpdateOfOneVersion

-----------------------------------------------------------------------------
LEMMA Modulo ==
  ASSUME NEW W \in Nat \ {0}, NEW a \in 0..W - 1
  PROVE  a % W = a /\ (a - W) % W = a /\ (a + 1) % W = IF a + 1 = W THEN 0 ELSE a + 1
<1>1. a % W = a
  OBVIOUS
<1>2. (a - W) % W = a
  OBVIOUS
<1>3. CASE a + 1 = W
  <2>1. W % W = 0
    OBVIOUS
  <2> QED
    BY <1>1, <1>2, <1>3, <2>1
<1>4. CASE a + 1 # W
  <2>1. a + 1 \in 0..W - 1
    BY <1>4
  <2>2. (a + 1) % W = a + 1
    BY <2>1
  <2> QED
    BY <1>1, <1>2, <1>4, <2>2
<1> QED
  BY <1>3, <1>4

LEMMA NoneCollected == Collects(NoChunks) /\ NoChunks.total = 0
<1>1. NoChunks = [total |-> 0, version |-> Nothing, sha |-> NoSha, chunk |-> <<>>, started |-> 0]
  BY DEF NoChunks
<1>2. DOMAIN <<>> = {} /\ <<>> = [k \in DOMAIN <<>> |-> <<>>[k]]
  OBVIOUS
<1>3. 0 \in 0..Wrap - 1
  BY FleetCommandsAssumption
<1> QED
  BY <1>1, <1>2, <1>3 DEF Collects

\* A set that is not stale is as old as its history says, and no older than it may be.
LEMMA LiveIsYoung ==
  ASSUME CmdInv, MaxAge + MaxSilence < Wrap
  PROVE  /\ Collects(Live)
         /\ Live.total > 0 => Live = chunks /\ held \in Nat /\ held <= MaxAge
<1>1. CASE Stale
  BY <1>1, NoneCollected DEF Live
<1>2. CASE ~Stale /\ chunks.total > 0
  <2>1. held \in 0..Wrap - 1
    BY <1>2, FleetCommandsAssumption DEF CmdInv, Ages
  <2>2. (now - chunks.started) % Wrap = held
    <3>1. now - chunks.started \in {held, held - Wrap}
      BY <1>2 DEF CmdInv, Ages
    <3>2. held % Wrap = held /\ (held - Wrap) % Wrap = held
      BY <2>1, Modulo, FleetCommandsAssumption
    <3> QED
      BY <3>1, <3>2
  <2> QED
    BY <1>2, <2>1, <2>2, FleetCommandsAssumption DEF Live, Stale, CmdInv
<1>3. CASE ~Stale /\ ~(chunks.total > 0)
  BY <1>3 DEF Live, CmdInv
<1> QED
  BY <1>1, <1>2, <1>3

\* A set that is begun, or gone on with, for a chunk of u is of u's version and count, and young.
LEMMA BegunIsOfOne ==
  ASSUME CmdInv, MaxAge + MaxSilence < Wrap, NEW u \in Updates
  PROVE  /\ Collects(Begun(u)) /\ Begun(u).total = Len(u.sizes) /\ Begun(u).version = u.version
         /\ Held(u) \in Nat /\ Held(u) <= MaxAge
         /\ now - Begun(u).started = Held(u) \/ now - Begun(u).started = Held(u) - Wrap
<1>0. Len(u.sizes) \in Nat /\ Len(u.sizes) > 0 /\ MaxAge \in Nat
  BY FleetCommandsAssumption
<1>1. CASE StartsAgain(u)
  <2>1. Begun(u) = [total |-> Len(u.sizes), version |-> u.version, sha |-> NoSha, chunk |-> <<>>, started |-> now]
    BY <1>1 DEF Begun, NoChunks
  <2>2. DOMAIN <<>> = {} /\ <<>> = [k \in DOMAIN <<>> |-> <<>>[k]]
    OBVIOUS
  <2>3. Collects(Begun(u))
    BY <1>0, <2>1, <2>2 DEF Collects, CmdInv
  <2> QED
    BY <1>0, <1>1, <2>1, <2>3 DEF Held, CmdInv
<1>2. CASE ~StartsAgain(u)
  <2>1. Live = chunks /\ held \in Nat /\ held <= MaxAge /\ Collects(Live) /\ Live.total > 0
    BY <1>0, <1>2, LiveIsYoung DEF StartsAgain
  <2> QED
    BY <1>2, <2>1 DEF Begun, Held, StartsAgain, CmdInv, Ages
<1> QED
  BY <1>1, <1>2

\* A part of the same update joins it.
LEMMA WithIsOfOne ==
  ASSUME NEW c, Collects(c), NEW p \in Parts, c.total = Len(p.of.sizes), c.version = p.of.version
  PROVE  /\ Collects(With(c, p)) /\ With(c, p).total = c.total
         /\ With(c, p).version = c.version /\ With(c, p).started = c.started
<1> DEFINE w == With(c, p)
<1>1. w = [total |-> c.total, version |-> c.version,
           sha |-> IF CarriesSha(p) /\ p.of.sha # NoSha THEN p.of.sha ELSE c.sha,
           chunk |-> [k \in DOMAIN c.chunk \cup {p.at} |-> IF k = p.at THEN p ELSE c.chunk[k]],
           started |-> c.started]
  <2> DEFINE A == [k \in DOMAIN c.chunk \cup {p.at} |-> IF k = p.at THEN p ELSE c.chunk[k]]
             B == IF CarriesSha(p) /\ p.of.sha # NoSha THEN p.of.sha ELSE c.sha
  <2>1. w = [c EXCEPT !.chunk = A, !.sha = B]
    BY DEF With
  <2>2. c = [total |-> c.total, version |-> c.version, sha |-> c.sha, chunk |-> c.chunk, started |-> c.started]
    BY DEF Collects
  <2> HIDE DEF A, B, w
  <2>3. w = [total |-> c.total, version |-> c.version, sha |-> B, chunk |-> A, started |-> c.started]
    BY <2>1, <2>2
  <2> QED
    BY <2>3 DEF A, B, w
<1>2. DOMAIN w.chunk = DOMAIN c.chunk \cup {p.at} /\ w.chunk = [k \in DOMAIN w.chunk |-> w.chunk[k]]
  BY <1>1
<1>3. \A k \in DOMAIN w.chunk : w.chunk[k] = IF k = p.at THEN p ELSE c.chunk[k]
  BY <1>1
<1>4. p.of \in Updates
  BY DEF Parts
<1>5. w.sha \in {NoSha, Spoilt} \cup Shas(w.version)
  BY <1>1, <1>4 DEF Collects, Shas
<1> HIDE DEF w
<1>6. w = [total |-> w.total, version |-> w.version, sha |-> w.sha, chunk |-> w.chunk, started |-> w.started]
  BY <1>1
<1>7. w.total = c.total /\ w.version = c.version /\ w.started = c.started
  BY <1>1
<1>8. \A k \in DOMAIN w.chunk : /\ w.chunk[k] \in Parts /\ w.chunk[k].at = k
                                /\ w.chunk[k].of.version = w.version /\ Len(w.chunk[k].of.sizes) = w.total
  BY <1>2, <1>3, <1>7 DEF Collects
<1>9. Collects(w)
  BY <1>2, <1>5, <1>6, <1>7, <1>8 DEF Collects
<1> QED
  BY <1>7, <1>9 DEF w

\* Put together, it is one version's.
LEMMA AssembledIsOfOne ==
  ASSUME NEW c, Collects(c), Whole(c), NEW u \in Updates, c.total = Len(u.sizes), c.version = u.version,
         Held(u) <= MaxAge, out' = Assembled(c, u)
  PROVE  UpdateOfOneVersion'
<1> SUFFICES ASSUME out'.kind = "update"
             PROVE  UpdateOfOneVersion'
  BY DEF UpdateOfOneVersion
<1>1. /\ c.sha # NoSha
      /\ out' = [kind |-> "update", version |-> c.version, sha |-> c.sha,
                 url |-> [k \in 0..c.total - 1 |-> c.chunk[k]], held |-> Held(u)]
  BY DEF Assembled, Fails, Update
<1>2. \E v \in Updates : v.version = c.version /\ c.sha \in {v.sha, Spoilt}
  BY <1>1 DEF Collects, Shas
<1>3. \A k \in 0..c.total - 1 : /\ c.chunk[k].at = k /\ c.chunk[k].of.version = c.version
                                /\ Len(c.chunk[k].of.sizes) = c.total
  BY DEF Collects, Whole
<1> DEFINE url == [k \in 0..c.total - 1 |-> c.chunk[k]]
<1>4. DOMAIN url = 0..c.total - 1 /\ \A k \in 0..c.total - 1 : url[k] = c.chunk[k]
  OBVIOUS
<1> HIDE DEF url
<1>5. out'.version = c.version /\ out'.sha = c.sha /\ out'.url = url /\ out'.held = Held(u)
  BY <1>1 DEF url
<1>6. \E v \in Updates : v.version = out'.version /\ out'.sha \in {v.sha, Spoilt} /\ out'.sha # NoSha
  BY <1>1, <1>2, <1>5
<1>7. \A k \in DOMAIN url : /\ url[k].at = k /\ url[k].of.version = c.version
                           /\ DOMAIN url = 0..Len(url[k].of.sizes) - 1
  BY <1>3, <1>4
<1> QED
  BY <1>5, <1>6, <1>7 DEF UpdateOfOneVersion

-----------------------------------------------------------------------------
LEMMA CmdInvInit == CmdInit => CmdInv
<1> SUFFICES ASSUME CmdInit
             PROVE  CmdInv
  OBVIOUS
<1>1. pending \in Seq(Commands) /\ now \in 0..Wrap - 1 /\ silent \in 0..MaxSilence
  BY FleetCommandsAssumption DEF CmdInit
<1>2. UpdateOfOneVersion
  BY DEF CmdInit, UpdateOfOneVersion, Nothing
<1>3. Collects(chunks) /\ ~(chunks.total > 0)
  BY NoneCollected DEF CmdInit
<1> QED
  BY <1>1, <1>2, <1>3 DEF CmdInv, Ages

\* A chunk leaves nothing, or what it was begun with, or that and its part.
LEMMA ChunkKeeps ==
  ASSUME CmdInv, MaxAge + MaxSilence < Wrap, NEW p \in Parts, NEW mangled, NEW oom,
         Chunk(p, mangled, oom), UNCHANGED now
  PROVE  Collects(chunks') /\ Ages(chunks, held, 0)' /\ UpdateOfOneVersion'
<1> DEFINE u == p.of
           c == Begun(u)
           w == With(c, p)
<1>1. u \in Updates
  BY DEF Parts
<1>2. /\ Collects(c) /\ c.total = Len(u.sizes) /\ c.version = u.version
      /\ Held(u) \in Nat /\ Held(u) <= MaxAge
      /\ now - c.started = Held(u) \/ now - c.started = Held(u) - Wrap
  BY <1>1, BegunIsOfOne
<1>3. Collects(w) /\ w.total = c.total /\ w.version = c.version /\ w.started = c.started
  BY <1>2, WithIsOfOne
<1>4. CASE chunks' = NoChunks /\ out' = Fails
  BY <1>4, NoneCollected DEF Ages, UpdateOfOneVersion, Fails
<1>5. CASE chunks' \in Mangles(c) /\ out' = Fails /\ held' = Held(u)
  <2>1. /\ Collects(chunks') /\ chunks'.started = c.started
    <3>1. CASE chunks' = c
      BY <1>2, <3>1
    <3>2. CASE chunks' = [c EXCEPT !.sha = IF @ = NoSha THEN NoSha ELSE Spoilt]
      <4>1. c = [total |-> c.total, version |-> c.version, sha |-> c.sha, chunk |-> c.chunk, started |-> c.started]
        BY <1>2 DEF Collects
      <4> DEFINE B == IF c.sha = NoSha THEN NoSha ELSE Spoilt
      <4>2. chunks' = [c EXCEPT !.sha = B]
        BY <3>2
      <4>3. B \in {NoSha, Spoilt}
        OBVIOUS
      <4> HIDE DEF B, c
      <4>4. chunks' = [total |-> c.total, version |-> c.version, sha |-> B, chunk |-> c.chunk, started |-> c.started]
        BY <4>1, <4>2
      <4> QED
        BY <1>2, <4>3, <4>4 DEF Collects
    <3> QED
      BY <1>5, <3>1, <3>2 DEF Mangles
  <2> QED
    BY <1>2, <1>5, <2>1, FleetCommandsAssumption DEF Ages, UpdateOfOneVersion, Fails
<1>6. CASE Whole(w) /\ chunks' = NoChunks /\ out' = Assembled(w, u)
  BY <1>1, <1>2, <1>3, <1>6, AssembledIsOfOne, NoneCollected DEF Ages
<1>7. CASE chunks' = w /\ out' = [kind |-> "chunk"] /\ held' = Held(u)
  <2>1. Collects(chunks') /\ chunks'.started = c.started
    BY <1>3, <1>7
  <2>2. UpdateOfOneVersion'
    BY <1>7 DEF UpdateOfOneVersion
  <2> HIDE DEF w, c
  <2> QED
    BY <1>2, <1>7, <2>1, <2>2, FleetCommandsAssumption DEF Ages
<1> HIDE DEF w, c, u
<1> QED
  BY <1>4, <1>5, <1>6, <1>7 DEF Chunk, w, c, u

\* A command that is done, whatever it was.
LEMMA CommandKeeps ==
  ASSUME CmdInv, MaxAge + MaxSilence < Wrap, NEW m \in Commands, ota_cmd_parse(m), UNCHANGED now
  PROVE  Collects(chunks') /\ Ages(chunks, held, 0)' /\ UpdateOfOneVersion'
<1>1. ASSUME m.command = "url_chunk", NEW oom \in BOOLEAN, Chunk(m.part, m.mangled, oom)
      PROVE  Collects(chunks') /\ Ages(chunks, held, 0)' /\ UpdateOfOneVersion'
  <2>1. m.part \in Parts
    BY <1>1 DEF Commands, Chunks, Simple, Single
  <2> QED
    BY <1>1, <2>1, ChunkKeeps
<1>2. CASE m.command = "ota_update" /\ chunks' = NoChunks /\ out' = Made(m.of, m.mangled)
  <2>1. m.of \in Updates
    BY <1>2 DEF Commands, Chunks, Simple, Single
  <2> DEFINE u == m.of
             url == [k \in 0..Len(u.sizes) - 1 |-> [of |-> u, at |-> k]]
  <2>2. CASE out' = Fails
    BY <1>2, <2>2, NoneCollected DEF Ages, UpdateOfOneVersion, Fails
  <2>3. CASE out' = Update(u.version, u.sha, url, 0) /\ u.sha # NoSha
    <3>1. DOMAIN url = 0..Len(u.sizes) - 1 /\ \A k \in DOMAIN url : url[k].of = u /\ url[k].at = k
      OBVIOUS
    <3> HIDE DEF url, u
    <3>2. out'.version = u.version /\ out'.sha = u.sha /\ out'.url = url /\ out'.held = 0
      BY <2>3 DEF Update
    <3>3. u \in Updates
      BY <2>1 DEF u
    <3>4. \E v \in Updates : v.version = out'.version /\ out'.sha \in {v.sha, Spoilt} /\ out'.sha # NoSha
      BY <2>3, <3>2, <3>3
    <3>5. \A k \in DOMAIN url : /\ url[k].at = k /\ url[k].of.version = out'.version
                               /\ DOMAIN url = 0..Len(url[k].of.sizes) - 1
      BY <3>1, <3>2
    <3>6. UpdateOfOneVersion'
      BY <3>2, <3>4, <3>5, FleetCommandsAssumption DEF UpdateOfOneVersion
    <3> QED
      BY <1>2, <3>6, NoneCollected DEF Ages
  <2> QED
    BY <1>2, <2>2, <2>3 DEF Made
<1>3. CASE chunks' = NoChunks /\ out' = [kind |-> "cancel"]
  BY <1>3, NoneCollected DEF Ages, UpdateOfOneVersion
<1>4. ASSUME NEW outcome, Other(outcome), outcome.kind # "update"
      PROVE  Collects(chunks') /\ Ages(chunks, held, 0)' /\ UpdateOfOneVersion'
  <2>1. Collects(chunks') /\ chunks' = Live /\ out' = outcome
    BY <1>4, LiveIsYoung DEF Other
  <2>2. Live.total \in Nat /\ (Live.total > 0 => held' = held)
    BY <1>4, LiveIsYoung DEF Other, Collects
  <2>3. Live.total > 0 => /\ Live = chunks /\ held \in Nat /\ held <= MaxAge + 0
                          /\ now - chunks.started = held \/ now - chunks.started = held - Wrap
    BY LiveIsYoung, FleetCommandsAssumption DEF CmdInv, Ages
  <2>4. Ages(chunks, held, 0)'
    BY <2>1, <2>2, <2>3 DEF Ages
  <2> QED
    BY <1>4, <2>1, <2>4 DEF UpdateOfOneVersion
<1>5. CASE m.command \in {"get_version", "ping"} /\ Other([kind |-> m.command])
  BY <1>4, <1>5
<1>6. CASE Other(Fails)
  <2>1. Fails.kind # "update"
    BY DEF Fails
  <2> QED
    BY <1>4, <1>6, <2>1
<1> QED
  BY <1>1, <1>2, <1>3, <1>5, <1>6 DEF ota_cmd_parse

LEMMA CmdInvStep ==
  ASSUME MaxAge + MaxSilence < Wrap, CmdInv, [CmdNext]_cmdVars
  PROVE  CmdInv'
<1>1. CASE UNCHANGED cmdVars
  BY <1>1 DEF cmdVars, CmdInv, Ages, UpdateOfOneVersion
<1>2. ASSUME NEW m \in Commands, take_some(m)
      PROVE  CmdInv'
  <2>1. pending' \in Seq(Commands)
    BY <1>2 DEF take_some, CmdInv
  <2> QED
    BY <1>2, <2>1 DEF take_some, CmdInv, Ages, UpdateOfOneVersion
<1>3. CASE run_commands
  <2>1. Head(pending) \in Commands /\ pending' \in Seq(Commands)
    BY <1>3 DEF run_commands, CmdInv
  <2>2. silent' = 0 /\ now' = now /\ ota_cmd_parse(Head(pending))
    BY <1>3 DEF run_commands
  <2>3. Collects(chunks') /\ Ages(chunks, held, 0)' /\ UpdateOfOneVersion'
    BY <2>1, <2>2, CommandKeeps
  <2> QED
    BY <2>1, <2>2, <2>3, FleetCommandsAssumption DEF CmdInv, Ages
<1>4. CASE Passes
  <2>1. /\ now' = IF now + 1 = Wrap THEN 0 ELSE now + 1
        /\ silent' \in 0..MaxSilence /\ silent' = silent + 1
    <3>1. Wrap \in Nat \ {0} /\ now \in 0..Wrap - 1 /\ silent \in 0..MaxSilence /\ MaxSilence \in Nat
      BY FleetCommandsAssumption DEF CmdInv
    <3>2. (now + 1) % Wrap = IF now + 1 = Wrap THEN 0 ELSE now + 1
      BY <3>1, Modulo
    <3>3. now' = (now + 1) % Wrap /\ silent < MaxSilence /\ silent' = silent + 1
      BY <1>4 DEF Passes
    <3>4. silent' \in 0..MaxSilence
      BY <3>1, <3>3
    <3> QED
      BY <3>2, <3>3, <3>4
  <2>2. chunks' = chunks /\ pending' = pending /\ out' = out
    BY <1>4 DEF Passes
  <2>3. now' \in 0..Wrap - 1
    BY <2>1, FleetCommandsAssumption DEF CmdInv
  <2>4. Ages(chunks, held, silent)'
    <3>1. SUFFICES ASSUME chunks.total > 0
                   PROVE  /\ held' \in Nat /\ held' <= MaxAge + silent'
                          /\ now' - chunks.started = held' \/ now' - chunks.started = held' - Wrap
      BY <2>2 DEF Ages
    <3>2. held' = held + 1 /\ held \in Nat /\ held <= MaxAge + silent
      BY <1>4, <3>1 DEF Passes, CmdInv, Ages
    <3>3. held' \in Nat /\ held' <= MaxAge + silent' /\ held' < Wrap
      BY <2>1, <3>2, FleetCommandsAssumption DEF CmdInv
    <3>4. /\ now \in 0..Wrap - 1 /\ chunks.started \in 0..Wrap - 1
          /\ now - chunks.started = held \/ now - chunks.started = held - Wrap
      BY <3>1 DEF CmdInv, Ages, Collects
    <3> QED
      BY <2>1, <3>2, <3>3, <3>4, FleetCommandsAssumption
  <2> QED
    BY <2>1, <2>2, <2>3, <2>4 DEF CmdInv, UpdateOfOneVersion
<1>5. CASE Reboots
  <2>1. CmdInit'
    BY <1>5 DEF Reboots, CmdInit
  <2>2. pending' \in Seq(Commands) /\ now' \in 0..Wrap - 1 /\ silent' \in 0..MaxSilence
    BY <1>5, FleetCommandsAssumption DEF Reboots
  <2>3. Collects(chunks') /\ ~(chunks'.total > 0)
    BY <1>5, NoneCollected DEF Reboots
  <2>4. UpdateOfOneVersion'
    BY <1>5 DEF Reboots, UpdateOfOneVersion, Nothing
  <2> QED
    BY <2>2, <2>3, <2>4 DEF CmdInv, Ages
<1> QED
  BY <1>1, <1>2, <1>3, <1>4, <1>5 DEF CmdNext

\* ota_cmd.c's chunk() and ota_cmd_parse() make no update of two versions, of parts in the wrong places,
\* or of a chunk that was left behind long ago, whatever SQS does to the order of the commands.
THEOREM FleetUpdateOfOneVersion ==
  ASSUME MaxAge + MaxSilence < Wrap
  PROVE  CmdSpec => []UpdateOfOneVersion
<1>1. CmdInv /\ [CmdNext]_cmdVars => CmdInv'
  BY CmdInvStep
<1>2. CmdInv => UpdateOfOneVersion
  BY DEF CmdInv
<1> QED
  BY <1>1, <1>2, CmdInvInit, PTL DEF CmdSpec

-----------------------------------------------------------------------------
(* Age files: chunks of a size that is a constant.                         *)

\* What a quotient is, whatever divides.
LEMMA QuotientIs ==
  ASSUME NEW a \in Int, NEW b \in Nat \ {0}
  PROVE  /\ a \div b \in Int /\ b * (a \div b) <= a /\ a < b * (a \div b) + b
         /\ a - (a \div b) * b \in Int
OBVIOUS

LEMMA Apart ==
  ASSUME NEW b \in Nat, NEW q \in Int, NEW r \in Int, q < r
  PROVE  q * b + b <= r * b /\ q * b \in Int /\ r * b \in Int
<1>1. (r - q - 1) * b >= 0
  OBVIOUS
<1> QED
  BY <1>1

\* A place from 1 on is a place in a row of rows.
LEMMA PlaceIs ==
  ASSUME NEW b \in Nat \ {0}, NEW i \in Nat \ {0}, NEW n, n = (i - 1) \div b, NEW at, at = i - n * b
  PROVE  n \in Nat /\ at \in 1..b /\ n * b \in Nat /\ i = n * b + at
<1>1. i - 1 \in Int /\ n \in Int
  BY QuotientIs
<1>2. b * n <= i - 1 /\ i - 1 < b * n + b
  BY <1>1, QuotientIs
<1>3. n >= 0
  <2>1. SUFFICES ASSUME n < 0 PROVE FALSE
    BY <1>1
  <2>2. n * b + b <= 0 * b
    BY <1>1, <2>1, Apart
  <2> QED
    BY <1>1, <1>2, <2>2
<1> QED
  BY <1>1, <1>2, <1>3

LEMMA PlaceOf ==
  ASSUME NEW b \in Nat \ {0}, NEW n \in Nat, NEW at \in 1..b, NEW i, i = n * b + at
  PROVE  i \in Nat \ {0} /\ (i - 1) \div b = n /\ i - n * b = at
<1>1. n * b \in Nat
  OBVIOUS
<1>2. i \in Nat \ {0} /\ i - n * b = at
  BY <1>1
<1> DEFINE q == (i - 1) \div b
<1>3. q \in Int /\ b * q <= i - 1 /\ i - 1 < b * q + b
  BY <1>2, QuotientIs
<1> HIDE DEF q
<1>4. ~(q < n)
  <2>1. SUFFICES ASSUME q < n PROVE FALSE
    OBVIOUS
  <2>2. q * b + b <= n * b
    BY <1>3, <2>1, Apart
  <2> QED
    BY <1>1, <1>2, <1>3, <2>2
<1>5. ~(n < q)
  <2>1. SUFFICES ASSUME n < q PROVE FALSE
    OBVIOUS
  <2>2. n * b + b <= q * b
    BY <1>3, <2>1, Apart
  <2> QED
    BY <1>1, <1>2, <1>3, <2>2
<1> QED
  BY <1>2, <1>3, <1>4, <1>5 DEF q

\* How many rows of b hold n: none of them is empty.
LEMMA RowsIs ==
  ASSUME NEW b \in Nat \ {0}, NEW n \in Nat \ {0}, NEW q, q = (n + b - 1) \div b
  PROVE  q \in Nat \ {0} /\ (q - 1) * b < n /\ n <= q * b /\ (q - 1) * b \in Nat /\ q * b \in Nat /\ (q - 1) * b + b = q * b
<1>1. n + b - 1 \in Int
  OBVIOUS
<1>2. q \in Int /\ b * q <= n + b - 1 /\ n + b - 1 < b * q + b
  BY <1>1, QuotientIs
<1>3. q >= 1
  <2>1. SUFFICES ASSUME q < 1 PROVE FALSE
    BY <1>2
  <2>2. q * b + b <= 1 * b
    BY <1>2, <2>1, Apart
  <2> QED
    BY <1>2, <2>2
<1>4. (q - 1) * b + b = q * b
  BY <1>2
<1>5. q - 1 \in Nat /\ q \in Nat
  BY <1>2, <1>3
<1>6. (q - 1) * b \in Nat /\ q * b \in Nat
  BY <1>5
<1>7. (q - 1) * b < n /\ n <= q * b
  <2> DEFINE x == q * b
             y == (q - 1) * b
  <2>1. x \in Int /\ y \in Int /\ y + b = x /\ x <= n + b - 1 /\ n + b - 1 < x + b
    BY <1>2, <1>4, <1>6
  <2> HIDE DEF x, y
  <2>2. y < n /\ n <= x
    BY <2>1
  <2> QED
    BY <2>2 DEF x, y
<1> QED
  BY <1>2, <1>3, <1>4, <1>6, <1>7

LEMMA OneMore ==
  ASSUME NEW a \in Nat \ {0}, NEW b \in Nat
  PROVE  (a - 1) * b \in Nat /\ a * b \in Nat /\ a * b = (a - 1) * b + b
<1>1. a - 1 \in Nat
  OBVIOUS
<1>2. (a - 1) * b \in Nat /\ a * b \in Nat
  BY <1>1
<1>3. a * b = (a - 1) * b + b
  OBVIOUS
<1> QED
  BY <1>2, <1>3

\* Chunks and tags of some size.
SizesGood == ChunkSize \in Nat \ {0} /\ TagSize \in Nat \ {0}
\* The size of a sealed text.
Total(len) == len + Pieces(len) * TagSize

LEMMA BoxIs ==
  ASSUME SizesGood
  PROVE  Box \in Nat \ {0} /\ Box = ChunkSize + TagSize /\ TagSize < Box /\ ChunkSize < Box
BY DEF SizesGood, Box

\* All chunks but the last are full, and that one is empty only if it is alone.
LEMMA PiecesAre ==
  ASSUME SizesGood, NEW len \in Nat, NEW p, p = Pieces(len), NEW last, last = PieceSize(len, p - 1)
  PROVE  /\ p \in Nat \ {0} /\ (p - 1) * Box \in Nat /\ last \in TagSize..Box
         /\ Total(len) = (p - 1) * Box + last /\ (last = TagSize => p = 1)
         /\ \A n \in Int : n # p - 1 => PieceSize(len, n) = Box
<1>1. \A n \in Int : n # p - 1 => PieceSize(len, n) = Box
  BY BoxIs DEF PieceSize, SizesGood
<1>2. last = TagSize + (len - (p - 1) * ChunkSize)
  BY DEF PieceSize
<1>3. CASE len = 0
  <2>1. p = 1
    BY <1>3 DEF Pieces
  <2>2. last = TagSize /\ (p - 1) * Box = 0 /\ Total(len) = TagSize
    BY <1>2, <1>3, <2>1, BoxIs DEF SizesGood, Total
  <2>3. last \in TagSize..Box
    BY <2>2, BoxIs DEF SizesGood
  <2>4. Total(len) = (p - 1) * Box + last
    BY <2>2 DEF SizesGood
  <2>5. (p - 1) * Box \in Nat
    BY <2>2
  <2>6. p \in Nat \ {0} /\ (last = TagSize => p = 1)
    BY <2>1
  <2> QED
    BY <1>1, <2>3, <2>4, <2>5, <2>6, Zenon
<1>4. CASE len # 0
  <2>1. p = (len + ChunkSize - 1) \div ChunkSize
    BY <1>4 DEF Pieces
  <2>2. p \in Nat \ {0} /\ (p - 1) * ChunkSize < len /\ len <= p * ChunkSize /\ (p - 1) * ChunkSize \in Nat
        /\ p * ChunkSize \in Nat /\ (p - 1) * ChunkSize + ChunkSize = p * ChunkSize
    BY <1>4, <2>1, RowsIs DEF SizesGood
  <2> DEFINE x == (p - 1) * ChunkSize
  <2>3. last = TagSize + (len - x) /\ x \in Nat /\ x < len /\ len <= x + ChunkSize
    BY <1>2, <2>2
  <2>4. (p - 1) * Box = x + (p - 1) * TagSize
    BY <2>2, BoxIs DEF SizesGood
  <2>5. (p - 1) * TagSize \in Nat /\ p * TagSize = (p - 1) * TagSize + TagSize
    BY <2>2, OneMore DEF SizesGood
  <2> HIDE DEF x
  <2>6. last \in Int /\ TagSize < last /\ last <= Box
    BY <2>3, BoxIs DEF SizesGood
  <2>7. Total(len) = (p - 1) * Box + last
    BY <2>3, <2>4, <2>5 DEF Total, SizesGood
  <2>8. (p - 1) * Box \in Nat
    BY <2>3, <2>4, <2>5
  <2> QED
    BY <1>1, <2>2, <2>6, <2>7, <2>8, BoxIs DEF SizesGood
<1> QED
  BY <1>3, <1>4

\* The place of a cell, by its chunk and its place there.
LEMMA CellAt ==
  ASSUME SizesGood, NEW len \in Nat, NEW i \in 1..Total(len), NEW n, n = (i - 1) \div Box, NEW at, at = i - n * Box
  PROVE  n \in 0..Pieces(len) - 1 /\ at \in 1..PieceSize(len, n) /\ i = n * Box + at
<1> DEFINE p == Pieces(len)
           last == PieceSize(len, p - 1)
<1>1. /\ p \in Nat \ {0} /\ (p - 1) * Box \in Nat /\ last \in TagSize..Box /\ Total(len) = (p - 1) * Box + last
      /\ \A m \in Int : m # p - 1 => PieceSize(len, m) = Box
  BY PiecesAre
<1>2. Box \in Nat \ {0}
  BY BoxIs
<1>3. i \in Nat \ {0} /\ i <= (p - 1) * Box + last
  BY <1>1, <1>2 DEF SizesGood
<1>4. n \in Nat /\ at \in 1..Box /\ n * Box \in Nat /\ i = n * Box + at
  BY <1>2, <1>3, PlaceIs
<1>5. ~(p - 1 < n)
  <2>1. SUFFICES ASSUME p - 1 < n PROVE FALSE
    OBVIOUS
  <2>2. (p - 1) * Box + Box <= n * Box
    BY <1>1, <1>2, <1>4, <2>1, Apart
  <2> QED
    BY <1>1, <1>2, <1>3, <1>4, <2>2 DEF SizesGood
<1>6. at \in 1..PieceSize(len, n)
  <2>1. CASE n = p - 1
    <3>1. at <= last
      BY <1>1, <1>2, <1>3, <1>4, <2>1 DEF SizesGood
    <3> QED
      BY <1>1, <1>4, <2>1, <3>1 DEF SizesGood
  <2>2. CASE n # p - 1
    BY <1>1, <1>4, <2>2
  <2> QED
    BY <2>1, <2>2
<1> QED
  BY <1>1, <1>4, <1>5, <1>6

LEMMA CellOf ==
  ASSUME SizesGood, NEW len \in Nat, NEW n \in 0..Pieces(len) - 1, NEW at \in 1..PieceSize(len, n), NEW i, i = n * Box + at
  PROVE  i \in 1..Total(len) /\ (i - 1) \div Box = n /\ i - n * Box = at
<1> DEFINE p == Pieces(len)
           last == PieceSize(len, p - 1)
<1>1. /\ p \in Nat \ {0} /\ (p - 1) * Box \in Nat /\ last \in TagSize..Box /\ Total(len) = (p - 1) * Box + last
      /\ \A m \in Int : m # p - 1 => PieceSize(len, m) = Box
  BY PiecesAre
<1>2. Box \in Nat \ {0}
  BY BoxIs
<1>3. n \in Nat /\ n <= p - 1
  BY <1>1
<1> HIDE DEF p, last
<1>4. PieceSize(len, n) \in 1..Box
  <2>1. last \in 1..Box
    BY <1>1, <1>2 DEF SizesGood
  <2>2. Box \in 1..Box
    BY <1>2
  <2>3. CASE n = p - 1
    BY <2>1, <2>3 DEF last
  <2>4. CASE n # p - 1
    BY <1>1, <1>3, <2>2, <2>4
  <2> QED
    BY <2>3, <2>4
<1>5. at \in 1..Box
  BY <1>2, <1>4
<1>6. i \in Nat \ {0} /\ (i - 1) \div Box = n /\ i - n * Box = at
  BY <1>2, <1>3, <1>5, PlaceOf
<1>7. i <= (p - 1) * Box + last
  <2>1. CASE n = p - 1
    BY <1>1, <1>2, <1>4, <1>5, <2>1 DEF last
  <2>2. CASE n # p - 1
    <3>1. n * Box + Box <= (p - 1) * Box /\ n * Box \in Int
      <4>1. n \in Int /\ p - 1 \in Int /\ n < p - 1 /\ Box \in Nat
        BY <1>1, <1>2, <1>3, <2>2
      <4> HIDE DEF p
      <4> QED
        BY <4>1, Apart
    <3> QED
      BY <1>1, <1>2, <1>5, <3>1 DEF SizesGood
  <2> QED
    BY <2>1, <2>2
<1> QED
  BY <1>1, <1>6, <1>7 DEF SizesGood

\* The slices of a payload: full ones, and what is left.
LEMMA SlicesAre ==
  ASSUME SizesGood, NEW S, NEW cells \in Seq(S), Len(cells) # 0, NEW q, q = Slices(cells)
  PROVE  /\ q \in Nat \ {0} /\ (q - 1) * Box \in Nat /\ (q - 1) * Box < Len(cells) /\ Len(cells) <= (q - 1) * Box + Box
         /\ \A c \in 0..q - 1 : /\ SliceSize(cells, c) = IF c = q - 1 THEN Len(cells) - c * Box ELSE Box
                                /\ SliceSize(cells, c) \in 1..Box /\ c * Box \in Nat
                                /\ c * Box + SliceSize(cells, c) <= Len(cells)
                                /\ IsLast(cells, c) <=> c = q - 1
<1> DEFINE m == Len(cells)
<1>1. m \in Nat \ {0} /\ Box \in Nat \ {0}
  BY BoxIs
<1>2. q = (m + Box - 1) \div Box
  BY DEF Slices
<1> HIDE DEF m
<1>3. q \in Nat \ {0} /\ (q - 1) * Box < m /\ m <= q * Box /\ (q - 1) * Box \in Nat /\ q * Box \in Nat /\ (q - 1) * Box + Box = q * Box
  BY <1>1, <1>2, RowsIs
<1>4. ASSUME NEW c \in 0..q - 1
      PROVE  /\ SliceSize(cells, c) = IF c = q - 1 THEN m - c * Box ELSE Box
             /\ SliceSize(cells, c) \in 1..Box /\ c * Box \in Nat
             /\ c * Box + SliceSize(cells, c) <= m
             /\ IsLast(cells, c) <=> c = q - 1
  <2> DEFINE size == SliceSize(cells, c)
             at == c * Box
  <2>1. c \in Nat /\ at \in Nat
    BY <1>1, <1>3
  <2>2. size = IF m - at > Box THEN Box ELSE m - at
    BY DEF SliceSize, m
  <2>3. IsLast(cells, c) <=> at + size = m
    BY DEF IsLast, m
  <2>4. CASE c = q - 1
    <3>1. at = (q - 1) * Box
      BY <2>4
    <3> HIDE DEF at, size
    <3>2. size = m - at /\ size \in 1..Box /\ at + size = m
      BY <1>1, <1>3, <2>1, <2>2, <3>1
    <3> QED
      BY <2>1, <2>3, <2>4, <3>2 DEF at, size
  <2>5. CASE c # q - 1
    <3>1. c < q - 1 /\ c \in Int /\ q - 1 \in Int
      BY <1>3, <2>1, <2>5
    <3>2. at + Box <= (q - 1) * Box
      BY <1>1, <3>1, Apart
    <3> HIDE DEF at, size
    <3>3. size = Box /\ size \in 1..Box /\ at + size < m
      BY <1>1, <1>3, <2>1, <2>2, <3>2
    <3>4. at + size # m /\ at + size <= m
      BY <1>1, <2>1, <3>3
    <3> QED
      BY <2>1, <2>3, <2>5, <3>3, <3>4 DEF at, size
  <2> QED
    BY <2>4, <2>5
<1> QED
  BY <1>3, <1>4 DEF m

\* What is in a slice.
LEMMA SliceIs ==
  ASSUME SizesGood, NEW S, NEW cells \in Seq(S), Len(cells) # 0, NEW c \in 0..Slices(cells) - 1
  PROVE  /\ Len(Slice(cells, c)) = SliceSize(cells, c) /\ DOMAIN Slice(cells, c) = 1..SliceSize(cells, c)
         /\ \A i \in 1..SliceSize(cells, c) : /\ c * Box + i \in 1..Len(cells)
                                              /\ Slice(cells, c)[i] = cells[c * Box + i]
<1> DEFINE size == SliceSize(cells, c)
           at == c * Box
<1>1. size \in 1..Box /\ at \in Nat /\ at + size <= Len(cells)
  BY SlicesAre
<1>2. Box \in Nat
  BY BoxIs
<1>3. Slice(cells, c) = SubSeq(cells, at + 1, at + size)
  BY DEF Slice
<1> HIDE DEF size, at
<1>4. Len(SubSeq(cells, at + 1, at + size)) = size /\ DOMAIN SubSeq(cells, at + 1, at + size) = 1..size
  BY <1>1, <1>2
<1>5. \A i \in 1..size : at + i \in 1..Len(cells) /\ SubSeq(cells, at + 1, at + size)[i] = cells[at + i]
  BY <1>1, <1>2
<1> QED
  BY <1>3, <1>4, <1>5 DEF size, at

LEMMA InBox ==
  ASSUME SizesGood, NEW i \in Nat \ {0}, NEW n, n = (i - 1) \div Box, NEW at, at = i - n * Box
  PROVE  n \in Nat /\ at \in 1..Box /\ n * Box \in Nat /\ i = n * Box + at
<1>1. Box \in Nat \ {0}
  BY BoxIs
<1> QED
  BY <1>1, PlaceIs

\* Every place is in some slice.
LEMMA InSlice ==
  ASSUME SizesGood, NEW S, NEW cells \in Seq(S), Len(cells) # 0, NEW p \in 1..Len(cells),
         NEW n, n = (p - 1) \div Box, NEW at, at = p - n * Box
  PROVE  n \in 0..Slices(cells) - 1 /\ at \in 1..SliceSize(cells, n) /\ p = n * Box + at
<1> DEFINE q == Slices(cells)
           m == Len(cells)
<1>1. /\ q \in Nat \ {0} /\ (q - 1) * Box \in Nat /\ (q - 1) * Box < m /\ m <= (q - 1) * Box + Box
      /\ \A c \in 0..q - 1 : SliceSize(cells, c) = IF c = q - 1 THEN m - c * Box ELSE Box
  BY SlicesAre
<1>2. Box \in Nat \ {0} /\ p \in Nat \ {0} /\ p <= m /\ m \in Nat
  BY BoxIs
<1>3. n \in Nat /\ at \in 1..Box /\ n * Box \in Nat /\ p = n * Box + at
  <2>1. n \in Nat /\ at \in 1..Box /\ n * Box \in Nat
    BY <1>2, InBox, Zenon
  <2> QED
    BY <1>2, <2>1
<1> HIDE DEF q, m
<1>4. ~(q - 1 < n)
  <2>1. SUFFICES ASSUME q - 1 < n PROVE FALSE
    OBVIOUS
  <2>2. (q - 1) * Box + Box <= n * Box
    <3>1. q - 1 \in Int /\ n \in Int /\ Box \in Nat
      BY <1>1, <1>2, <1>3
    <3> QED
      BY <2>1, <3>1, Apart, Zenon
  <2> QED
    BY <1>1, <1>2, <1>3, <2>2
<1>5. n \in 0..q - 1
  BY <1>1, <1>3, <1>4
<1>6. at \in 1..SliceSize(cells, n)
  <2>1. CASE n = q - 1
    <3>1. SliceSize(cells, n) = m - n * Box
      BY <1>1, <1>5, <2>1
    <3> QED
      BY <1>2, <1>3, <3>1
  <2>2. CASE n # q - 1
    BY <1>1, <1>3, <1>5, <2>2
  <2> QED
    BY <2>1, <2>2
<1> QED
  BY <1>3, <1>5, <1>6 DEF q

\* What is in a sealed text.
LEMMA BodyIs ==
  ASSUME SizesGood, NEW Data, NEW text \in Seq(Data), NEW key, NEW nonce
  PROVE  /\ DOMAIN Body(text, key, nonce) = 1..Total(Len(text)) /\ Len(Body(text, key, nonce)) = Total(Len(text))
         /\ Body(text, key, nonce) \in Seq(Range(Body(text, key, nonce)))
         /\ Total(Len(text)) \in Nat \ {0}
         /\ \A n \in 0..Pieces(Len(text)) - 1 : \A at \in 1..PieceSize(Len(text), n) :
              /\ n * Box + at \in 1..Total(Len(text))
              /\ Body(text, key, nonce)[n * Box + at] = Cell(text, key, nonce, n, at)
<1> DEFINE len == Len(text)
           b == Body(text, key, nonce)
           p == Pieces(len)
           last == PieceSize(len, p - 1)
<1>1. b = [i \in 1..Total(len) |-> Cell(text, key, nonce, (i - 1) \div Box, i - ((i - 1) \div Box) * Box)]
  BY Zenon DEF Body, Total
<1>2. len \in Nat
  OBVIOUS
<1> HIDE DEF len
<1>3. Total(len) \in Nat \ {0}
  <2>1. p \in Nat \ {0} /\ (p - 1) * Box \in Nat /\ last \in TagSize..Box /\ Total(len) = (p - 1) * Box + last
    BY <1>2, PiecesAre
  <2> HIDE DEF p, last
  <2> QED
    BY <2>1, BoxIs DEF SizesGood
<1>4. ASSUME NEW n \in 0..p - 1, NEW at \in 1..PieceSize(len, n)
      PROVE  n * Box + at \in 1..Total(len) /\ b[n * Box + at] = Cell(text, key, nonce, n, at)
  <2> DEFINE i == n * Box + at
  <2>1. i \in 1..Total(len) /\ (i - 1) \div Box = n /\ i - n * Box = at
    BY <1>2, CellOf
  <2> HIDE DEF i, b
  <2>2. b[i] = Cell(text, key, nonce, (i - 1) \div Box, i - ((i - 1) \div Box) * Box)
    BY <1>1, <2>1
  <2>3. b[i] = Cell(text, key, nonce, n, at)
    BY <2>1, <2>2, Zenon
  <2> QED
    BY <2>1, <2>3, Zenon DEF i
<1> HIDE DEF b, p
<1>5. DOMAIN b = 1..Total(len)
  BY <1>1
<1>6. b \in Seq(Range(b)) /\ Len(b) = Total(len)
  <2>1. Total(len) \in Nat
    BY <1>3
  <2>2. b \in [1..Total(len) -> Range(b)]
    <3> HIDE DEF b
    <3> QED
      BY <1>1, Zenon DEF Range
  <2>3. b \in Seq(Range(b))
    BY <2>1, <2>2, SeqDef
  <2>4. Len(b) \in Nat /\ 1..Len(b) = 1..Total(len)
    BY <1>5, <2>3, LenProperties, Zenon
  <2>5. Len(b) = Total(len)
    BY <2>1, <2>4
  <2> QED
    BY <2>3, <2>5
<1> QED
  BY <1>3, <1>4, <1>5, <1>6, Zenon DEF b, len, p

\* A cell of a sealed text says where it is.
TellsTrue(x, text, key, nonce) ==
    /\ x.n * Box + x.at \in 1..Total(Len(text)) /\ x = Body(text, key, nonce)[x.n * Box + x.at] /\ x.nonce = nonce
    /\ x.last = (x.n = Pieces(Len(text)) - 1) /\ x.size = PieceSize(Len(text), x.n)
LEMMA CellTells ==
  ASSUME SizesGood, NEW Data, NEW text \in Seq(Data), NEW key, NEW nonce, NEW x \in Range(Body(text, key, nonce))
  PROVE  TellsTrue(x, text, key, nonce)
<1> DEFINE len == Len(text)
           b == Body(text, key, nonce)
<1>1. DOMAIN b = 1..Total(len)
  BY BodyIs
<1>2. PICK j \in 1..Total(len) : x = b[j]
  <2> HIDE DEF b
  <2> QED
    BY <1>1, Zenon DEF Range, b
<1>3. PICK n : n = (j - 1) \div Box
  OBVIOUS
<1>4. PICK at : at = j - n * Box
  OBVIOUS
<1>5. len \in Nat
  OBVIOUS
<1> HIDE DEF len
<1>6. n \in 0..Pieces(len) - 1 /\ at \in 1..PieceSize(len, n) /\ j = n * Box + at
  BY <1>3, <1>4, <1>5, CellAt
<1>7. b[n * Box + at] = Cell(text, key, nonce, n, at)
  BY <1>6, BodyIs, Zenon DEF len
<1>8. x = Cell(text, key, nonce, n, at)
  BY <1>2, <1>6, <1>7, Zenon
<1>9. x.n = n /\ x.at = at /\ x.nonce = nonce /\ x.last = (n = Pieces(len) - 1) /\ x.size = PieceSize(len, n)
  BY <1>8 DEF Cell, len
<1>10. x.n * Box + x.at = j
  BY <1>6, <1>9, Zenon
<1> HIDE DEF b
<1> QED
  BY <1>2, <1>9, <1>10, Zenon DEF TellsTrue, len, b

\* A payload whose slices all authenticate holds what was sealed, all of it.
LEMMA OnlyBody ==
  ASSUME SizesGood, NEW Data, NEW text \in Seq(Data), NEW key, NEW nonce, NEW S, NEW cells \in Seq(S), NEW given,
         Len(cells) # 0, \A p \in 1..Len(cells) : cells[p].key = key /\ cells[p].at # 0 => cells[p] \in Range(Body(text, key, nonce)),
         \A c \in 0..Slices(cells) - 1 : Authentic(Slice(cells, c), key, given, c, IsLast(cells, c))
  PROVE  given = nonce /\ cells = Body(text, key, nonce)
<1> DEFINE len == Len(text)
           b == Body(text, key, nonce)
           q == Slices(cells)
           m == Len(cells)
           last == PieceSize(len, Pieces(len) - 1)
<1>1. /\ q \in Nat \ {0} /\ (q - 1) * Box \in Nat
      /\ \A c \in 0..q - 1 : /\ SliceSize(cells, c) = IF c = q - 1 THEN m - c * Box ELSE Box
                             /\ SliceSize(cells, c) \in 1..Box
                             /\ IsLast(cells, c) <=> c = q - 1
  BY SlicesAre
<1>2. Box \in Nat \ {0} /\ m \in Nat \ {0}
  BY BoxIs
<1>3. ASSUME NEW c \in 0..q - 1, NEW i \in 1..SliceSize(cells, c)
      PROVE  /\ c * Box + i \in 1..Total(len) /\ cells[c * Box + i] = b[c * Box + i] /\ given = nonce
             /\ (c = q - 1) = (c = Pieces(len) - 1) /\ SliceSize(cells, c) = PieceSize(len, c)
  <2> DEFINE p == c * Box + i
             x == cells[p]
  <2>1. p \in 1..m /\ DOMAIN Slice(cells, c) = 1..SliceSize(cells, c) /\ Len(Slice(cells, c)) = SliceSize(cells, c)
        /\ Slice(cells, c)[i] = x
    BY SliceIs
  <2>2. Authentic(Slice(cells, c), key, given, c, IsLast(cells, c))
    BY Zenon
  <2> HIDE DEF x, p, q
  <2>3. x.key = key /\ x.nonce = given /\ x.n = c /\ x.last = IsLast(cells, c) /\ x.at = i /\ x.size = SliceSize(cells, c)
    BY <2>1, <2>2, Zenon DEF Authentic
  <2>4. i # 0
    BY <1>1
  <2>5. x \in Range(b)
    BY <2>1, <2>3, <2>4, Zenon DEF x
  <2> HIDE DEF b, m
  <2>6. p = x.n * Box + x.at
    BY <2>3, Zenon DEF p
  <2>7. /\ p \in 1..Total(len) /\ x = b[p] /\ x.nonce = nonce
        /\ x.last = (x.n = Pieces(len) - 1) /\ x.size = PieceSize(len, x.n)
    <3>1. /\ x.n * Box + x.at \in 1..Total(len) /\ x = b[x.n * Box + x.at] /\ x.nonce = nonce
          /\ x.last = (x.n = Pieces(len) - 1) /\ x.size = PieceSize(len, x.n)
      <4>1. TellsTrue(x, text, key, nonce)
        BY <2>5, CellTells, Zenon DEF b
      <4> QED
        BY <4>1, Zenon DEF TellsTrue, len, b
    <3> QED
      BY <2>6, <3>1, Zenon
  <2>8. (c = q - 1) = (c = Pieces(len) - 1)
    <3>1. IsLast(cells, c) = (c = Pieces(len) - 1)
      BY <2>3, <2>7, Zenon
    <3>2. IsLast(cells, c) \in BOOLEAN
      BY DEF IsLast
    <3> QED
      BY <1>1, <3>1, <3>2
  <2> QED
    BY <2>3, <2>7, <2>8, Zenon DEF x, p
<1>4. q - 1 \in 0..q - 1 /\ 1 \in 1..SliceSize(cells, q - 1)
  BY <1>1, <1>2
<1>5. given = nonce /\ (q - 1 = Pieces(len) - 1) /\ SliceSize(cells, q - 1) = PieceSize(len, q - 1)
  BY <1>3, <1>4, Zenon
<1>6. m = Total(len)
  <2>1. Total(len) = (Pieces(len) - 1) * Box + last /\ last \in TagSize..Box
    BY PiecesAre
  <2>2. last = m - (q - 1) * Box
    BY <1>1, <1>4, <1>5
  <2>3. Total(len) = (q - 1) * Box + last
    BY <1>5, <2>1, Zenon
  <2> HIDE DEF m, last, q
  <2> QED
    BY <1>1, <1>2, <2>2, <2>3
<1>7. ASSUME NEW p \in 1..m PROVE cells[p] = b[p]
  <2>1. PICK n : n = (p - 1) \div Box
    OBVIOUS
  <2>2. PICK at : at = p - n * Box
    OBVIOUS
  <2>3. n \in 0..q - 1 /\ at \in 1..SliceSize(cells, n) /\ p = n * Box + at
    BY <2>1, <2>2, InSlice
  <2>4. cells[n * Box + at] = b[n * Box + at]
    BY <1>3, <2>3, Zenon
  <2> QED
    BY <2>3, <2>4, Zenon
<1>8. DOMAIN b = 1..Total(len) /\ Len(b) = Total(len) /\ b \in Seq(Range(b))
  BY BodyIs
<1>9. cells = b
  <2> HIDE DEF b, len
  <2>1. Len(cells) = Len(b) /\ \A p \in 1..Len(cells) : cells[p] = b[p]
    BY <1>6, <1>7, <1>8
  <2>2. cells \in Seq(S) /\ b \in Seq(Range(b))
    BY <1>8
  <2> QED
    BY <2>1, <2>2, SeqEqual
<1> QED
  BY <1>5, <1>9

\* A sealed text has as many slices as it had chunks, of their sizes.
LEMMA SlicesOfBody ==
  ASSUME SizesGood, NEW Data, NEW text \in Seq(Data), NEW key, NEW nonce
  PROVE  /\ Slices(Body(text, key, nonce)) = Pieces(Len(text))
         /\ \A c \in 0..Pieces(Len(text)) - 1 : SliceSize(Body(text, key, nonce), c) = PieceSize(Len(text), c)
<1> DEFINE len == Len(text)
           b == Body(text, key, nonce)
           p == Pieces(len)
           q == Slices(b)
           last == PieceSize(len, p - 1)
           m == Len(b)
<1>1. m = Total(len) /\ b \in Seq(Range(b)) /\ Total(len) \in Nat \ {0}
  BY BodyIs, Zenon
<1>2. len \in Nat
  OBVIOUS
<1> HIDE DEF b
<1>3. Len(b) # 0
  BY <1>1
<1>4. /\ q \in Nat \ {0} /\ (q - 1) * Box \in Nat /\ (q - 1) * Box < m /\ m <= (q - 1) * Box + Box
      /\ \A c \in 0..q - 1 : SliceSize(b, c) = IF c = q - 1 THEN m - c * Box ELSE Box
  BY <1>1, <1>3, SlicesAre
<1> HIDE DEF len, q, m
<1>5. /\ p \in Nat \ {0} /\ (p - 1) * Box \in Nat /\ last \in TagSize..Box
      /\ m = (p - 1) * Box + last /\ \A n \in Int : n # p - 1 => PieceSize(len, n) = Box
  BY <1>1, <1>2, PiecesAre
<1> HIDE DEF p
<1>6. Box \in Nat \ {0} /\ last \in Nat /\ 0 < last /\ last <= Box
  BY <1>5, BoxIs DEF SizesGood
<1> HIDE DEF last
<1>7. q = p
  <2>1. q - 1 \in Int /\ p - 1 \in Int /\ Box \in Nat
    BY <1>4, <1>5, <1>6
  <2>2. ~(q - 1 < p - 1)
    <3>1. SUFFICES ASSUME q - 1 < p - 1 PROVE FALSE
      OBVIOUS
    <3>2. (q - 1) * Box + Box <= (p - 1) * Box
      BY <2>1, <3>1, Apart, Zenon
    <3> QED
      BY <1>4, <1>5, <1>6, <3>2
  <2>3. ~(p - 1 < q - 1)
    <3>1. SUFFICES ASSUME p - 1 < q - 1 PROVE FALSE
      OBVIOUS
    <3>2. (p - 1) * Box + Box <= (q - 1) * Box
      BY <2>1, <3>1, Apart, Zenon
    <3> QED
      BY <1>4, <1>5, <1>6, <3>2
  <2> QED
    BY <1>4, <1>5, <2>2, <2>3
<1>8. ASSUME NEW c \in 0..p - 1 PROVE SliceSize(b, c) = PieceSize(len, c)
  <2>1. SliceSize(b, c) = IF c = p - 1 THEN m - c * Box ELSE Box
    BY <1>4, <1>7
  <2>2. CASE c = p - 1
    <3>1. m - c * Box = last
      BY <1>5, <1>6, <2>2
    <3> QED
      BY <2>1, <2>2, <3>1 DEF last
  <2>3. CASE c # p - 1
    <3>1. c \in Int
      OBVIOUS
    <3> QED
      BY <1>5, <2>1, <2>3, <3>1, Zenon
  <2> QED
    BY <2>2, <2>3
<1> QED
  BY <1>7, <1>8 DEF q, p, b, len

LEMMA BodyOpens ==
  ASSUME SizesGood, NEW Data, NEW text \in Seq(Data), NEW key, NEW nonce
  PROVE  PlainText(Body(text, key, nonce)) = text
<1> DEFINE len == Len(text)
           b == Body(text, key, nonce)
           p == Pieces(len)
           o == PlainText(b)
<1>1. Len(b) = Total(len) /\ Slices(b) = p
  BY BodyIs, SlicesOfBody, Zenon
<1>2. len \in Nat
  OBVIOUS
<1>3. \A n \in 0..p - 1 : \A at \in 1..PieceSize(len, n) : b[n * Box + at] = Cell(text, key, nonce, n, at)
  BY BodyIs, Zenon
<1> HIDE DEF len, b
<1>4. p \in Nat \ {0}
  BY <1>2, PiecesAre
<1> HIDE DEF p
<1>5. Len(b) - Slices(b) * TagSize = len
  <2>1. p * TagSize \in Int
    BY <1>4 DEF SizesGood
  <2>2. Total(len) = len + p * TagSize
    BY DEF Total, p
  <2> QED
    BY <1>1, <1>2, <2>1, <2>2
<1>6. o = [k \in 1..len |-> b[((k - 1) \div ChunkSize) * Box + (k - ((k - 1) \div ChunkSize) * ChunkSize)].byte]
  BY <1>5, Zenon DEF PlainText
<1> HIDE DEF o
<1>7. ASSUME NEW k \in 1..len PROVE o[k] = text[k]
  <2>1. PICK n : n = (k - 1) \div ChunkSize
    OBVIOUS
  <2>2. PICK at : at = k - n * ChunkSize
    OBVIOUS
  <2>3. k \in Nat \ {0} /\ ChunkSize \in Nat \ {0} /\ k <= len /\ TagSize \in Nat \ {0} /\ len # 0
    BY <1>2 DEF SizesGood
  <2>4. n \in Nat /\ at \in 1..ChunkSize /\ n * ChunkSize \in Nat
    BY <2>1, <2>2, <2>3, PlaceIs
  <2>5. k = n * ChunkSize + at
    BY <2>2, <2>3, <2>4
  <2>6. p = (len + ChunkSize - 1) \div ChunkSize
    BY <2>3 DEF p, Pieces
  <2>7. len <= p * ChunkSize /\ (p - 1) * ChunkSize + ChunkSize = p * ChunkSize /\ p * ChunkSize \in Nat /\ (p - 1) * ChunkSize \in Nat
    BY <1>2, <2>3, <2>6, RowsIs
  <2>8. ~(p - 1 < n)
    <3>1. SUFFICES ASSUME p - 1 < n PROVE FALSE
      OBVIOUS
    <3>2. p - 1 \in Int /\ n \in Int /\ ChunkSize \in Nat
      BY <1>4, <2>3, <2>4
    <3>3. (p - 1) * ChunkSize + ChunkSize <= n * ChunkSize
      BY <3>1, <3>2, Apart, Zenon
    <3> QED
      BY <1>2, <2>3, <2>4, <2>5, <2>7, <3>3
  <2>9. n \in 0..p - 1
    BY <1>4, <2>4, <2>8
  <2>10. PieceSize(len, n) = TagSize + (IF n = p - 1 THEN len - n * ChunkSize ELSE ChunkSize)
    BY Zenon DEF PieceSize, p
  <2>11. PieceSize(len, n) \in Int /\ at + TagSize <= PieceSize(len, n)
    BY <1>2, <2>3, <2>4, <2>5, <2>10
  <2>12. at \in 1..PieceSize(len, n)
    BY <2>3, <2>4, <2>11
  <2>13. o[k] = b[n * Box + at].byte
    BY <1>6, <2>1, <2>2, Zenon
  <2>14. b[n * Box + at] = Cell(text, key, nonce, n, at)
    BY <1>3, <2>9, <2>12, Zenon
  <2>15. Cell(text, key, nonce, n, at).byte = text[n * ChunkSize + at]
    BY <2>11 DEF Cell, len
  <2> QED
    BY <2>5, <2>13, <2>14, <2>15, Zenon
<1>8. DOMAIN o = 1..len
  BY <1>6
<1>9. text = [k \in 1..len |-> text[k]]
  BY DEF len
<1>10. o = [k \in 1..len |-> o[k]]
  <2> HIDE DEF o
  <2> QED
    BY <1>6, <1>8, Zenon
<1> QED
  BY <1>7, <1>9, <1>10 DEF o, b

LEMMA BodyAuthentic ==
  ASSUME SizesGood, NEW Data, NEW text \in Seq(Data), NEW key, NEW nonce, NEW c \in 0..Slices(Body(text, key, nonce)) - 1
  PROVE  /\ Sized(Slice(Body(text, key, nonce), c), c)
         /\ Authentic(Slice(Body(text, key, nonce), c), key, nonce, c, IsLast(Body(text, key, nonce), c))
<1> DEFINE len == Len(text)
           b == Body(text, key, nonce)
           p == Pieces(len)
           s == Slice(b, c)
           size == PieceSize(len, c)
<1>1. c \in 0..p - 1 /\ SliceSize(b, c) = size
  BY SlicesOfBody, Zenon
<1>2. Len(b) # 0 /\ b \in Seq(Range(b))
  BY BodyIs
<1>3. /\ Len(s) = size /\ DOMAIN s = 1..size
      /\ \A i \in 1..size : s[i] = b[c * Box + i]
  BY <1>1, <1>2, SliceIs, Zenon
<1>4. IsLast(b, c) <=> c = p - 1
  <2>1. Slices(b) = p
    BY SlicesOfBody, Zenon
  <2> HIDE DEF b, p
  <2> QED
    BY <1>1, <1>2, <2>1, SlicesAre
<1>5. \A i \in 1..size : b[c * Box + i] = Cell(text, key, nonce, c, i)
  BY <1>1, BodyIs, Zenon
<1>6. Sized(s, c)
  <2>1. len \in Nat
    OBVIOUS
  <2>2. p \in Nat \ {0} /\ PieceSize(len, p - 1) \in TagSize..Box /\ (PieceSize(len, p - 1) = TagSize => p = 1)
        /\ \A n \in Int : n # p - 1 => PieceSize(len, n) = Box
    <3> HIDE DEF len
    <3> QED
      BY <2>1, PiecesAre
  <2> HIDE DEF len, b, s, p, size
  <2>3. CASE c = p - 1
    <3>1. size = PieceSize(len, p - 1)
      BY <2>3 DEF size
    <3> QED
      BY <1>3, <2>2, <2>3, <3>1, BoxIs DEF Sized, SizesGood
  <2>4. CASE c # p - 1
    <3>1. size = Box
      BY <1>1, <2>2, <2>4 DEF size
    <3> QED
      BY <1>3, <3>1, BoxIs DEF Sized, SizesGood
  <2> QED
    BY <2>3, <2>4
<1>7. Authentic(s, key, nonce, c, IsLast(b, c))
  <2> SUFFICES ASSUME NEW i \in 1..size
               PROVE  /\ s[i].key = key /\ s[i].nonce = nonce /\ s[i].n = c /\ s[i].last = IsLast(b, c)
                      /\ s[i].at = i /\ s[i].size = size
    BY <1>3, Zenon DEF Authentic
  <2>1. s[i] = Cell(text, key, nonce, c, i)
    BY <1>3, <1>5, Zenon
  <2> HIDE DEF s, b, size
  <2>2. s[i].key = key /\ s[i].nonce = nonce /\ s[i].n = c /\ s[i].last = (c = p - 1) /\ s[i].at = i /\ s[i].size = PieceSize(len, c)
    BY <2>1 DEF Cell
  <2>3. IsLast(b, c) \in BOOLEAN
    BY DEF IsLast
  <2> QED
    BY <1>4, <2>2, <2>3 DEF size
<1> QED
  BY <1>6, <1>7, Zenon

-----------------------------------------------------------------------------
(* The header, and the file.                                               *)

\* The stanzas of a header that the forwarder writes.
HeaderGood(stanzas, key) ==
    /\ stanzas # <<>> /\ Len(stanzas) <= MaxStanzas
    /\ \A i \in DOMAIN stanzas : /\ stanzas[i].formed /\ stanzas[i].shaped
                                 /\ stanzas[i].to = Me => stanzas[i].type = "X25519" /\ stanzas[i].key = key
    /\ Len(stanzas) > 1 => \A i \in DOMAIN stanzas : stanzas[i].type # "scrypt"

LEMMA SealedPayload ==
  ASSUME SizesGood, NEW Data, NEW text \in Seq(Data), NEW key, NEW nonce, NEW stanzas
  PROVE  LET in == Seal(text, stanzas, key, nonce).payload IN
         /\ in # <<>> /\ in[1] = Salt(nonce) /\ Tail(in) = Body(text, key, nonce)
         /\ \A x \in Range(in) : x.at # 0 => x \in Range(Body(text, key, nonce))
<1> DEFINE in == Seal(text, stanzas, key, nonce).payload
           b == Body(text, key, nonce)
           R == Range(b) \cup {Salt(nonce)}
<1>1. in = <<Salt(nonce)>> \o b
  BY DEF Seal
<1>2. b \in Seq(R) /\ <<Salt(nonce)>> \in Seq(R)
  <2>1. b \in Seq(Range(b))
    BY BodyIs, Zenon
  <2> HIDE DEF b
  <2> QED
    BY <2>1
<1> HIDE DEF in, b, R
<1>3. in \in Seq(R) /\ Len(in) = 1 + Len(b) /\ \A i \in 1..1 + Len(b) : in[i] = IF i <= 1 THEN Salt(nonce) ELSE b[i - 1]
  BY <1>1, <1>2
<1>4. in # <<>> /\ in[1] = Salt(nonce)
  BY <1>2, <1>3
<1>5. Tail(in) = b
  <2>1. Tail(in) \in Seq(R) /\ Len(Tail(in)) = Len(b) /\ \A i \in 1..Len(b) : Tail(in)[i] = b[i]
    BY <1>2, <1>3, <1>4
  <2> QED
    BY <1>2, <2>1, SeqEqual
<1>6. \A x \in Range(in) : x.at # 0 => x \in Range(b)
  <2> SUFFICES ASSUME NEW i \in DOMAIN in, in[i].at # 0 PROVE in[i] \in Range(b)
    BY Zenon DEF Range
  <2>1. Salt(nonce).at = 0
    BY DEF Salt
  <2>2. i \in 1..1 + Len(b) /\ i # 1
    BY <1>3, <1>4, <2>1
  <2>3. in[i] = b[i - 1] /\ i - 1 \in DOMAIN b
    BY <1>2, <1>3, <2>2
  <2> QED
    BY <2>3, Zenon DEF Range
<1> QED
  BY <1>4, <1>5, <1>6 DEF in, b

\* What a payload has of the key is the sealed payload's, and what has no place in a chunk is a nonce.
Genuine(in, made, key) ==
    \A i \in DOMAIN in : /\ in[i].key = key => in[i] \in Range(made)
                         /\ in[i].at = 0 => in[i] = Salt(in[i].nonce)

\* A payload is the one that was made, and decrypts to its text.
Unspoilt(in, made, key, text) == in = made /\ payload(key, in).text = text

\* A payload that decrypts is the sealed one.
LEMMA PayloadWhole ==
  ASSUME SizesGood, NEW Data, NEW text \in Seq(Data), NEW key, NEW nonce, NEW stanzas, NEW S, NEW in \in Seq(S),
         Genuine(in, Seal(text, stanzas, key, nonce).payload, key), payload(key, in).err = "ok"
  PROVE  Unspoilt(in, Seal(text, stanzas, key, nonce).payload, key, text)
<1> DEFINE cells == Tail(in)
           b == Body(text, key, nonce)
           made == Seal(text, stanzas, key, nonce).payload
<1>1. in # <<>>
  BY DEF payload, Refused
<1>2. /\ in[1].at = 0 /\ Len(cells) >= TagSize
      /\ \A c \in 0..Slices(cells) - 1 : Authentic(Slice(cells, c), key, in[1].nonce, c, IsLast(cells, c))
      /\ payload(key, in) = [err |-> "ok", text |-> PlainText(cells)]
  <2> DEFINE good == /\ in[1].at = 0 /\ Len(cells) >= TagSize
                     /\ \A c \in 0..Slices(cells) - 1 : /\ Sized(Slice(cells, c), c)
                                                        /\ Authentic(Slice(cells, c), key, in[1].nonce, c, IsLast(cells, c))
  <2>1. payload(key, in) = IF good THEN [err |-> "ok", text |-> PlainText(cells)] ELSE Refused("payload")
    BY <1>1, Zenon DEF payload
  <2> HIDE DEF good, cells
  <2>2. Refused("payload").err # "ok"
    BY DEF Refused
  <2>3. good
    BY <2>1, <2>2, Zenon
  <2> QED
    BY <2>1, <2>3, Zenon DEF good
<1>3. cells \in Seq(S) /\ Len(cells) = Len(in) - 1 /\ \A p \in 1..Len(cells) : cells[p] = in[p + 1] /\ p + 1 \in DOMAIN in
  BY <1>1
<1>4. Len(cells) # 0
  <2> HIDE DEF cells
  <2> QED
    BY <1>2, <1>3 DEF SizesGood
<1>5. made # <<>> /\ made[1] = Salt(nonce) /\ Tail(made) = b /\ \A x \in Range(made) : x.at # 0 => x \in Range(b)
  BY SealedPayload, Zenon
<1> HIDE DEF cells, made, b
<1>6. \A p \in 1..Len(cells) : cells[p].key = key /\ cells[p].at # 0 => cells[p] \in Range(b)
  BY <1>3, <1>5, Zenon DEF made, Genuine
<1>7. in[1].nonce = nonce /\ cells = b
  <2>1. PICK given : given = in[1].nonce
    OBVIOUS
  <2>2. \A c \in 0..Slices(cells) - 1 : Authentic(Slice(cells, c), key, given, c, IsLast(cells, c))
    BY <1>2, <2>1, Zenon
  <2>3. cells \in Seq(S)
    BY <1>3
  <2>4. given = nonce /\ cells = b
    BY <1>4, <1>6, <2>2, <2>3, OnlyBody DEF b
  <2> QED
    BY <2>1, <2>4
<1>8. in[1] = Salt(nonce)
  <2>1. 1 \in DOMAIN in
    BY <1>1
  <2> QED
    BY <1>2, <1>7, <2>1, Zenon DEF Genuine
<1>9. in = made
  <2>1. made = <<Salt(nonce)>> \o b
    BY DEF made, Seal, b
  <2>2. in = <<in[1]>> \o Tail(in)
    BY <1>1
  <2> QED
    BY <1>7, <1>8, <2>1, <2>2, Zenon DEF cells
<1>10. payload(key, in).text = text
  <2>1. PlainText(b) = text
    BY BodyOpens, Zenon DEF b
  <2>2. [err |-> "ok", text |-> PlainText(cells)].text = PlainText(cells)
    OBVIOUS
  <2> QED
    BY <1>2, <1>7, <2>1, <2>2, Zenon
<1> QED
  BY <1>9, <1>10, Zenon DEF made, Unspoilt

LEMMA PayloadOpens ==
  ASSUME SizesGood, NEW Data, NEW text \in Seq(Data), NEW key, NEW nonce, NEW stanzas
  PROVE  payload(key, Seal(text, stanzas, key, nonce).payload).err = "ok"
<1> DEFINE in == Seal(text, stanzas, key, nonce).payload
           cells == Tail(in)
           b == Body(text, key, nonce)
<1>1. in # <<>> /\ in[1] = Salt(nonce) /\ cells = b
  BY SealedPayload, Zenon
<1>2. Salt(nonce).at = 0 /\ Salt(nonce).nonce = nonce
  BY DEF Salt
<1>3. Len(b) >= TagSize
  <2>1. Len(b) = Total(Len(text))
    BY BodyIs, Zenon
  <2>2. PICK len \in Nat : len = Len(text)
    OBVIOUS
  <2>3. PICK p : p = Pieces(len)
    OBVIOUS
  <2>4. p \in Nat \ {0}
    BY <2>2, <2>3, PiecesAre
  <2>5. p * TagSize = (p - 1) * TagSize + TagSize /\ (p - 1) * TagSize \in Nat /\ TagSize \in Nat
    BY <2>4, OneMore DEF SizesGood
  <2>6. Total(len) >= TagSize
    BY <2>2, <2>3, <2>5 DEF Total
  <2> QED
    BY <2>1, <2>2, <2>6
<1>4. \A c \in 0..Slices(b) - 1 : Sized(Slice(b, c), c) /\ Authentic(Slice(b, c), key, nonce, c, IsLast(b, c))
  BY BodyAuthentic, Zenon
<1> HIDE DEF b, in
<1>5. payload(key, in) = [err |-> "ok", text |-> PlainText(b)]
  BY <1>1, <1>2, <1>3, <1>4, Zenon DEF payload
<1> QED
  BY <1>5 DEF in

\* A header that opens is the one that was sealed: of a file that is not forged.
LEMMA HeaderWhole ==
  ASSUME NEW sealed, NEW stanzas, NEW key, NEW file, sealed.mac = [key |-> key, over |-> stanzas],
         Unforged(sealed, key, file), age_decrypt(file).err = "ok"
  PROVE  /\ file.intro /\ file.end /\ file.stanzas = stanzas /\ file.mac = sealed.mac
         /\ age_decrypt(file) = payload(key, file.payload)
<1> DEFINE st == file.stanzas
           bad == \/ ~file.intro \/ ~file.end \/ st = <<>> \/ Len(st) > MaxStanzas
                  \/ \E i \in DOMAIN st : ~st[i].formed
                  \/ Len(st) > 1 /\ \E i \in DOMAIN st : st[i].type = "scrypt"
                  \/ \E i \in Tried(st) : ~st[i].shaped
           k == st[CHOOSE i \in Opens(st) : TRUE].key
<1>1. age_decrypt(file) = IF bad THEN Refused("header")
                          ELSE IF Opens(st) = {} THEN Refused("no match")
                          ELSE IF file.mac # [key |-> k, over |-> st] THEN Refused("mac") ELSE payload(k, file.payload)
  BY Zenon DEF age_decrypt
<1>2. Refused("header").err # "ok" /\ Refused("no match").err # "ok" /\ Refused("mac").err # "ok"
  BY DEF Refused
<1>4. ~bad => file.intro /\ file.end
  OBVIOUS
<1> HIDE DEF bad, k, st
<1>5. ~bad /\ Opens(st) # {} /\ file.mac = [key |-> k, over |-> st] /\ age_decrypt(file) = payload(k, file.payload)
  BY <1>1, <1>2, Zenon
<1>6. k = key
  <2>1. PICK i : i \in Opens(st) /\ k = st[i].key
    BY <1>5, Zenon DEF k
  <2>2. i \in DOMAIN st /\ st[i].to = Me
    BY <2>1, Zenon DEF Opens, Tried, X25519
  <2> QED
    BY <2>1, <2>2, Zenon DEF Unforged, st
<1>7. file.mac = sealed.mac
  <2>1. file.mac.key = key
    BY <1>5, <1>6
  <2> QED
    BY <2>1, Zenon DEF Unforged
<1>8. st = stanzas
  <2>1. [key |-> k, over |-> st].over = st /\ [key |-> key, over |-> stanzas].over = stanzas
    OBVIOUS
  <2> QED
    BY <1>5, <1>7, <2>1, Zenon
<1> QED
  BY <1>4, <1>5, <1>6, <1>7, <1>8, Zenon DEF st

\* A good header with a stanza for this identity opens.
LEMMA HeaderOpens ==
  ASSUME NEW file, NEW St, file.stanzas \in Seq(St), NEW key, file.intro, file.end, file.mac = [key |-> key, over |-> file.stanzas],
         HeaderGood(file.stanzas, key), MaxStanzas \in Nat, \E i \in DOMAIN file.stanzas : file.stanzas[i].to = Me
  PROVE  age_decrypt(file) = payload(key, file.payload)
<1> DEFINE st == file.stanzas
           Mine == {i \in DOMAIN st : st[i].to = Me}
           k == st[CHOOSE i \in Opens(st) : TRUE].key
           bad == \/ ~file.intro \/ ~file.end \/ st = <<>> \/ Len(st) > MaxStanzas
                  \/ \E j \in DOMAIN st : ~st[j].formed
                  \/ Len(st) > 1 /\ \E j \in DOMAIN st : st[j].type = "scrypt"
                  \/ \E j \in Tried(st) : ~st[j].shaped
<1>0. age_decrypt(file) = IF bad THEN Refused("header") ELSE IF Opens(st) = {} THEN Refused("no match")
                          ELSE IF file.mac # [key |-> k, over |-> st] THEN Refused("mac") ELSE payload(k, file.payload)
  BY Zenon DEF age_decrypt
<1>1. PICK i \in Mine : \A h \in Mine : i <= h
  <2>1. Mine \in SUBSET Nat /\ Mine # {}
    OBVIOUS
  <2> HIDE DEF Mine
  <2> QED
    BY <2>1, LeastOf, Zenon
<1>2. DOMAIN st = 1..Len(st) /\ Len(st) \in Nat
  OBVIOUS
<1>3. i \in Opens(st)
  <2>1. i \in DOMAIN st /\ st[i].to = Me /\ st[i].shaped /\ st[i].type = "X25519"
    BY <1>1, Zenon DEF HeaderGood
  <2>2. ASSUME NEW h \in X25519(st), h < i PROVE st[h].shaped /\ st[h].to # Me
    <3>1. h \in DOMAIN st
      BY Zenon DEF X25519
    <3>2. st[h].shaped
      BY <3>1, Zenon DEF HeaderGood
    <3>3. ~(i <= h)
      BY <1>2, <2>1, <2>2, <3>1
    <3>4. h \notin Mine
      <4> HIDE DEF Mine
      <4> QED
        BY <1>1, <3>3, Zenon
    <3> QED
      BY <3>1, <3>2, <3>4, Zenon
  <2>3. i \in X25519(st)
    BY <2>1, Zenon DEF X25519
  <2>4. i \in Tried(st)
    BY <2>2, <2>3, Zenon DEF Tried
  <2> QED
    BY <2>1, <2>4, Zenon DEF Opens
<1>4. k = key
  <2>1. PICK j : j \in Opens(st) /\ k = st[j].key
    BY <1>3, Zenon
  <2>2. j \in DOMAIN st /\ st[j].to = Me
    BY <2>1, Zenon DEF Opens, Tried, X25519
  <2> QED
    BY <2>1, <2>2, Zenon DEF HeaderGood
<1>5. \A j \in Tried(st) : st[j].shaped
  BY Zenon DEF Tried, X25519, HeaderGood
<1>6. ~(Len(st) > MaxStanzas)
  <2>1. Len(st) <= MaxStanzas
    BY Zenon DEF HeaderGood
  <2> QED
    BY <1>2, <2>1
<1>7. ~bad
  BY <1>5, <1>6, Zenon DEF HeaderGood
<1>8. file.mac = [key |-> k, over |-> st]
  BY <1>4, Zenon
<1>9. Opens(st) # {}
  BY <1>3, Zenon
<1> HIDE DEF bad, k, st
<1> QED
  BY <1>0, <1>4, <1>7, <1>8, <1>9, Zenon

\* Of a file that is not forged, what opens for this identity is what the forwarder sealed, whole and
\* with all of its text; and every sealed file with a stanza for this identity opens: whatever the text,
\* the sizes of chunk and tag and the number of stanzas (age_decrypt).
LEMMA SealedOpensWhole ==
  ASSUME SizesGood, MaxStanzas \in Nat, NEW Data, NEW text \in Seq(Data), NEW key, NEW nonce, NEW Stanzas,
         NEW stanzas \in Seq(Stanzas), HeaderGood(stanzas, key), NEW Macs, NEW Cells,
         NEW file \in [intro : BOOLEAN, stanzas : Seq(Stanzas), end : BOOLEAN, mac : Macs, payload : Seq(Cells)],
         Unforged(Seal(text, stanzas, key, nonce), key, file)
  PROVE  OpensOnlyWhole(Seal(text, stanzas, key, nonce), text, file)
<1> DEFINE sealed == Seal(text, stanzas, key, nonce)
<1>1. /\ sealed.intro = TRUE /\ sealed.end = TRUE /\ sealed.stanzas = stanzas /\ sealed.mac = [key |-> key, over |-> stanzas]
      /\ sealed = [intro |-> sealed.intro, stanzas |-> sealed.stanzas, end |-> sealed.end, mac |-> sealed.mac,
                   payload |-> sealed.payload]
  BY DEF Seal
<1>2. /\ file = [intro |-> file.intro, stanzas |-> file.stanzas, end |-> file.end, mac |-> file.mac, payload |-> file.payload]
      /\ file.payload \in Seq(Cells) /\ file.intro \in BOOLEAN /\ file.end \in BOOLEAN
  OBVIOUS
<1>3. ASSUME age_decrypt(file).err = "ok"
      PROVE  file = sealed /\ age_decrypt(file).text = text
  <2> HIDE DEF sealed
  <2>1. /\ file.intro /\ file.end /\ file.stanzas = stanzas /\ file.mac = sealed.mac
        /\ age_decrypt(file) = payload(key, file.payload)
    <3>1. Unforged(sealed, key, file)
      BY Zenon DEF sealed
    <3>2. sealed.mac = [key |-> key, over |-> stanzas]
      BY <1>1
    <3> QED
      BY <1>3, <3>1, <3>2, HeaderWhole, Zenon
  <2>2. \A i \in DOMAIN file.payload :
           /\ file.payload[i].key = key => file.payload[i] \in Range(Seal(text, stanzas, key, nonce).payload)
           /\ file.payload[i].at = 0 => file.payload[i] = Salt(file.payload[i].nonce)
    BY Zenon DEF Unforged
  <2>3. file.payload = sealed.payload /\ payload(key, file.payload).text = text
    <3>1. payload(key, file.payload).err = "ok"
      BY <1>3, <2>1, Zenon
    <3>2. PICK in \in Seq(Cells) : in = file.payload
      BY <1>2, Zenon
    <3>4. Genuine(in, Seal(text, stanzas, key, nonce).payload, key)
      BY <2>2, <3>2, Zenon DEF Genuine
    <3>6. in \in Seq(Cells)
      BY <3>2
    <3>5. payload(key, in).err = "ok"
      BY <3>1, <3>2, Zenon
    <3>3. Unspoilt(in, Seal(text, stanzas, key, nonce).payload, key, text)
      BY <3>4, <3>5, <3>6, PayloadWhole, Zenon
    <3> QED
      BY <3>2, <3>3, Zenon DEF sealed, Unspoilt
  <2>4. file.intro = sealed.intro /\ file.end = sealed.end
    BY <1>1, <1>2, <2>1, Zenon
  <2> QED
    BY <1>1, <1>2, <2>1, <2>3, <2>4, Zenon
<1>4. ASSUME file = sealed, \E i \in DOMAIN stanzas : stanzas[i].to = Me
      PROVE  age_decrypt(file).err = "ok"
  <2> HIDE DEF sealed
  <2>1. file.stanzas = stanzas /\ file.intro /\ file.end /\ file.mac = [key |-> key, over |-> file.stanzas]
    BY <1>1, <1>4, Zenon
  <2>2. age_decrypt(file) = payload(key, file.payload)
    BY <1>4, <2>1, HeaderOpens, Zenon
  <2>3. payload(key, sealed.payload).err = "ok"
    BY PayloadOpens, Zenon DEF sealed
  <2> QED
    BY <1>4, <2>2, <2>3, Zenon
<1> HIDE DEF sealed
<1>5. OpensOnlyWhole(sealed, text, file)
  BY <1>1, <1>3, <1>4, Zenon DEF OpensOnlyWhole
<1> QED
  BY <1>5, Zenon DEF sealed

\* A file that came in place of a sealed one, of whatever it is made.
AFile(f, Data, Stanzas, Macs, Cells) ==
    /\ f.text \in Seq(Data) /\ f.stanzas \in Seq(Stanzas) /\ HeaderGood(f.stanzas, f.key)
    /\ f.file \in [intro : BOOLEAN, stanzas : Seq(Stanzas), end : BOOLEAN, mac : Macs, payload : Seq(Cells)]

\* What comes as a file and is not forged opens as what was sealed for this identity, or not at all
\* (age_decrypt); for texts, headers and damage of any size.
THEOREM FilesOpenWhole ==
  ASSUME SizesGood, MaxStanzas \in Nat, NEW Data, NEW Stanzas, NEW Macs, NEW Cells,
         input.kind = "file" => AFile(input, Data, Stanzas, Macs, Cells)
  PROVE  OpensWhole
<1> DEFINE sealed == Seal(input.text, input.stanzas, input.key, input.nonce)
<1>1. SUFFICES ASSUME input.kind = "file", Unforged(sealed, input.key, input.file)
               PROVE  OpensOnlyWhole(sealed, input.text, input.file)
  BY Zenon DEF OpensWhole
<1>2. /\ input.text \in Seq(Data) /\ input.stanzas \in Seq(Stanzas) /\ HeaderGood(input.stanzas, input.key)
      /\ input.file \in [intro : BOOLEAN, stanzas : Seq(Stanzas), end : BOOLEAN, mac : Macs, payload : Seq(Cells)]
  BY <1>1, Zenon DEF AFile
<1> QED
  BY <1>1, <1>2, SealedOpensWhole, Zenon
=============================================================================
