--------------------------- MODULE Serving_proofs ---------------------------
(***************************************************************************)
(* The start of servers is safe for any number of servers, starts, crashes *)
(* and options.                                                            *)
(***************************************************************************)
EXTENDS Serving, TLAPS

(* A server that writes a pair has a new one in hand. *)
WritesPair == {"crt", "crtFill", "key", "keyFill"}

PairInHand == \A s \in Servers : pc[s] \in WritesPair => seen[s] \in (1..made) \ old

TypeInv == TypeOK /\ PairInHand

-----------------------------------------------------------------------------
(* Addresses. *)

Given(s) == IF opt[s].listener THEN <<"own", s>> ELSE Nil

(* The address of a server that has asked the ConnProvider for a listener, and of one
   that has been through ApplyTo. *)
Provided(s) ==
  IF opt[s].conn THEN bound[s] = <<"conn", port[s]>> /\ port[s] # 0 ELSE bound[s] = Given(s)

Listens(s) ==
  \/ opt[s].conn /\ bound[s] = <<"conn", port[s]>> /\ port[s] # 0
  \/ ~opt[s].conn /\ opt[s].listener /\ bound[s] = <<"own", s>>
  \/ ~opt[s].conn /\ ~opt[s].listener /\ bound[s] = <<"tcp", port[s]>> /\ port[s] > 0

Applying == {"default", "check", "apply"} \cup WritesPair

Loading == {"load", "loadKey", "config", "tls", "tlsKey"}

BoundRightly(s) ==
  /\ pc[s] = "down" => bound[s] = Nil
  /\ pc[s] = "listen" => bound[s] = Given(s)
  /\ pc[s] \in Applying => Provided(s)
  /\ pc[s] \in Loading \cup {"serving"} => Listens(s)
  /\ why[s] = "panic" => opt[s].listener /\ ~opt[s].conn

ListenInv ==
  /\ \A s, t \in Servers : s # t /\ bound[s] # Nil => bound[s] # bound[t]
  /\ \A s, t \in Servers : bound[s] = <<"own", t>> => t = s
  /\ \A s \in Servers : BoundRightly(s)

-----------------------------------------------------------------------------
(* The pair, whatever the others do. *)

Unserved(s) == port[s] = 0 /\ bound[s] = Nil

PairFresh(s) ==
  /\ pc[s] \in {"key", "keyFill"} => crt \notin old
  /\ pc[s] = "apply" /\ UsesDir(s) => crt \notin old \/ Unserved(s)
  /\ pc[s] \in Loading /\ UsesDir(s) => crt \notin old
  /\ pc[s] \in {"loadKey", "tlsKey"} => FromFiles(s) /\ seen[s] \notin old
  /\ pc[s] \notin AtRest /\ ~FromFiles(s) =>
       cert[s] \in {Nil, <<GeneratedPair, GeneratedPair>>}
  /\ pc[s] \in {"tls", "tlsKey"} => cert[s] # Nil

PairInv == \A s \in Servers : PairFresh(s)

-----------------------------------------------------------------------------
(* The pair, when one server starts at a time and none crashes. *)

OneAtATime == \A s, t \in Servers : s # t => pc[s] \in AtRest \/ pc[t] \in AtRest

FilesPaired ==
  (\A s \in Servers : pc[s] \notin {"crtFill", "key", "keyFill"}) => crt = key /\ crt # Torn

FindsPair(s) ==
  /\ pc[s] = "check" => seen[s] = crt
  /\ pc[s] \in {"key", "keyFill"} => crt = seen[s]
  /\ pc[s] = "apply" /\ UsesDir(s) => crt # Missing \/ Unserved(s)
  /\ pc[s] \in Loading /\ UsesDir(s) => crt # Missing
  /\ pc[s] \in {"loadKey", "tlsKey"} => seen[s] = CertOnDisk(s)
  /\ pc[s] = "config" /\ FromFiles(s) => cert[s][1] = CertOnDisk(s)
  /\ pc[s] \in {"tls", "tlsKey", "serving"} => ca[s] = cert[s][1]
  /\ pc[s] \in {"tls", "tlsKey"} /\ FromFiles(s) => ca[s] = CertOnDisk(s)
  /\ why[s] \in {"Unpaired", "Load"} => ~UsesDir(s)

Calm == OneAtATime /\ FilesPaired /\ \A s \in Servers : FindsPair(s)

CalmInv == ~disturbed => Calm

-----------------------------------------------------------------------------
(* Types. *)

(* An error, or a step to another label, keeps what the labels and errors say. *)
LEMMA GotoType ==
  ASSUME TypeOK, NEW s \in Servers, ~At(s, "down"), ~At(s, "failed"), UNCHANGED opt,
         NEW label \in Labels \ {"down", "failed"}, Goto(s, label)
  PROVE  /\ pc' \in [Servers -> Labels]
         /\ why' \in [Servers -> Reasons \cup {Nil}]
         /\ \A t \in Servers : /\ pc'[t] = "failed" <=> why'[t] # Nil
                               /\ pc'[t] = "down" <=> opt'[t] = Nil
BY Zenon DEF TypeOK, Goto, At

LEMMA FailType ==
  ASSUME TypeOK, NEW s \in Servers, ~At(s, "down"), UNCHANGED opt,
         NEW reason \in Reasons, Fail(s, reason)
  PROVE  /\ pc' \in [Servers -> Labels]
         /\ why' \in [Servers -> Reasons \cup {Nil}]
         /\ \A t \in Servers : /\ pc'[t] = "failed" <=> why'[t] # Nil
                               /\ pc'[t] = "down" <=> opt'[t] = Nil
<1>1. "failed" \in Labels /\ reason # Nil
  BY Zenon, ServingAssumption DEF Labels, AtRest
<1>2. QED
  BY Zenon, <1>1 DEF TypeOK, Fail, At

(* A server that is starting goes on, or fails. *)
Steps(s) ==
  \/ \E label \in Labels \ {"down", "failed"} : Goto(s, label)
  \/ \E reason \in Reasons : Fail(s, reason)

LEMMA StepsType ==
  ASSUME TypeOK, NEW s \in Servers, ~At(s, "down"), ~At(s, "failed"), UNCHANGED opt, Steps(s),
         /\ made' \in Nat
         /\ crt' \in {Missing, Torn} \cup 1..made'
         /\ key' \in {Missing, Torn} \cup 1..made'
         /\ old' \subseteq 1..made'
         /\ port' \in [Servers -> Int]
         /\ bound' \in [Servers -> Address \cup {Nil}]
         /\ seen' \in [Servers -> Content']
         /\ cert' \in [Servers -> (Content' \X Content') \cup {Nil}]
         /\ ca' \in [Servers -> Content']
         /\ UNCHANGED disturbed
  PROVE  TypeOK'
<1>1. /\ pc' \in [Servers -> Labels]
      /\ why' \in [Servers -> Reasons \cup {Nil}]
      /\ \A t \in Servers : /\ pc'[t] = "failed" <=> why'[t] # Nil
                            /\ pc'[t] = "down" <=> opt'[t] = Nil
  BY Zenon, GotoType, FailType DEF Steps
<1>2. opt' \in [Servers -> Options \cup {Nil}] /\ disturbed' \in BOOLEAN
  BY Zenon DEF TypeOK
<1>3. QED
  BY Zenon, <1>1, <1>2 DEF TypeOK, At

LEMMA TypeNext == TypeInv /\ [Next]_vars => TypeOK'
<1> SUFFICES ASSUME TypeInv, [Next]_vars PROVE TypeOK'
  BY Zenon
<1> USE ServingAssumption
<1>0. TypeOK
  BY Zenon DEF TypeInv
<1>1. ASSUME NEW s \in Servers, Listen(s)
      PROVE  TypeOK'
  <2>1. Steps(s)
    BY <1>1 DEF Listen, Steps, Labels, Reasons
  <2>2. UNCHANGED <<crt, key, made, old, opt, seen, cert, ca, disturbed>> /\ At(s, "listen")
    BY <1>1 DEF Listen, disk, counts
  <2>3. port' \in [Servers -> Int]
    BY <1>0, <1>1 DEF Listen, TypeOK
  <2>4. bound' \in [Servers -> Address \cup {Nil}]
    BY <1>0, <1>1, <2>3 DEF Listen, TypeOK, Address
  <2>5. QED
    BY Zenon, <1>0, <2>1, <2>2, <2>3, <2>4, StepsType DEF TypeOK, At, Content
<1>2. ASSUME NEW s \in Servers, MaybeDefaultWithSelfSignedCerts(s)
      PROVE  TypeOK'
  <2>1. Steps(s)
    BY Zenon, <1>2 DEF MaybeDefaultWithSelfSignedCerts, Steps, Labels, Reasons
  <2>2. UNCHANGED <<crt, key, made, old, opt, port, bound, ca, disturbed>> /\ At(s, "default")
    BY Zenon, <1>2 DEF MaybeDefaultWithSelfSignedCerts, disk, counts
  <2>3. seen' \in [Servers -> Content]
    BY <1>0, <1>2 DEF MaybeDefaultWithSelfSignedCerts, TypeOK, Content
  <2>4. cert' \in [Servers -> (Content \X Content) \cup {Nil}]
    BY <1>0, <1>2 DEF MaybeDefaultWithSelfSignedCerts, TypeOK, Content
  <2>5. QED
    BY Zenon, <1>0, <2>1, <2>2, <2>3, <2>4, StepsType DEF TypeOK, At, Content
<1>3. ASSUME NEW s \in Servers, checkCertAndKeyReadableAndValid(s)
      PROVE  TypeOK'
  <2>1. Steps(s)
    BY Zenon, <1>3 DEF checkCertAndKeyReadableAndValid, Steps, Labels, Reasons
  <2>2. /\ UNCHANGED <<crt, key, old, opt, port, bound, cert, ca, disturbed>> /\ At(s, "check")
        /\ made' \in {made, made + 1}
    BY Zenon, <1>3 DEF checkCertAndKeyReadableAndValid, counts
  <2>3. made \in Nat /\ made' \in Nat /\ made <= made'
    BY <1>0, <2>2 DEF TypeOK
  <2>4. Content \subseteq Content' /\ 1..made \subseteq 1..made' /\ Nil \in Content'
    BY <2>3 DEF Content
  <2>5. made' # made => made' \in Content'
    BY <2>2, <2>3 DEF Content
  <2>6. seen' \in [Servers -> Content']
    BY Zenon, <1>0, <1>3, <2>4, <2>5 DEF checkCertAndKeyReadableAndValid, TypeOK
  <2>7. cert' \in [Servers -> (Content' \X Content') \cup {Nil}] /\ ca' \in [Servers -> Content']
    BY Zenon, <1>0, <2>2, <2>4 DEF TypeOK
  <2>8. crt' \in {Missing, Torn} \cup 1..made' /\ key' \in {Missing, Torn} \cup 1..made' /\ old' \subseteq 1..made'
    BY Zenon, <1>0, <2>2, <2>4 DEF TypeOK
  <2>9. port' \in [Servers -> Int] /\ bound' \in [Servers -> Address \cup {Nil}]
    BY Zenon, <1>0, <2>2 DEF TypeOK
  <2>10. QED
    BY Zenon, <1>0, <2>1, <2>2, <2>3, <2>6, <2>7, <2>8, <2>9, StepsType DEF At
<1>4. ASSUME NEW s \in Servers, WriteCert(s) \/ WriteKey(s)
      PROVE  TypeOK'
  <2>1. Steps(s)
    BY Zenon, <1>4 DEF WriteCert, WriteKey, Steps, Labels
  <2>2. /\ UNCHANGED <<made, old, opt, port, bound, seen, cert, ca, disturbed>>
        /\ pc[s] \in WritesPair
    BY Zenon, <1>4 DEF WriteCert, WriteKey, locals, counts, WritesPair, At
  <2>3. seen[s] \in 1..made
    BY Zenon, <2>2 DEF TypeInv, PairInHand
  <2>4. /\ crt' \in {Missing, Torn} \cup 1..made
        /\ key' \in {Missing, Torn} \cup 1..made
    BY Zenon, <1>0, <1>4, <2>3 DEF WriteCert, WriteKey, TypeOK
  <2>5. QED
    BY Zenon, <1>0, <2>1, <2>2, <2>4, StepsType DEF TypeOK, At, Content, WritesPair
<1>5. ASSUME NEW s \in Servers, ApplyTo(s)
      PROVE  TypeOK'
  <2>1. Steps(s)
    BY SMT, <1>5 DEF ApplyTo, Steps, Labels, Reasons
  <2>2. UNCHANGED <<crt, key, made, old, opt, port, seen, cert, ca, disturbed>> /\ At(s, "apply")
    BY SMT, <1>5 DEF ApplyTo, disk, counts
  <2>3. bound' \in [Servers -> Address \cup {Nil}]
    BY SMT, <1>0, <1>5 DEF ApplyTo, TypeOK, Address
  <2>4. QED
    BY Zenon, <1>0, <2>1, <2>2, <2>3, StepsType DEF TypeOK, At, Content
<1>6. ASSUME NEW s \in Servers, LoadCert(s) \/ TLSConfig(s)
      PROVE  TypeOK'
  <2>1. Steps(s)
    BY Zenon, <1>6 DEF LoadCert, TLSConfig, Steps, Labels, Reasons, AtRest
  <2>2. /\ UNCHANGED <<crt, key, made, old, opt, port, bound, cert, ca, disturbed>>
        /\ pc[s] \in {"load", "tls"}
    BY Zenon, <1>6 DEF LoadCert, TLSConfig, disk, counts, At
  <2>3. CertOnDisk(s) \in Content
    BY Zenon, <1>0 DEF CertOnDisk, TypeOK, Content
  <2>4. seen' \in [Servers -> Content]
    BY Zenon, <1>0, <1>6, <2>3 DEF LoadCert, TLSConfig, TypeOK
  <2>5. QED
    BY Zenon, <1>0, <2>1, <2>2, <2>4, StepsType DEF TypeOK, At, Content
<1>7. ASSUME NEW s \in Servers, NEW from \in {"loadKey", "tlsKey"}, NEW to \in {"config", "serving"},
             LoadKey(s, from, to)
      PROVE  TypeOK'
  <2>1. Steps(s)
    BY Zenon, <1>7 DEF LoadKey, Steps, Labels, Reasons, AtRest
  <2>2. /\ UNCHANGED <<crt, key, made, old, opt, port, bound, seen, ca, disturbed>>
        /\ pc[s] \in {"loadKey", "tlsKey"}
    BY Zenon, <1>7 DEF LoadKey, disk, counts, At
  <2>3. KeyOnDisk(s) \in Content /\ seen[s] \in Content
    BY Zenon, <1>0 DEF KeyOnDisk, TypeOK, Content
  <2>4. cert' \in [Servers -> (Content \X Content) \cup {Nil}]
    BY <1>0, <1>7, <2>3 DEF LoadKey, TypeOK
  <2>5. QED
    BY Zenon, <1>0, <2>1, <2>2, <2>4, StepsType DEF TypeOK, At, Content
<1>8. ASSUME NEW s \in Servers, Config(s)
      PROVE  TypeOK'
  <2>1. Steps(s)
    BY Zenon, <1>8 DEF Config, Steps, Labels, Reasons
  <2>2. UNCHANGED <<crt, key, made, old, opt, port, bound, seen, cert, disturbed>> /\ At(s, "config")
    BY Zenon, <1>8 DEF Config, disk, counts
  <2>3. cert[s] # Nil => cert[s][1] \in Content
    BY Zenon, <1>0 DEF TypeOK
  <2>4. ca' \in [Servers -> Content]
    BY Zenon, <1>0, <1>8, <2>3 DEF Config, TypeOK
  <2>5. QED
    BY Zenon, <1>0, <2>1, <2>2, <2>4, StepsType DEF TypeOK, At, Content
<1>9. ASSUME NEW s \in Servers, Stop(s) \/ Crash(s)
      PROVE  TypeOK'
  <2>1. UNCHANGED <<crt, key, made, old>> /\ disturbed' \in BOOLEAN /\ Down(s)
    BY Zenon, <1>0, <1>9 DEF Stop, Crash, disk, counts, TypeOK
  <2>2. "down" \in Labels /\ Nil \in Content /\ 0 \in Int
    BY DEF Labels, AtRest, Content
  <2>3. QED
    BY Zenon, <1>0, <2>1, <2>2 DEF TypeOK, Down, At, Content
<1>10. ASSUME NEW s \in Servers, NEW o \in Configurations, Begin(s, o)
       PROVE  TypeOK'
  <2>1. UNCHANGED <<crt, key, made, old, seen, ca>> /\ disturbed' \in BOOLEAN /\ o \in Options
    BY Zenon, <1>0, <1>10 DEF Begin, disk, TypeOK
  <2>2. o.port \in Int /\ <<"own", s>> \in Address /\ o # Nil
    BY Zenon, <2>1 DEF Options, Address
  <2>3. /\ opt' \in [Servers -> Options \cup {Nil}]
        /\ port' \in [Servers -> Int]
        /\ bound' \in [Servers -> Address \cup {Nil}]
    BY Zenon, <1>0, <1>10, <2>1, <2>2 DEF TypeOK, Begin
  <2>4. cert' \in [Servers -> (Content \X Content) \cup {Nil}]
    BY Zenon, <1>0, <1>10 DEF TypeOK, Begin, Content
  <2>5. {"failed", "listen"} \subseteq Labels /\ "Invalid" \in Reasons /\ "Invalid" # Nil
    BY Zenon DEF Labels, AtRest, Reasons
  <2>6. /\ pc' \in [Servers -> Labels]
        /\ why' \in [Servers -> Reasons \cup {Nil}]
        /\ \A t \in Servers : /\ pc'[t] = "failed" <=> why'[t] # Nil
                              /\ pc'[t] = "down" <=> opt'[t] = Nil
    BY <1>0, <1>10, <2>2, <2>5 DEF TypeOK, Begin, At, Goto, Fail
  <2>7. QED
    BY Zenon, <1>0, <2>1, <2>3, <2>4, <2>6 DEF TypeOK, At, Content
<1>11. CASE Expire
  BY Zenon, <1>0, <1>11 DEF Expire, TypeOK, At, Content, locals, counts
<1>12. CASE UNCHANGED vars
  BY Zenon, <1>0, <1>12 DEF vars, disk, locals, counts, TypeOK, At, Content
<1>13. QED
  BY Zenon, <1>1, <1>2, <1>3, <1>4, <1>5, <1>6, <1>7, <1>8, <1>9, <1>10, <1>11, <1>12
     DEF Next, ServerStep, Done

-----------------------------------------------------------------------------
(* A step of one server leaves what the others hold, and the pairs' dates, alone. *)
OthersSame(s) ==
  \A t \in Servers : t # s =>
    /\ pc'[t] = pc[t] /\ why'[t] = why[t] /\ opt'[t] = opt[t] /\ port'[t] = port[t]
    /\ bound'[t] = bound[t] /\ seen'[t] = seen[t] /\ cert'[t] = cert[t] /\ ca'[t] = ca[t]

OneSteps(s) == ServerStep(s) \/ Crash(s) \/ \E o \in Configurations : Begin(s, o)

LEMMA StepsAlone ==
  ASSUME TypeOK, NEW s \in Servers, OneSteps(s)
  PROVE  OthersSame(s) /\ UNCHANGED old /\ made' \in {made, made + 1}
<1> USE DEF OthersSame, TypeOK, Goto, Fail, disk
<1>1. ASSUME Listen(s) \/ ApplyTo(s)
      PROVE  OthersSame(s) /\ UNCHANGED old /\ made' \in {made, made + 1}
  BY SMT, <1>1 DEF Listen, ApplyTo
<1>2. ASSUME MaybeDefaultWithSelfSignedCerts(s) \/ checkCertAndKeyReadableAndValid(s)
      PROVE  OthersSame(s) /\ UNCHANGED old /\ made' \in {made, made + 1}
  BY Zenon, <1>2 DEF MaybeDefaultWithSelfSignedCerts, checkCertAndKeyReadableAndValid
<1>3. ASSUME WriteCert(s) \/ WriteKey(s)
      PROVE  OthersSame(s) /\ UNCHANGED old /\ made' \in {made, made + 1}
  BY Zenon, <1>3 DEF WriteCert, WriteKey, locals
<1>4. ASSUME LoadCert(s) \/ TLSConfig(s) \/ Config(s)
      PROVE  OthersSame(s) /\ UNCHANGED old /\ made' \in {made, made + 1}
  BY Zenon, <1>4 DEF LoadCert, TLSConfig, Config
<1>5. ASSUME LoadKey(s, "loadKey", "config") \/ LoadKey(s, "tlsKey", "serving")
      PROVE  OthersSame(s) /\ UNCHANGED old /\ made' \in {made, made + 1}
  BY Zenon, <1>5 DEF LoadKey
<1>6. ASSUME Stop(s) \/ Crash(s)
      PROVE  OthersSame(s) /\ UNCHANGED old /\ made' \in {made, made + 1}
  BY <1>6 DEF Stop, Crash, Down
<1>7. ASSUME NEW o \in Configurations, Begin(s, o)
      PROVE  OthersSame(s) /\ UNCHANGED old /\ made' \in {made, made + 1}
  BY Zenon, <1>7 DEF Begin
<1>8. QED
  BY Zenon, <1>1, <1>2, <1>3, <1>4, <1>5, <1>6, <1>7 DEF OneSteps, ServerStep

(* Every step is one server's, or months pass. *)
LEMMA StepShape ==
  ASSUME [Next]_vars
  PROVE  UNCHANGED vars \/ Expire \/ \E s \in Servers : OneSteps(s)
BY Zenon DEF Next, Done, OneSteps

(* A server comes to write a pair only from the check, with a pair just generated. *)
LEMMA PairInHandNext == TypeInv /\ [Next]_vars => PairInHand'
<1> SUFFICES ASSUME TypeInv, [Next]_vars, NEW t \in Servers, pc'[t] \in WritesPair
             PROVE  seen'[t] \in (1..made') \ old'
  BY Zenon DEF PairInHand
<1>0. TypeOK /\ made \in Nat /\ old \subseteq 1..made
  BY Zenon DEF TypeInv, TypeOK
<1>1. pc[t] \in WritesPair => seen[t] \in (1..made) \ old
  BY Zenon DEF TypeInv, PairInHand
<1>2. ASSUME NEW s \in Servers, OneSteps(s)
      PROVE  seen'[t] \in (1..made') \ old'
  <2>1. OthersSame(s) /\ UNCHANGED old /\ made' \in {made, made + 1}
    BY Zenon, <1>0, <1>2, StepsAlone
  <2>2. CASE t # s
    BY <1>0, <1>1, <2>1, <2>2 DEF OthersSame
  <2>3. CASE t = s
    <3>1. CASE checkCertAndKeyReadableAndValid(s)
      <4>1. made' = made + 1
        BY Zenon, <1>0, <2>3, <3>1 DEF checkCertAndKeyReadableAndValid, TypeOK, Goto, Fail, WritesPair
      <4>2. seen'[s] = made + 1
        BY <1>0, <3>1, <4>1 DEF checkCertAndKeyReadableAndValid, TypeOK
      <4>3. QED
        BY <1>0, <2>1, <2>3, <4>1, <4>2
    <3>2. CASE WriteCert(s) \/ WriteKey(s)
      <4>1. pc[s] \in WritesPair /\ UNCHANGED <<seen, made>>
        BY Zenon, <3>2 DEF WriteCert, WriteKey, locals, At, WritesPair
      <4>2. QED
        BY Zenon, <1>1, <2>1, <2>3, <4>1
    <3>3. CASE ~checkCertAndKeyReadableAndValid(s) /\ ~WriteCert(s) /\ ~WriteKey(s)
      <4>1. pc'[s] \notin WritesPair
        BY SMT, <1>0, <1>2, <3>3 DEF OneSteps, ServerStep, Listen, MaybeDefaultWithSelfSignedCerts,
             ApplyTo, LoadCert, LoadKey, Config, TLSConfig, Stop, Crash, Down, Begin, Goto,
             Fail, TypeOK, WritesPair
      <4>2. QED
        BY Zenon, <2>3, <4>1
    <3>4. QED
      BY Zenon, <3>1, <3>2, <3>3
  <2>4. QED
    BY Zenon, <2>2, <2>3
<1>3. CASE Expire
  BY Zenon, <1>3 DEF Expire, AtRest, WritesPair
<1>4. CASE UNCHANGED vars
  BY Zenon, <1>1, <1>4 DEF vars, disk, locals
<1>5. QED
  BY Zenon, <1>2, <1>3, <1>4, StepShape

-----------------------------------------------------------------------------
(* Addresses, one step: an address is taken only when nobody has it. *)
LEMMA BoundApart ==
  ASSUME TypeOK, ListenInv, NEW s \in Servers, OthersSame(s),
         \/ bound'[s] = bound[s]
         \/ bound'[s] \in {Nil, <<"own", s>>}
         \/ \E kind \in {"conn", "tcp"} : \E p \in Int :
              bound'[s] = <<kind, p>> /\ ~InUse(<<kind, p>>)
  PROVE  /\ \A q, t \in Servers : q # t /\ bound'[q] # Nil => bound'[q] # bound'[t]
         /\ \A q, t \in Servers : bound'[q] = <<"own", t>> => t = q
<1>1. /\ \A q, t \in Servers : q # t /\ bound[q] # Nil => bound[q] # bound[t]
      /\ \A q, t \in Servers : bound[q] = <<"own", t>> => t = q
  BY Zenon DEF ListenInv
<1>2. \A t \in Servers : t # s => bound'[t] = bound[t]
  BY Zenon DEF OthersSame
<1>3. \A t \in Servers : bound'[s] = <<"own", t>> => t = s
  BY <1>1, ServingAssumption DEF Address
<1>4. \A t \in Servers : t # s /\ bound[t] # Nil => bound'[s] # bound[t]
  BY Zenon, <1>1 DEF InUse
<1>5. \A t \in Servers : t # s /\ bound'[s] # Nil => bound'[s] # bound[t]
  BY Zenon, <1>4
<1>6. QED
  BY Zenon, <1>1, <1>2, <1>3, <1>4, <1>5

LEMMA ListenNext == TypeInv /\ ListenInv /\ [Next]_vars => ListenInv'
<1> SUFFICES ASSUME TypeInv, ListenInv, [Next]_vars PROVE ListenInv'
  BY Zenon
<1>0. TypeOK
  BY Zenon DEF TypeInv
<1>1. ASSUME NEW s \in Servers, OneSteps(s), BoundRightly(s)',
             \/ bound'[s] = bound[s]
             \/ bound'[s] \in {Nil, <<"own", s>>}
             \/ \E kind \in {"conn", "tcp"} : \E p \in Int :
                  bound'[s] = <<kind, p>> /\ ~InUse(<<kind, p>>)
      PROVE  ListenInv'
  <2>1. OthersSame(s)
    BY Zenon, <1>0, <1>1, StepsAlone
  <2>2. \A t \in Servers : t # s => BoundRightly(t)'
    BY <2>1 DEF ListenInv, OthersSame, BoundRightly, Given, Provided, Listens
  <2>3. /\ \A q, t \in Servers : q # t /\ bound'[q] # Nil => bound'[q] # bound'[t]
        /\ \A q, t \in Servers : bound'[q] = <<"own", t>> => t = q
    BY Zenon, <1>0, <1>1, <2>1, BoundApart
  <2>4. QED
    BY Zenon, <1>1, <2>2, <2>3 DEF ListenInv
<1>2. ASSUME NEW s \in Servers, Listen(s)
      PROVE  ListenInv'
  <2>1. /\ pc[s] = "listen" /\ bound[s] = Given(s) /\ UNCHANGED opt /\ why[s] # "panic"
    BY <1>0, <1>2, ServingAssumption DEF Listen, At, ListenInv, BoundRightly, TypeOK, Reasons
  <2>2. CASE ~opt[s].conn /\ Goto(s, "default") /\ UNCHANGED <<port, bound>>
    <3>1. pc'[s] = "default" /\ why'[s] = why[s]
      BY Zenon, <1>0, <2>2 DEF Goto, TypeOK
    <3>2. BoundRightly(s)'
      BY Zenon, <2>1, <2>2, <3>1 DEF BoundRightly, Provided, Given, Applying, Loading, WritesPair
    <3>3. QED
      BY Zenon, <1>1, <1>2, <2>2, <3>2 DEF OneSteps, ServerStep
  <2>3. CASE /\ opt[s].conn
             /\ port' = [port EXCEPT ![s] = IF @ = 0 THEN 443 ELSE @]
             /\ UNCHANGED bound /\ Fail(s, "Listen")
    <3>1. pc'[s] = "failed" /\ why'[s] = "Listen"
      BY Zenon, <1>0, <2>3 DEF Fail, TypeOK
    <3>2. BoundRightly(s)'
      BY Zenon, <3>1 DEF BoundRightly, Applying, Loading, WritesPair
    <3>3. QED
      BY Zenon, <1>1, <1>2, <2>3, <3>2 DEF OneSteps, ServerStep
  <2>4. CASE /\ opt[s].conn
             /\ port' = [port EXCEPT ![s] = IF @ = 0 THEN 443 ELSE @]
             /\ ~InUse(<<"conn", port'[s]>>)
             /\ bound' = [bound EXCEPT ![s] = <<"conn", port'[s]>>]
             /\ Goto(s, "default")
    <3>1. /\ pc'[s] = "default" /\ why'[s] = why[s]
          /\ port'[s] \in Int /\ port'[s] # 0 /\ bound'[s] = <<"conn", port'[s]>>
      BY <1>0, <2>4 DEF Goto, TypeOK
    <3>2. BoundRightly(s)'
      BY Zenon, <2>1, <2>4, <3>1 DEF BoundRightly, Provided, Applying, Loading, WritesPair
    <3>3. QED
      BY Zenon, <1>1, <1>2, <2>4, <3>1, <3>2 DEF OneSteps, ServerStep
  <2>5. QED
    BY <1>2, <2>2, <2>3, <2>4 DEF Listen
<1>3. ASSUME NEW s \in Servers, ApplyTo(s)
      PROVE  ListenInv'
  <2>1. pc[s] = "apply" /\ Provided(s) /\ UNCHANGED <<opt, port>> /\ why[s] # "panic"
    BY SMT, <1>0, <1>3, ServingAssumption DEF ApplyTo, At, ListenInv, BoundRightly, Applying, TypeOK,
         Reasons
  <2>2. <<"own", s>> # Nil /\ \A p \in Int : <<"conn", p>> # Nil
    BY ServingAssumption DEF Address
  <2>3. CASE bound[s] # Nil /\ Goto(s, "load") /\ UNCHANGED bound
    <3>1. pc'[s] = "load" /\ why'[s] = why[s]
      BY Zenon, <1>0, <2>3 DEF Goto, TypeOK
    <3>2. BoundRightly(s)'
      BY Zenon, <2>1, <2>3, <3>1 DEF BoundRightly, Provided, Given, Listens, Applying, Loading,
           WritesPair
    <3>3. QED
      BY Zenon, <1>1, <1>3, <2>3, <3>2 DEF OneSteps, ServerStep
  <2>4. CASE \E reason \in {"NoServeConfig", "Listen"} : Fail(s, reason) /\ UNCHANGED bound
    <3>1. pc'[s] = "failed" /\ why'[s] # "panic"
      BY Zenon, <1>0, <2>4 DEF Fail, TypeOK
    <3>2. BoundRightly(s)'
      BY Zenon, <3>1 DEF BoundRightly, Applying, Loading, WritesPair
    <3>3. QED
      BY Zenon, <1>1, <1>3, <2>4, <3>2 DEF OneSteps, ServerStep
  <2>5. CASE /\ bound[s] = Nil /\ port[s] > 0 /\ ~InUse(<<"tcp", port[s]>>)
             /\ bound' = [bound EXCEPT ![s] = <<"tcp", port[s]>>]
             /\ Goto(s, "load")
    <3>1. /\ pc'[s] = "load" /\ why'[s] = why[s] /\ port[s] \in Int
          /\ bound'[s] = <<"tcp", port[s]>>
      BY Zenon, <1>0, <2>5 DEF Goto, TypeOK
    <3>2. ~opt[s].conn /\ ~opt[s].listener
      BY Zenon, <2>1, <2>2, <2>5, <3>1 DEF Provided, Given
    <3>3. Listens(s)'
      BY Zenon, <2>1, <2>5, <3>1, <3>2 DEF Listens
    <3>4. BoundRightly(s)'
      BY Zenon, <2>1, <3>1, <3>3 DEF BoundRightly, Applying, Loading, WritesPair
    <3>5. QED
      BY Zenon, <1>1, <1>3, <2>5, <3>1, <3>4 DEF OneSteps, ServerStep
  <2>6. QED
    BY SMT, <1>3, <2>3, <2>4, <2>5 DEF ApplyTo
<1>4. ASSUME NEW s \in Servers, Config(s)
      PROVE  ListenInv'
  <2>1. /\ pc[s] = "config" /\ Listens(s) /\ UNCHANGED <<opt, port, bound>>
        /\ why[s] # "panic"
    BY Zenon, <1>0, <1>4, ServingAssumption DEF Config, At, ListenInv, BoundRightly, Loading, TypeOK,
         Reasons
  <2>2. \/ pc'[s] = "failed" /\ (why'[s] = "panic" => port[s] = 0)
        \/ pc'[s] = "tls" /\ why'[s] = why[s]
    BY Zenon, <1>0, <1>4 DEF Config, Goto, Fail, TypeOK
  <2>3. BoundRightly(s)'
    BY <2>1, <2>2 DEF BoundRightly, Listens, Applying, Loading, WritesPair
  <2>4. QED
    BY ZenonT(40), <1>1, <1>4, <2>1, <2>3 DEF OneSteps, ServerStep
<1>5. ASSUME NEW s \in Servers,
             \/ MaybeDefaultWithSelfSignedCerts(s)
             \/ checkCertAndKeyReadableAndValid(s)
             \/ WriteCert(s)
             \/ WriteKey(s)
      PROVE  ListenInv'
  <2>1. UNCHANGED <<opt, port, bound>> /\ pc[s] \in Applying
    BY Zenon, <1>5 DEF MaybeDefaultWithSelfSignedCerts, checkCertAndKeyReadableAndValid, WriteCert,
         WriteKey, locals, At, Applying, WritesPair
  <2>2. \/ pc'[s] \in Applying /\ why'[s] = why[s]
        \/ pc'[s] = "failed" /\ why'[s] # "panic"
    BY Zenon, <1>0, <1>5 DEF MaybeDefaultWithSelfSignedCerts, checkCertAndKeyReadableAndValid,
         WriteCert, WriteKey, TypeOK, Goto, Fail, Applying, WritesPair
  <2>3. BoundRightly(s)'
    BY Zenon, <2>1, <2>2 DEF ListenInv, BoundRightly, Provided, Given, Applying, Loading, WritesPair
  <2>4. QED
    BY Zenon, <1>1, <1>5, <2>1, <2>3 DEF OneSteps, ServerStep
<1>6. ASSUME NEW s \in Servers,
             \/ LoadCert(s)
             \/ LoadKey(s, "loadKey", "config")
             \/ TLSConfig(s)
             \/ LoadKey(s, "tlsKey", "serving")
      PROVE  ListenInv'
  <2>1. UNCHANGED <<opt, port, bound>> /\ pc[s] \in Loading
    BY ZenonT(40), <1>6 DEF LoadCert, LoadKey, TLSConfig, At, Loading
  <2>2. \/ pc'[s] \in Loading \cup {"serving"} /\ why'[s] = why[s]
        \/ pc'[s] = "failed" /\ why'[s] # "panic"
    BY Zenon, <1>0, <1>6 DEF LoadCert, LoadKey, TLSConfig, TypeOK, Goto, Fail, Loading
  <2>3. BoundRightly(s)'
    BY Zenon, <2>1, <2>2 DEF ListenInv, BoundRightly, Listens, Applying, Loading, WritesPair
  <2>4. QED
    BY Zenon, <1>1, <1>6, <2>1, <2>3 DEF OneSteps, ServerStep
<1>7. ASSUME NEW s \in Servers, Stop(s) \/ Crash(s)
      PROVE  ListenInv'
  <2>1. pc'[s] = "down" /\ bound'[s] = Nil /\ why'[s] = Nil
    BY Zenon, <1>0, <1>7 DEF Stop, Crash, Down, TypeOK
  <2>2. BoundRightly(s)'
    BY Zenon, <2>1, ServingAssumption DEF BoundRightly, Applying, Loading, WritesPair, Reasons
  <2>3. QED
    BY Zenon, <1>1, <1>7, <2>1, <2>2 DEF OneSteps, ServerStep
<1>8. ASSUME NEW s \in Servers, NEW o \in Configurations, Begin(s, o)
      PROVE  ListenInv'
  <2>1. /\ opt'[s] = o /\ bound'[s] = IF o.listener THEN <<"own", s>> ELSE Nil
        /\ pc'[s] \in {"failed", "listen"} /\ why'[s] \in {why[s], "Invalid"} /\ why[s] = Nil
    BY Zenon, <1>0, <1>8 DEF Begin, Goto, Fail, TypeOK, At
  <2>2. BoundRightly(s)'
    BY ZenonT(40), <2>1, ServingAssumption DEF BoundRightly, Given, Applying, Loading, WritesPair, Reasons
  <2>3. QED
    BY Zenon, <1>1, <1>8, <2>1, <2>2 DEF OneSteps
<1>9. CASE Expire \/ UNCHANGED vars
  BY <1>9 DEF Expire, vars, locals, ListenInv, BoundRightly, Given, Provided, Listens
<1>10. QED
  BY Zenon, <1>2, <1>3, <1>4, <1>5, <1>6, <1>7, <1>8, <1>9 DEF Next, ServerStep, Done

-----------------------------------------------------------------------------
(* What is not a pair of the directory does not expire. *)
LEMMA NeverOld ==
  ASSUME TypeOK
  PROVE  Missing \notin old /\ Torn \notin old /\ UserPair \notin old /\ GeneratedPair \notin old
<1>1. \A c \in {Missing, Torn, UserPair, GeneratedPair} : c \notin Nat
  BY Zenon, ServingAssumption
<1>2. \A c \in old : c \in Nat
  BY DEF TypeOK
<1>3. QED
  BY Zenon, <1>1, <1>2

(* The certificate, one step: what is written over it is new. *)
LEMMA CrtFresh ==
  ASSUME TypeInv, NEW s \in Servers, OneSteps(s)
  PROVE  crt' = crt \/ crt' \notin old
<1>1. CASE WriteCert(s)
  <2>1. pc[s] \in WritesPair /\ crt' \in {Torn, seen[s]}
    BY Zenon, <1>1 DEF WriteCert, At, WritesPair
  <2>2. seen[s] \notin old /\ Torn \notin old
    BY Zenon, <2>1, NeverOld DEF TypeInv, PairInHand
  <2>3. QED
    BY Zenon, <2>1, <2>2
<1>2. CASE ~WriteCert(s)
  <2>1. Listen(s) \/ MaybeDefaultWithSelfSignedCerts(s) => crt' = crt
    BY Zenon DEF Listen, MaybeDefaultWithSelfSignedCerts, disk
  <2>2. checkCertAndKeyReadableAndValid(s) \/ WriteKey(s) => crt' = crt
    BY Zenon DEF checkCertAndKeyReadableAndValid, WriteKey
  <2>3. ApplyTo(s) \/ LoadCert(s) \/ Config(s) \/ TLSConfig(s) => crt' = crt
    <3>1. ApplyTo(s) => crt' = crt
      BY SMT DEF ApplyTo, disk
    <3>2. LoadCert(s) \/ Config(s) => crt' = crt
      BY Zenon DEF LoadCert, Config, disk
    <3>3. TLSConfig(s) => crt' = crt
      BY Zenon DEF TLSConfig, disk
    <3>4. QED
      BY Zenon, <3>1, <3>2, <3>3
  <2>4. LoadKey(s, "loadKey", "config") \/ LoadKey(s, "tlsKey", "serving") => crt' = crt
    BY Zenon DEF LoadKey, disk
  <2>5. Stop(s) \/ Crash(s) \/ (\E o \in Configurations : Begin(s, o)) => crt' = crt
    BY Zenon DEF Stop, Crash, Begin, disk
  <2>6. QED
    BY Zenon, <1>2, <2>1, <2>2, <2>3, <2>4, <2>5 DEF OneSteps, ServerStep
<1>3. QED
  BY Zenon, <1>1, <1>2

LEMMA PairNext == TypeInv /\ PairInv /\ [Next]_vars => PairInv'
<1> SUFFICES ASSUME TypeInv, PairInv, [Next]_vars PROVE PairInv'
  OBVIOUS
<1>0. TypeOK
  BY DEF TypeInv
<1>1. ASSUME NEW s \in Servers, OneSteps(s), PairFresh(s)'
      PROVE  PairInv'
  <2>1. OthersSame(s) /\ UNCHANGED old /\ (crt' = crt \/ crt' \notin old)
    BY Zenon, <1>0, <1>1, StepsAlone, CrtFresh
  <2>2. \A t \in Servers : t # s => PairFresh(t)'
    BY <2>1 DEF PairInv, PairFresh, OthersSame, UsesDir, FromFiles, Unserved
  <2>3. QED
    BY Zenon, <1>1, <2>2 DEF PairInv
<1>2. ASSUME NEW s \in Servers, Listen(s)
      PROVE  PairInv'
  <2>1. /\ pc[s] = "listen" /\ UNCHANGED <<opt, cert>> /\ pc'[s] \in {"failed", "default"}
    BY <1>0, <1>2 DEF Listen, At, Goto, Fail, TypeOK
  <2>2. PairFresh(s)'
    BY Zenon, <2>1 DEF PairInv, PairFresh, UsesDir, FromFiles, AtRest, Loading
  <2>3. QED
    BY Zenon, <1>1, <1>2, <2>2 DEF OneSteps, ServerStep
<1>3. ASSUME NEW s \in Servers, MaybeDefaultWithSelfSignedCerts(s)
      PROVE  PairInv'
  <2>1. pc[s] = "default" /\ UNCHANGED <<opt, port, bound, crt, old>>
    BY Zenon, <1>3 DEF MaybeDefaultWithSelfSignedCerts, At, disk
  <2>2. \/ pc'[s] = "apply" /\ HasCert(s) /\ cert' = cert
        \/ pc'[s] \in {"failed", "check"} /\ cert' = cert
        \/ pc'[s] = "apply" /\ ~opt[s].dir /\ cert'[s] = <<GeneratedPair, GeneratedPair>>
    BY Zenon, <1>0, <1>3 DEF MaybeDefaultWithSelfSignedCerts, Goto, Fail, TypeOK
  <2>3. PairFresh(s)'
    BY Zenon, <2>1, <2>2 DEF PairInv, PairFresh, HasCert, UsesDir, FromFiles, Unserved, AtRest,
         Loading
  <2>4. QED
    BY Zenon, <1>1, <1>3, <2>3 DEF OneSteps, ServerStep
<1>4. ASSUME NEW s \in Servers, checkCertAndKeyReadableAndValid(s)
      PROVE  PairInv'
  <2>1. pc[s] = "check" /\ UNCHANGED <<opt, port, bound, cert, crt, old>>
    BY Zenon, <1>4 DEF checkCertAndKeyReadableAndValid, At
  <2>2. pc'[s] \in {"failed", "crt"} \/ (pc'[s] = "apply" /\ crt \notin old)
    BY Zenon, <1>0, <1>4 DEF checkCertAndKeyReadableAndValid, CertValid, Goto, Fail, TypeOK
  <2>3. PairFresh(s)'
    BY Zenon, <2>1, <2>2 DEF PairInv, PairFresh, UsesDir, FromFiles, AtRest, Loading
  <2>4. QED
    BY Zenon, <1>1, <1>4, <2>3 DEF OneSteps, ServerStep
<1>5. ASSUME NEW s \in Servers, WriteCert(s) \/ WriteKey(s)
      PROVE  PairInv'
  <2>1. /\ pc[s] \in WritesPair /\ UNCHANGED <<opt, port, bound, seen, cert, old>>
        /\ pc'[s] \in {"crtFill", "key", "keyFill", "apply"}
        /\ pc'[s] # "crtFill" =>
              crt' = seen[s] \/ (pc[s] \in {"key", "keyFill"} /\ crt' = crt)
    BY Zenon, <1>0, <1>5 DEF WriteCert, WriteKey, At, Goto, TypeOK, WritesPair, locals
  <2>2. seen[s] \notin old
    BY Zenon, <2>1 DEF TypeInv, PairInHand
  <2>3. PairFresh(s)'
    BY Zenon, <2>1, <2>2 DEF PairInv, PairFresh, UsesDir, FromFiles, AtRest, Loading, WritesPair
  <2>4. QED
    BY Zenon, <1>1, <1>5, <2>3 DEF OneSteps, ServerStep
<1>6. ASSUME NEW s \in Servers, ApplyTo(s)
      PROVE  PairInv'
  <2>1. /\ pc[s] = "apply" /\ UNCHANGED <<opt, port, cert, crt, old>>
        /\ pc'[s] = "failed" \/ (pc'[s] = "load" /\ ~Unserved(s))
    BY SMT, <1>0, <1>6 DEF ApplyTo, At, Goto, Fail, TypeOK, Unserved, disk
  <2>2. PairFresh(s)'
    BY Zenon, <2>1 DEF PairInv, PairFresh, UsesDir, FromFiles, AtRest, Loading
  <2>3. QED
    BY Zenon, <1>1, <1>6, <2>2 DEF OneSteps, ServerStep
<1>7. ASSUME NEW s \in Servers, LoadCert(s) \/ TLSConfig(s)
      PROVE  PairInv'
  <2>1. /\ pc[s] \in {"load", "tls"} /\ UNCHANGED <<opt, cert, crt, old>>
        /\ \/ pc'[s] \in AtRest
           \/ pc[s] = "load" /\ pc'[s] = "config"
           \/ pc[s] = "load" /\ pc'[s] = "loadKey" /\ FromFiles(s) /\ seen'[s] = CertOnDisk(s)
           \/ pc[s] = "tls" /\ pc'[s] = "tlsKey" /\ FromFiles(s) /\ seen'[s] = CertOnDisk(s)
    BY Zenon, <1>0, <1>7 DEF LoadCert, TLSConfig, At, Goto, Fail, TypeOK, disk, AtRest
  <2>2. CertOnDisk(s) \notin old
    BY ZenonT(40), <1>0, <2>1, NeverOld DEF PairInv, PairFresh, Loading, CertOnDisk
  <2>3. PairFresh(s)'
    BY Zenon, <2>1, <2>2 DEF PairInv, PairFresh, UsesDir, FromFiles, AtRest, Loading
  <2>4. QED
    BY Zenon, <1>1, <1>7, <2>3 DEF OneSteps, ServerStep
<1>8. ASSUME NEW s \in Servers, LoadKey(s, "loadKey", "config") \/ LoadKey(s, "tlsKey", "serving")
      PROVE  PairInv'
  <2>1. /\ pc[s] \in {"loadKey", "tlsKey"} /\ UNCHANGED <<opt, crt, old>>
        /\ pc'[s] \in {"failed", "serving", "config"}
    BY Zenon, <1>0, <1>8 DEF LoadKey, At, Goto, Fail, TypeOK, disk
  <2>2. PairFresh(s)'
    BY Zenon, <2>1 DEF PairInv, PairFresh, UsesDir, FromFiles, AtRest, Loading
  <2>3. QED
    BY Zenon, <1>1, <1>8, <2>2 DEF OneSteps, ServerStep
<1>9. ASSUME NEW s \in Servers, Config(s)
      PROVE  PairInv'
  <2>1. /\ pc[s] = "config" /\ UNCHANGED <<opt, cert, crt, old>>
        /\ pc'[s] = "failed" \/ (pc'[s] = "tls" /\ cert[s] # Nil)
    BY Zenon, <1>0, <1>9 DEF Config, At, Goto, Fail, TypeOK, disk
  <2>2. PairFresh(s)'
    BY Zenon, <2>1 DEF PairInv, PairFresh, UsesDir, FromFiles, AtRest, Loading
  <2>3. QED
    BY Zenon, <1>1, <1>9, <2>2 DEF OneSteps, ServerStep
<1>10. ASSUME NEW s \in Servers, Stop(s) \/ Crash(s)
       PROVE  PairInv'
  <2>1. pc'[s] = "down"
    BY Zenon, <1>0, <1>10 DEF Stop, Crash, Down, TypeOK
  <2>2. PairFresh(s)'
    BY Zenon, <2>1 DEF PairFresh, AtRest, Loading
  <2>3. QED
    BY Zenon, <1>1, <1>10, <2>2 DEF OneSteps, ServerStep
<1>11. ASSUME NEW s \in Servers, NEW o \in Configurations, Begin(s, o)
       PROVE  PairInv'
  <2>1. /\ pc'[s] \in {"failed", "listen"}
        /\ cert'[s] \in {Nil, <<GeneratedPair, GeneratedPair>>}
    BY Zenon, <1>0, <1>11 DEF Begin, Goto, Fail, TypeOK
  <2>2. PairFresh(s)'
    BY Zenon, <2>1 DEF PairFresh, AtRest, Loading
  <2>3. QED
    BY Zenon, <1>1, <1>11, <2>2 DEF OneSteps
<1>12. CASE Expire
  <2>1. \A s \in Servers : pc'[s] \in AtRest
    BY Zenon, <1>12 DEF Expire
  <2>2. QED
    BY Zenon, <2>1 DEF PairInv, PairFresh, AtRest, Loading
<1>13. CASE UNCHANGED vars
  BY Zenon, <1>13 DEF vars, disk, locals, PairInv, PairFresh, UsesDir, FromFiles, Unserved
<1>14. QED
  BY Zenon, <1>2, <1>3, <1>4, <1>5, <1>6, <1>7, <1>8, <1>9, <1>10, <1>11, <1>12, <1>13
     DEF Next, ServerStep, Done

-----------------------------------------------------------------------------
(* Starts that nothing disturbs, one step. *)

(* No step of one server breaks what the others rely on, when only one is starting. *)
LEMMA CalmKept ==
  ASSUME TypeInv, Calm, NEW s \in Servers, OneSteps(s), FindsPair(s)', FilesPaired',
         \/ \A t \in Servers \ {s} : pc[t] \in AtRest
         \/ pc'[s] \in AtRest /\ UNCHANGED crt
  PROVE  Calm'
<1>0. OthersSame(s)
  BY Zenon, StepsAlone DEF TypeInv
<1>1. OneAtATime'
  BY ZenonT(40), <1>0 DEF Calm, OneAtATime, OthersSame
<1>2. ASSUME NEW t \in Servers, t # s
      PROVE  FindsPair(t)'
  <2>1. FindsPair(t) /\ (crt' = crt \/ pc[t] \in AtRest)
    BY Zenon, <1>2 DEF Calm
  <2>2. QED
    <3>1. /\ pc'[t] = pc[t] /\ why'[t] = why[t] /\ opt'[t] = opt[t] /\ port'[t] = port[t]
          /\ bound'[t] = bound[t] /\ seen'[t] = seen[t] /\ cert'[t] = cert[t] /\ ca'[t] = ca[t]
      BY Zenon, <1>0, <1>2 DEF OthersSame
    <3>2. CASE crt' = crt
      BY ZenonT(40), <2>1, <3>1, <3>2
         DEF FindsPair, UsesDir, FromFiles, Unserved, CertOnDisk, Loading
    <3>3. CASE pc[t] \in AtRest
      BY Zenon, <2>1, <3>1, <3>3
         DEF FindsPair, UsesDir, FromFiles, Unserved, CertOnDisk, AtRest, Loading
    <3>4. QED
      BY Zenon, <2>1, <3>2, <3>3
<1>3. QED
  BY Zenon, <1>1, <1>2 DEF Calm

LEMMA CountsStay ==
  (Expire \/ UNCHANGED vars \/ \E s \in Servers : ServerStep(s)) => counts' = counts
<1>1. ASSUME NEW s \in Servers, ServerStep(s)
      PROVE  counts' = counts
  <2>1. /\ Listen(s) \/ ApplyTo(s) => counts' = counts
        /\ MaybeDefaultWithSelfSignedCerts(s) \/ LoadCert(s) \/ TLSConfig(s) => counts' = counts
    <3>1. Listen(s) => counts' = counts
      BY Zenon DEF Listen
    <3>2. ApplyTo(s) => counts' = counts
      BY SMT DEF ApplyTo
    <3>3. MaybeDefaultWithSelfSignedCerts(s) => counts' = counts
      BY Zenon DEF MaybeDefaultWithSelfSignedCerts
    <3>4. LoadCert(s) \/ TLSConfig(s) => counts' = counts
      BY Zenon DEF LoadCert, TLSConfig
    <3>5. QED
      BY Zenon, <3>1, <3>2, <3>3, <3>4
  <2>2. /\ checkCertAndKeyReadableAndValid(s) \/ Config(s) \/ Stop(s) => counts' = counts
        /\ WriteCert(s) \/ WriteKey(s) => counts' = counts
    BY Zenon DEF checkCertAndKeyReadableAndValid, Config, Stop, WriteCert, WriteKey
  <2>3. LoadKey(s, "loadKey", "config") \/ LoadKey(s, "tlsKey", "serving") => counts' = counts
    BY Zenon DEF LoadKey
  <2>4. QED
    BY Zenon, <1>1, <2>1, <2>2, <2>3 DEF ServerStep
<1>2. Expire \/ UNCHANGED vars => counts' = counts
  BY Zenon DEF Expire, vars
<1>3. QED
  BY Zenon, <1>1, <1>2

LEMMA CalmNext == TypeInv /\ PairInv /\ CalmInv /\ [Next]_vars => CalmInv'
<1> SUFFICES ASSUME TypeInv, PairInv, CalmInv, [Next]_vars, ~disturbed' PROVE Calm'
  BY Zenon DEF CalmInv
<1>0. TypeOK /\ PairInHand
  BY Zenon DEF TypeInv
<1>1. ~disturbed /\ Calm
  <2>1. counts' = counts => disturbed' = disturbed
    BY Zenon DEF counts
  <2>2. ASSUME NEW s \in Servers, NEW o \in Configurations, Begin(s, o)
        PROVE  ~disturbed
    BY <2>2, Zenon DEF Begin
  <2>3. ASSUME NEW s \in Servers, Crash(s)
        PROVE  FALSE
    BY Zenon, <2>3 DEF Crash
  <2>4. (Expire \/ UNCHANGED vars \/ \E s \in Servers : ServerStep(s)) => counts' = counts
    BY Zenon, CountsStay
  <2>5. ~disturbed
    BY <2>1, <2>2, <2>3, <2>4, StepShape, Zenon DEF OneSteps
  <2>6. QED
    BY Zenon, <2>5 DEF CalmInv
<1>2. ASSUME NEW s \in Servers, OneSteps(s), pc[s] \notin AtRest, FindsPair(s)', FilesPaired'
      PROVE  Calm'
  <2>1. \A t \in Servers \ {s} : pc[t] \in AtRest
    BY Zenon, <1>1, <1>2 DEF Calm, OneAtATime
  <2>2. QED
    BY Zenon, <1>1, <1>2, <2>1, CalmKept
(* A step that writes no file, of a server that was not writing. *)
<1>3. ASSUME NEW s \in Servers, OneSteps(s), UNCHANGED <<crt, key>>,
             pc[s] \notin {"crtFill", "key", "keyFill"}
      PROVE  FilesPaired'
  <2>1. OthersSame(s)
    BY Zenon, <1>0, <1>3, StepsAlone
  <2>2. QED
    BY Zenon, <1>1, <1>3, <2>1 DEF Calm, FilesPaired, OthersSame
<1>4. ASSUME NEW s \in Servers, OneSteps(s), pc[s] \notin AtRest, UNCHANGED <<crt, key>>,
             pc[s] \notin {"crtFill", "key", "keyFill"}, FindsPair(s)'
      PROVE  Calm'
  BY Zenon, <1>2, <1>3, <1>4
(* While one server is starting and not writing, the files belong together. *)
<1>5. ASSUME NEW s \in Servers, pc[s] \notin AtRest, pc[s] \notin {"crtFill", "key", "keyFill"}
      PROVE  crt = key /\ crt # Torn
  BY Zenon, <1>1, <1>5 DEF Calm, OneAtATime, FilesPaired, AtRest
<1>6. \A s \in Servers : FindsPair(s) /\ PairFresh(s)
  BY Zenon, <1>1 DEF Calm, PairInv
<1>7. \A s \in Servers : pc[s] \in WritesPair => seen[s] \notin {Missing, Torn}
  <2>1. \A c \in {Missing, Torn} : c \notin Nat
    BY Zenon, ServingAssumption
  <2>2. \A s \in Servers : pc[s] \in WritesPair => seen[s] \in Nat
    BY <1>0 DEF PairInHand, TypeOK
  <2>3. QED
    BY Zenon, <2>1, <2>2
<1>11. ASSUME NEW s \in Servers, Listen(s)
       PROVE  Calm'
  <2>1. /\ pc[s] = "listen" /\ UNCHANGED <<opt, crt, key>>
        /\ pc'[s] \in {"failed", "default"} /\ why'[s] \in {why[s], "Listen"}
    BY <1>0, <1>11 DEF Listen, At, Goto, Fail, TypeOK, disk
  <2>2. FindsPair(s)'
    BY ZenonT(40), <1>6, <2>1 DEF FindsPair, UsesDir, Loading
  <2>3. QED
    BY Zenon, <1>4, <1>11, <2>1, <2>2 DEF OneSteps, ServerStep, AtRest
<1>12. ASSUME NEW s \in Servers, MaybeDefaultWithSelfSignedCerts(s)
       PROVE  Calm'
  <2>1. /\ pc[s] = "default" /\ UNCHANGED <<opt, port, bound, crt, key>>
        /\ why'[s] \in {why[s], "PairName"}
        /\ \/ pc'[s] = "failed"
           \/ pc'[s] = "apply" /\ (HasCert(s) \/ ~opt[s].dir)
           \/ pc'[s] = "check" /\ seen'[s] = crt
    BY Zenon, <1>0, <1>12 DEF MaybeDefaultWithSelfSignedCerts, At, Goto, Fail, TypeOK, disk
  <2>2. FindsPair(s)'
    BY ZenonT(40), <1>6, <2>1 DEF FindsPair, UsesDir, Unserved, HasCert, Loading
  <2>3. QED
    BY ZenonT(40), <1>4, <1>12, <2>1, <2>2 DEF OneSteps, ServerStep, AtRest
<1>13. ASSUME NEW s \in Servers, checkCertAndKeyReadableAndValid(s)
       PROVE  Calm'
  <2>1. /\ pc[s] = "check" /\ UNCHANGED <<opt, port, bound, crt, key>>
        /\ \/ pc'[s] = "failed" /\ (seen[s] = Missing) # (key = Missing)
           \/ pc'[s] = "apply" /\ seen[s] # Missing /\ why'[s] = why[s]
           \/ pc'[s] = "crt" /\ why'[s] = why[s]
    BY Zenon, <1>0, <1>13 DEF checkCertAndKeyReadableAndValid, At, Goto, Fail, TypeOK
  <2>2. seen[s] = crt /\ crt = key
    BY ZenonT(40), <1>5, <1>6, <2>1 DEF FindsPair, AtRest
  <2>3. FindsPair(s)'
    BY ZenonT(40), <1>6, <2>1, <2>2 DEF FindsPair, UsesDir, Loading
  <2>4. QED
    BY Zenon, <1>4, <1>13, <2>1, <2>3 DEF OneSteps, ServerStep, AtRest
<1>14. ASSUME NEW s \in Servers, WriteCert(s)
       PROVE  Calm'
  <2>1. /\ pc[s] \in WritesPair /\ UNCHANGED <<opt, seen>> /\ why'[s] = why[s]
        /\ \/ pc'[s] = "crtFill"
           \/ pc'[s] = "key" /\ crt' = seen[s]
    BY Zenon, <1>0, <1>14 DEF WriteCert, At, Goto, TypeOK, WritesPair, locals
  <2>2. FindsPair(s)' /\ FilesPaired'
    BY ZenonT(40), <1>6, <2>1 DEF FindsPair, FilesPaired, UsesDir, Loading
  <2>3. QED
    BY Zenon, <1>2, <1>14, <2>1, <2>2 DEF OneSteps, ServerStep, AtRest, WritesPair
<1>15. ASSUME NEW s \in Servers, WriteKey(s)
       PROVE  Calm'
  <2>1. /\ pc[s] \in {"key", "keyFill"} /\ UNCHANGED <<opt, seen, crt>> /\ why'[s] = why[s]
        /\ \/ pc'[s] = "keyFill"
           \/ pc'[s] = "apply" /\ key' = seen[s]
    BY Zenon, <1>0, <1>15 DEF WriteKey, At, Goto, TypeOK, locals
  <2>2. crt = seen[s] /\ crt \notin {Missing, Torn}
    BY ZenonT(40), <1>6, <1>7, <2>1 DEF FindsPair, WritesPair
  <2>3. FindsPair(s)' /\ FilesPaired'
    BY ZenonT(40), <1>6, <2>1, <2>2 DEF FindsPair, FilesPaired, UsesDir, Loading
  <2>4. QED
    BY Zenon, <1>2, <1>15, <2>1, <2>3 DEF OneSteps, ServerStep, AtRest
<1>16. ASSUME NEW s \in Servers, ApplyTo(s)
       PROVE  Calm'
  <2>1. /\ pc[s] = "apply" /\ UNCHANGED <<opt, crt, key>>
        /\ why'[s] \in {why[s], "NoServeConfig", "Listen"}
        /\ pc'[s] = "failed" \/ (pc'[s] = "load" /\ ~Unserved(s))
    BY SMT, <1>0, <1>16 DEF ApplyTo, At, Goto, Fail, TypeOK, Unserved, disk
  <2>2. FindsPair(s)'
    BY ZenonT(40), <1>6, <2>1 DEF FindsPair, UsesDir, Loading
  <2>3. QED
    BY ZenonT(40), <1>4, <1>16, <2>1, <2>2 DEF OneSteps, ServerStep, AtRest
<1>17. ASSUME NEW s \in Servers, LoadCert(s)
       PROVE  Calm'
  <2>1. /\ pc[s] = "load" /\ UNCHANGED <<opt, crt, key>> /\ why'[s] = why[s]
        /\ \/ pc'[s] = "loadKey" /\ seen'[s] = CertOnDisk(s)
           \/ pc'[s] = "config" /\ ~FromFiles(s)
    BY Zenon, <1>0, <1>17 DEF LoadCert, At, Goto, TypeOK, disk
  <2>2. FindsPair(s)'
    BY Zenon, <1>6, <2>1 DEF FindsPair, UsesDir, FromFiles, CertOnDisk, Loading
  <2>3. QED
    BY ZenonT(40), <1>4, <1>17, <2>1, <2>2 DEF OneSteps, ServerStep, AtRest
(* The files are found whole and belonging together, both times that they are read. *)
<1>18. ASSUME NEW s \in Servers, pc[s] \in {"loadKey", "tlsKey"}, UsesDir(s)
       PROVE  X509KeyPair(seen[s], KeyOnDisk(s))
  <2>1. crt = key /\ crt # Torn
    BY Zenon, <1>5, <1>18 DEF AtRest
  <2>2. seen[s] = crt /\ crt # Missing /\ KeyOnDisk(s) = key
    BY ZenonT(40), <1>6, <1>18 DEF FindsPair, Loading, CertOnDisk, KeyOnDisk
  <2>3. QED
    BY Zenon, <2>1, <2>2 DEF X509KeyPair
<1>19. ASSUME NEW s \in Servers, LoadKey(s, "loadKey", "config")
       PROVE  Calm'
  <2>1. /\ pc[s] = "loadKey" /\ UNCHANGED <<opt, crt, key>>
        /\ \/ pc'[s] = "config" /\ cert'[s] = <<seen[s], KeyOnDisk(s)>> /\ why'[s] = why[s]
           \/ pc'[s] = "failed" /\ ~X509KeyPair(seen[s], KeyOnDisk(s))
    BY ZenonT(40), <1>0, <1>19 DEF LoadKey, At, Goto, Fail, TypeOK, disk
  <2>2. pc'[s] = "failed" => ~UsesDir(s)
    BY ZenonT(40), <1>18, <2>1
  <2>3. seen[s] = CertOnDisk(s)
    BY ZenonT(40), <1>6, <2>1 DEF FindsPair
  <2>4. FindsPair(s)'
    <3>1. UsesDir(s)' = UsesDir(s) /\ FromFiles(s)' = FromFiles(s)
          /\ CertOnDisk(s)' = CertOnDisk(s)
      BY Zenon, <2>1 DEF UsesDir, FromFiles, CertOnDisk
    <3>2. CASE pc'[s] = "failed"
      BY Zenon, <2>2, <3>1, <3>2 DEF FindsPair, Loading
    <3>3. CASE pc'[s] # "failed"
      <4>1. pc'[s] = "config" /\ why'[s] = why[s] /\ cert'[s][1] = CertOnDisk(s)
        BY <2>1, <2>3, <3>3
      <4>2. UsesDir(s) => crt # Missing
        BY Zenon, <1>6, <2>1 DEF FindsPair, Loading
      <4>3. why[s] \in {"Unpaired", "Load"} => ~UsesDir(s)
        BY Zenon, <1>6 DEF FindsPair
      <4>4. QED
        BY Zenon, <2>1, <3>1, <4>1, <4>2, <4>3 DEF FindsPair, Loading
    <3>4. QED
      BY Zenon, <3>2, <3>3
  <2>5. QED
    BY ZenonT(40), <1>4, <1>19, <2>1, <2>4 DEF OneSteps, ServerStep, AtRest
<1>20. ASSUME NEW s \in Servers, Config(s)
       PROVE  Calm'
  <2>1. /\ pc[s] = "config" /\ UNCHANGED <<opt, crt, key, cert>>
        /\ why'[s] \in {why[s], "TLS", "NoCertificate", "panic"}
        /\ pc'[s] = "failed" \/ (pc'[s] = "tls" /\ ca'[s] = cert[s][1])
    BY Zenon, <1>0, <1>20 DEF Config, At, Goto, Fail, TypeOK, disk
  <2>2. FindsPair(s)'
    BY ZenonT(40), <1>6, <2>1 DEF FindsPair, UsesDir, FromFiles, CertOnDisk, Loading
  <2>3. QED
    BY Zenon, <1>4, <1>20, <2>1, <2>2 DEF OneSteps, ServerStep, AtRest
<1>21. ASSUME NEW s \in Servers, TLSConfig(s)
       PROVE  Calm'
  <2>1. /\ pc[s] = "tls" /\ UNCHANGED <<opt, crt, key, cert, ca>>
        /\ why'[s] \in {why[s], "TLS"}
        /\ \/ pc'[s] \in {"failed", "serving"}
           \/ pc'[s] = "tlsKey" /\ seen'[s] = CertOnDisk(s)
    BY Zenon, <1>0, <1>21 DEF TLSConfig, At, Goto, Fail, TypeOK, disk
  <2>2. FindsPair(s)'
    BY ZenonT(40), <1>6, <2>1 DEF FindsPair, UsesDir, FromFiles, CertOnDisk, Loading
  <2>3. QED
    BY ZenonT(40), <1>4, <1>21, <2>1, <2>2 DEF OneSteps, ServerStep, AtRest
<1>22. ASSUME NEW s \in Servers, LoadKey(s, "tlsKey", "serving")
       PROVE  Calm'
  <2>1. /\ pc[s] = "tlsKey" /\ UNCHANGED <<opt, crt, key, ca>>
        /\ \/ pc'[s] = "serving" /\ cert'[s] = <<seen[s], KeyOnDisk(s)>> /\ why'[s] = why[s]
           \/ pc'[s] = "failed" /\ ~X509KeyPair(seen[s], KeyOnDisk(s))
    BY Zenon, <1>0, <1>22 DEF LoadKey, At, Goto, Fail, TypeOK, disk
  <2>2. pc'[s] = "failed" => ~UsesDir(s)
    BY ZenonT(40), <1>18, <2>1
  <2>3. seen[s] = ca[s]
    BY ZenonT(40), <1>6, <2>1 DEF FindsPair, PairFresh
  <2>4. FindsPair(s)'
    <3>1. UsesDir(s)' = UsesDir(s)
      BY Zenon, <2>1 DEF UsesDir
    <3>2. CASE pc'[s] = "failed"
      BY Zenon, <2>2, <3>1, <3>2 DEF FindsPair, Loading
    <3>3. CASE pc'[s] # "failed"
      <4>1. pc'[s] = "serving" /\ why'[s] = why[s] /\ ca'[s] = cert'[s][1]
        BY <2>1, <2>3, <3>3
      <4>2. UsesDir(s) => crt # Missing
        BY Zenon, <1>6, <2>1 DEF FindsPair, Loading
      <4>3. why[s] \in {"Unpaired", "Load"} => ~UsesDir(s)
        BY Zenon, <1>6 DEF FindsPair
      <4>4. QED
        BY Zenon, <2>1, <3>1, <4>1, <4>2, <4>3 DEF FindsPair, Loading
    <3>4. QED
      BY Zenon, <3>2, <3>3
  <2>5. QED
    BY ZenonT(40), <1>4, <1>22, <2>1, <2>4 DEF OneSteps, ServerStep, AtRest
<1>23. ASSUME NEW s \in Servers, Stop(s)
       PROVE  Calm'
  <2>1. pc[s] \in AtRest /\ pc'[s] = "down" /\ why'[s] = Nil /\ UNCHANGED <<crt, key>>
    BY Zenon, <1>0, <1>23 DEF Stop, Down, TypeOK, disk, AtRest
  <2>2. Nil \notin {"Unpaired", "Load"}
    BY Zenon, ServingAssumption DEF Reasons
  <2>3. FindsPair(s)' /\ FilesPaired'
    BY Zenon, <1>3, <1>23, <2>1, <2>2 DEF FindsPair, Loading, OneSteps, ServerStep, AtRest
  <2>4. QED
    BY Zenon, <1>1, <1>23, <2>1, <2>3, CalmKept DEF OneSteps, ServerStep, AtRest
<1>24. ASSUME NEW s \in Servers, Crash(s)
       PROVE  Calm'
  BY Zenon, <1>24 DEF Crash
<1>25. ASSUME NEW s \in Servers, NEW o \in Configurations, Begin(s, o)
       PROVE  Calm'
  <2>1. /\ pc[s] = "down" /\ pc'[s] \in {"failed", "listen"} /\ why'[s] \in {why[s], "Invalid"}
        /\ UNCHANGED <<crt, key>>
        /\ \A t \in Servers : pc[t] \in AtRest
    BY ZenonT(40), <1>0, <1>25 DEF Begin, At, Goto, Fail, TypeOK, disk
  <2>2. why[s] = Nil /\ Nil \notin {"Unpaired", "Load"}
    BY ZenonT(40), <1>0, <2>1, ServingAssumption DEF TypeOK, At, Reasons
  <2>3. FindsPair(s)' /\ FilesPaired'
    BY ZenonT(40), <1>3, <1>25, <2>1, <2>2 DEF FindsPair, Loading, OneSteps
  <2>4. QED
    BY ZenonT(40), <1>1, <1>25, <2>1, <2>3, CalmKept DEF OneSteps
<1>26. CASE Expire \/ UNCHANGED vars
  <2>1. UNCHANGED <<pc, why, opt, port, bound, seen, cert, ca, crt, key>>
    BY Zenon, <1>26 DEF Expire, vars, disk, locals
  <2>2. OneAtATime' /\ FilesPaired'
    BY Zenon, <1>1, <2>1 DEF Calm, OneAtATime, FilesPaired
  <2>3. ASSUME NEW s \in Servers
        PROVE  FindsPair(s)'
    BY ZenonT(40), <1>1, <2>1 DEF Calm, FindsPair, UsesDir, FromFiles, Unserved, CertOnDisk
  <2>4. QED
    BY Zenon, <2>2, <2>3 DEF Calm
<1>27. QED
  BY Zenon, <1>11, <1>12, <1>13, <1>14, <1>15, <1>16, <1>17, <1>19, <1>20, <1>21, <1>22, <1>23, <1>24,
     <1>25, <1>26 DEF Next, ServerStep, Done

-----------------------------------------------------------------------------
StartInv == TypeInv /\ ListenInv /\ PairInv /\ CalmInv

LEMMA StartInit == Init => StartInv
<1> SUFFICES ASSUME Init PROVE StartInv
  BY Zenon
<1>1. \A s \in Servers : /\ pc[s] = "down" /\ why[s] = Nil /\ opt[s] = Nil /\ port[s] = 0
                          /\ bound[s] = Nil /\ seen[s] = Nil /\ cert[s] = Nil /\ ca[s] = Nil
  BY Zenon DEF Init
<1>2. TypeOK
  <2>1. /\ made \in Nat /\ old \subseteq 1..made /\ disturbed \in BOOLEAN
        /\ crt \in {Missing, Torn} \cup 1..made /\ key \in {Missing, Torn} \cup 1..made
    BY Zenon DEF Init
  <2>2. pc \in [Servers -> Labels] /\ port \in [Servers -> Int]
    BY DEF Init, Labels, AtRest
  <2>3. /\ why \in [Servers -> Reasons \cup {Nil}]
        /\ opt \in [Servers -> Options \cup {Nil}]
        /\ bound \in [Servers -> Address \cup {Nil}]
        /\ seen \in [Servers -> Content]
        /\ cert \in [Servers -> (Content \X Content) \cup {Nil}]
        /\ ca \in [Servers -> Content]
    BY Zenon DEF Init, Content
  <2>4. QED
    BY Zenon, <1>1, <2>1, <2>2, <2>3 DEF TypeOK, At
<1>3. PairInHand
  BY ZenonT(40), <1>1 DEF PairInHand, WritesPair
<1>4. ListenInv
  <2>1. \A s, t \in Servers : Nil # <<"own", t>>
    BY ServingAssumption DEF Address
  <2>2. Nil # "panic"
    BY Zenon, ServingAssumption DEF Reasons
  <2>3. QED
    BY Zenon, <1>1, <2>1, <2>2 DEF ListenInv, BoundRightly, Applying, Loading, WritesPair
<1>5. PairInv
  BY Zenon, <1>1 DEF PairInv, PairFresh, Loading, AtRest
<1>6. CalmInv
  <2>1. crt = key /\ crt # Torn
    BY Zenon, ServingAssumption DEF Init
  <2>2. Nil \notin {"Unpaired", "Load"}
    BY Zenon, ServingAssumption DEF Reasons
  <2>3. QED
    BY Zenon, <1>1, <2>1, <2>2 DEF CalmInv, Calm, OneAtATime, FilesPaired, FindsPair, Loading, AtRest
<1>7. QED
  BY Zenon, <1>2, <1>3, <1>4, <1>5, <1>6 DEF StartInv, TypeInv

LEMMA StartNext == StartInv /\ [Next]_vars => StartInv'
BY Zenon, TypeNext, PairInHandNext, ListenNext, PairNext, CalmNext DEF StartInv, TypeInv

LEMMA StartsCorrect == Spec => []StartInv
BY StartInit, StartNext, PTL DEF Spec

(* Every variable keeps its type through starts, crashes and stops, and exactly the
   servers that failed to start have an error. *)
THEOREM TypeCorrect == Spec => []TypeOK
<1>1. StartInv => TypeOK
  BY Zenon DEF StartInv, TypeInv
<1>2. QED
  BY <1>1, StartsCorrect, PTL

(* However many servers are started, with whatever options, no two listen on one
   address, and the loopback client of a server that listens by itself dials the
   address that Listen or ApplyTo bound. *)
THEOREM DialsListener == Spec => []LoopbackDialsListener
<1>1. StartInv => LoopbackDialsListener
  <2> SUFFICES ASSUME StartInv, NEW s \in Servers, pc[s] = "serving"
               PROVE  /\ \A t \in Servers \ {s} : bound[t] # bound[s]
                      /\ bound[s] # <<"own", s>> =>
                           bound[s] = <<IF opt[s].conn THEN "conn" ELSE "tcp", port[s]>>
    BY Zenon DEF LoopbackDialsListener, At
  <2>1. Listens(s)
    BY Zenon DEF StartInv, ListenInv, BoundRightly
  <2>2. bound[s] # Nil
    <3>1. port[s] \in Int
      BY Zenon DEF StartInv, TypeInv, TypeOK
    <3>2. bound[s] \in Address
      BY <2>1, <3>1 DEF Listens, Address
    <3>3. QED
      BY Zenon, <3>2, ServingAssumption
  <2>3. QED
    BY Zenon, <2>1, <2>2 DEF StartInv, ListenInv, Listens
<1>2. QED
  BY <1>1, StartsCorrect, PTL

(* Only a server that is handed its listener can reach the panic of
   loopbackClientConfig. *)
THEOREM PanicNeedsListener == Spec => []PanicNeedsOwnListener
<1>1. StartInv => PanicNeedsOwnListener
  BY Zenon DEF StartInv, ListenInv, BoundRightly, PanicNeedsOwnListener
<1>2. QED
  BY <1>1, StartsCorrect, PTL

(* As long as one server starts at a time and none is killed while it starts, none
   that uses the certificate directory fails for want of a pair. *)
THEOREM FindsItsPair == Spec => []UndisturbedFindsPair
<1>1. StartInv => UndisturbedFindsPair
  BY Zenon DEF StartInv, CalmInv, Calm, FindsPair, UndisturbedFindsPair
<1>2. QED
  BY <1>1, StartsCorrect, PTL

(* As long as one server starts at a time and none is killed while it starts, the
   loopback client trusts the certificate that TLSConfig read last. *)
THEOREM LoopbackTrusted == Spec => []UndisturbedLoopbackTrusts
<1>1. StartInv => UndisturbedLoopbackTrusts
  BY Zenon DEF StartInv, CalmInv, Calm, FindsPair, UndisturbedLoopbackTrusts, At
<1>2. QED
  BY <1>1, StartsCorrect, PTL

(* Whatever the others write meanwhile, and whoever crashes, a server comes up only
   with a key that belongs to its certificate and a certificate that is not about to
   expire. *)
THEOREM ComesUpWithGoodPair == Spec => ServesGoodPair
<1> DEFINE Good(s) == /\ cert'[s][1] = cert'[s][2]
                      /\ cert'[s][1] \notin old /\ cert'[s][1] # Torn
<1>1. StartInv /\ [Next]_vars =>
        [\A s \in Servers : ~At(s, "serving") /\ At(s, "serving")' => Good(s)]_vars
  <2> SUFFICES ASSUME StartInv, [Next]_vars, NEW s \in Servers,
                      pc[s] # "serving", pc'[s] = "serving"
               PROVE  Good(s)
    BY Zenon DEF At
  <2>0. TypeOK /\ PairFresh(s)
    BY Zenon DEF StartInv, TypeInv, PairInv
  <2>1. ~(Expire \/ UNCHANGED vars)
    BY Zenon DEF Expire, vars
  <2>2. PICK t \in Servers : OneSteps(t)
    BY Zenon, <2>1, StepShape
  <2>3. t = s
    BY Zenon, <2>0, <2>2, StepsAlone DEF OthersSame
  <2>4. TLSConfig(s) \/ LoadKey(s, "tlsKey", "serving")
    <3>0. /\ \A label : Goto(s, label) => pc'[s] = label
          /\ \A error : Fail(s, error) => pc'[s] = "failed"
      BY Zenon, <2>0 DEF TypeOK, Goto, Fail
    <3>1. ~(Listen(s) \/ MaybeDefaultWithSelfSignedCerts(s) \/ checkCertAndKeyReadableAndValid(s))
      BY <3>0 DEF Listen, MaybeDefaultWithSelfSignedCerts, checkCertAndKeyReadableAndValid
    <3>2. /\ ~(WriteCert(s) \/ WriteKey(s))
          /\ ~(ApplyTo(s) \/ LoadCert(s))
      <4>1. ~(WriteCert(s) \/ WriteKey(s))
        BY Zenon, <3>0 DEF WriteCert, WriteKey
      <4>2. ~ApplyTo(s)
        BY SMT, <3>0 DEF ApplyTo
      <4>3. ~LoadCert(s)
        BY Zenon, <3>0 DEF LoadCert
      <4>4. QED
        BY Zenon, <4>1, <4>2, <4>3
    <3>3. ~(LoadKey(s, "loadKey", "config") \/ Config(s) \/ Stop(s) \/ Crash(s))
      BY Zenon, <2>0, <3>0 DEF LoadKey, Config, Stop, Crash, Down, TypeOK
    <3>4. ~\E o \in Configurations : Begin(s, o)
      BY Zenon, <3>0 DEF Begin
    <3>5. QED
      BY ZenonT(40), <2>2, <2>3, <3>1, <3>2, <3>3, <3>4 DEF OneSteps, ServerStep
  <2>5. CASE TLSConfig(s)
    <3>1. pc[s] = "tls" /\ ~FromFiles(s) /\ UNCHANGED cert
      BY Zenon, <2>0, <2>5 DEF TLSConfig, At, Goto, Fail, TypeOK
    <3>2. cert'[s] = <<GeneratedPair, GeneratedPair>>
      BY Zenon, <2>0, <3>1 DEF PairFresh, AtRest
    <3>3. QED
      BY <2>0, <3>2, NeverOld, ServingAssumption
  <2>6. CASE LoadKey(s, "tlsKey", "serving")
    <3>1. pc[s] = "tlsKey" /\ X509KeyPair(seen[s], KeyOnDisk(s))
          /\ cert'[s] = <<seen[s], KeyOnDisk(s)>>
      BY Zenon, <2>0, <2>6 DEF LoadKey, At, Goto, Fail, TypeOK
    <3>2. seen[s] = KeyOnDisk(s) /\ seen[s] \notin old /\ seen[s] # Torn
      BY Zenon, <2>0, <3>1 DEF PairFresh, X509KeyPair
    <3>3. QED
      BY <3>1, <3>2
  <2>7. QED
    BY Zenon, <2>4, <2>5, <2>6
<1>2. QED
  BY <1>1, StartsCorrect, PTL DEF Spec, ServesGoodPair
=============================================================================
