------------------------------ MODULE Serving ------------------------------
(***************************************************************************)
(* The start of a server: its options are validated, it listens, finds or  *)
(* generates its certificate and key, loads them and serves.  Servers that *)
(* are started on one machine share the addresses and the certificate      *)
(* directory.  The certificate and the key are two files, written one      *)
(* after the other and read one after the other, with no lock; a server    *)
(* may crash at any point.  A write that fails leaves what a crash at that *)
(* point leaves.                                                           *)
(***************************************************************************)
EXTENDS Integers, FiniteSets

CONSTANTS
  Servers,        \* the servers, one process per start
  Configurations, \* the options that a server is started with
  MaxStarts,      \* how many starts there are
  MaxCrashes,     \* how many crashes there are
  Missing,        \* the content of a file that does not exist
  Torn,           \* the content of a file that was not written to its end
  UserPair,       \* the pair of --tls-cert-file and --tls-private-key-file
  GeneratedPair,  \* a pair that is held in memory only
  Nil

(* What SecureServingOptions, the ConnProvider and the way of starting amount to. *)
Options ==
  [port : Int,                            \* BindPort
   required : BOOLEAN,
   command : BOOLEAN,                     \* started by the command, which validates
   listener : BOOLEAN,                    \* Listener is set
   conn : BOOLEAN,                        \* there is a ConnProvider
   share : BOOLEAN,                       \* PermitPortSharing
   files : {"none", "pair", "unusable"},  \* CertFile and KeyFile
   dir : BOOLEAN,                         \* CertDirectory is set
   pairName : BOOLEAN,                    \* PairName is set
   generated : BOOLEAN,                   \* GeneratedCert is set
   pregenerated : BOOLEAN,                \* PregeneratedCert
   tls : {"good", "unknown", "insecure"}] \* CipherSuites, MinTLSVersion, SNICertKeys

(* The addresses that servers listen on: a listener that is handed to the server, a
   port of the ConnProvider's network, a port of the machine. *)
Address == {"own", "conn", "tcp"} \X (Servers \cup Int)

(* The errors that end a start, and the panic. *)
Reasons == {"Invalid", "Listen", "PairName", "Unpaired", "NoServeConfig", "Load", "TLS",
            "NoCertificate", "panic"}

ASSUME ServingAssumption ==
  /\ Configurations \subseteq Options
  /\ MaxStarts \in Nat
  /\ MaxCrashes \in Nat
  /\ {Missing, Torn, UserPair, GeneratedPair} \cap Nat = {}
  /\ Torn \notin {Missing, GeneratedPair}
  /\ Nil \notin Options \cup Address \cup Reasons

VARIABLES
  crt,      \* the certificate in the certificate directory
  key,      \* the key in the certificate directory
  made,     \* how many pairs were generated for the directory
  old,      \* the pairs that expire in less than a month
  pc,       \* where each server is
  why,      \* the error of a start that failed
  opt,      \* the options of a server
  port,     \* its BindPort, as the code changes it
  bound,    \* the address it listens on
  seen,     \* the certificate as the server last read it
  cert,     \* the pair of its ServingInfo: certificate and key
  ca,       \* the certificate that its loopback client trusts
  starts, crashes,
  disturbed \* history variable: a server crashed, or two were starting at a time

disk == <<crt, key, made, old>>
locals == <<opt, port, bound, seen, cert, ca>>
counts == <<starts, crashes, disturbed>>
vars == <<disk, pc, why, locals, counts>>

Init ==
  /\ crt = Missing /\ key = Missing /\ made = 0 /\ old = {}
  /\ pc = [s \in Servers |-> "down"]
  /\ why = [s \in Servers |-> Nil]
  /\ opt = [s \in Servers |-> Nil]
  /\ port = [s \in Servers |-> 0]
  /\ bound = [s \in Servers |-> Nil]
  /\ seen = [s \in Servers |-> Nil]
  /\ cert = [s \in Servers |-> Nil]
  /\ ca = [s \in Servers |-> Nil]
  /\ starts = 0 /\ crashes = 0 /\ disturbed = FALSE

-----------------------------------------------------------------------------
At(s, label) == pc[s] = label

Goto(s, label) == pc' = [pc EXCEPT ![s] = label] /\ UNCHANGED why

(* An error ends the start.  The listener is not closed; it goes with the process. *)
Fail(s, reason) ==
  /\ pc' = [pc EXCEPT ![s] = "failed"]
  /\ why' = [why EXCEPT ![s] = reason]

InUse(address) == \E t \in Servers : bound[t] = address

Validate(o) ==
  /\ IF o.required THEN o.port \in 1..65535 ELSE o.port \in 0..65535
  /\ ~(o.files # "none" /\ o.generated)
  /\ o.port # 0

AtRest == {"down", "failed", "serving"}

(* A server is started.  The command validates its options, a program that
   embeds the server need not. *)
Begin(s, o) ==
  /\ At(s, "down")
  /\ starts < MaxStarts
  /\ starts' = starts + 1
  /\ disturbed' = (disturbed \/ \E t \in Servers : pc[t] \notin AtRest)
  /\ opt' = [opt EXCEPT ![s] = o]
  /\ port' = [port EXCEPT ![s] = o.port]
  /\ bound' = [bound EXCEPT ![s] = IF o.listener THEN <<"own", s>> ELSE Nil]
  /\ cert' = [cert EXCEPT ![s] = IF o.generated THEN <<GeneratedPair, GeneratedPair>> ELSE Nil]
  /\ \/ o.command /\ ~Validate(o) /\ Fail(s, "Invalid")
     \/ (o.command => Validate(o)) /\ Goto(s, "listen")
  /\ UNCHANGED <<disk, seen, ca, crashes>>

(* A faulty variant: the fake port is used and forgotten. *)
ListenFakePort(s) ==
  /\ At(s, "listen")
  /\ \/ ~opt[s].conn /\ Goto(s, "default") /\ UNCHANGED bound
     \/ /\ opt[s].conn
        /\ LET address == <<"conn", IF port[s] = 0 THEN 443 ELSE port[s]>>
           IN  \/ InUse(address) /\ Fail(s, "Listen") /\ UNCHANGED bound
               \/ /\ ~InUse(address)
                  /\ bound' = [bound EXCEPT ![s] = address]
                  /\ Goto(s, "default")
  /\ UNCHANGED <<disk, opt, port, seen, cert, ca, counts>>

(* A faulty variant: the fake port takes the place of the one that is listened on. *)
ListenThenFake(s) ==
  /\ At(s, "listen")
  /\ \/ ~opt[s].conn /\ Goto(s, "default") /\ UNCHANGED <<port, bound>>
     \/ /\ opt[s].conn
        /\ port' = [port EXCEPT ![s] = 443]
        /\ LET address == <<"conn", port[s]>>
           IN  \/ InUse(address) /\ Fail(s, "Listen") /\ UNCHANGED bound
               \/ /\ ~InUse(address)
                  /\ bound' = [bound EXCEPT ![s] = address]
                  /\ Goto(s, "default")
  /\ UNCHANGED <<disk, opt, seen, cert, ca, counts>>

(* Config, the part that asks the ConnProvider for a listener. *)
Listen(s) ==
  /\ At(s, "listen")
  /\ \/ ~opt[s].conn /\ Goto(s, "default") /\ UNCHANGED <<port, bound>>
     \/ /\ opt[s].conn
        /\ port' = [port EXCEPT ![s] = IF @ = 0 THEN 443 ELSE @]
        /\ LET address == <<"conn", port'[s]>>
           IN  \/ InUse(address) /\ Fail(s, "Listen") /\ UNCHANGED bound
               \/ /\ ~InUse(address)
                  /\ bound' = [bound EXCEPT ![s] = address]
                  /\ Goto(s, "default")
  /\ UNCHANGED <<disk, opt, seen, cert, ca, counts>>

-----------------------------------------------------------------------------
HasCert(s) ==
  \/ port[s] = 0 /\ bound[s] = Nil
  \/ opt[s].pregenerated
  \/ opt[s].files # "none"

(* Whether ApplyTo finds CertFile and KeyFile set to the certificate directory. *)
UsesDir(s) == opt[s].files = "none" /\ opt[s].dir /\ ~opt[s].pregenerated

(* MaybeDefaultWithSelfSignedCerts, up to the look at the certificate file. *)
MaybeDefaultWithSelfSignedCerts(s) ==
  /\ At(s, "default")
  /\ \/ HasCert(s) /\ Goto(s, "apply") /\ UNCHANGED <<seen, cert>>
     \/ /\ ~HasCert(s) /\ opt[s].dir /\ ~opt[s].pairName
        /\ Fail(s, "PairName")
        /\ UNCHANGED <<seen, cert>>
     \/ /\ ~HasCert(s) /\ opt[s].dir /\ opt[s].pairName
        /\ seen' = [seen EXCEPT ![s] = crt]
        /\ Goto(s, "check")
        /\ UNCHANGED cert
     \/ /\ ~HasCert(s) /\ ~opt[s].dir
        /\ cert' = [cert EXCEPT ![s] = <<GeneratedPair, GeneratedPair>>]
        /\ Goto(s, "apply")
        /\ UNCHANGED seen
  /\ UNCHANGED <<disk, opt, port, bound, ca, counts>>

(* A faulty variant: the dates of the certificate are not looked at. *)
CertParses == crt # Torn

(* The certificate parses and is valid for another month. *)
CertValid == crt # Torn /\ crt \notin old

(* checkCertAndKeyReadableAndValid, from its look at the key file on, and the
   decision to generate a pair. *)
checkCertAndKeyReadableAndValid(s) ==
  /\ At(s, "check")
  /\ \/ (seen[s] = Missing) # (key = Missing) /\ Fail(s, "Unpaired") /\ UNCHANGED made
     \/ /\ seen[s] # Missing /\ key # Missing /\ CertValid
        /\ Goto(s, "apply")
        /\ UNCHANGED made
     \/ /\ \/ seen[s] = Missing /\ key = Missing
           \/ seen[s] # Missing /\ key # Missing /\ ~CertValid
        /\ made' = made + 1
        /\ Goto(s, "crt")
  /\ seen' = [seen EXCEPT ![s] = IF made' = made THEN Nil ELSE made']
  /\ UNCHANGED <<crt, key, old, opt, port, bound, cert, ca, counts>>

(* WriteCert and WriteKey: each truncates its file and then fills it. *)
WriteCert(s) ==
  /\ \/ At(s, "crt") /\ crt' = Torn /\ Goto(s, "crtFill")
     \/ At(s, "crtFill") /\ crt' = seen[s] /\ Goto(s, "key")
  /\ UNCHANGED <<key, made, old, locals, counts>>

(* A faulty variant: a key that is there is kept. *)
WriteKeyOnce(s) ==
  /\ \/ At(s, "key") /\ key = Missing /\ key' = Torn /\ Goto(s, "keyFill")
     \/ At(s, "key") /\ key # Missing /\ Goto(s, "apply") /\ UNCHANGED key
     \/ At(s, "keyFill") /\ key' = seen[s] /\ Goto(s, "apply")
  /\ UNCHANGED <<crt, made, old, locals, counts>>

WriteKey(s) ==
  /\ \/ At(s, "key") /\ key' = Torn /\ Goto(s, "keyFill")
     \/ At(s, "keyFill") /\ key' = seen[s] /\ Goto(s, "apply")
  /\ UNCHANGED <<crt, made, old, locals, counts>>

-----------------------------------------------------------------------------
(* ApplyTo, up to the listener.  PermitPortSharing plays no part. *)
ApplyTo(s) ==
  LET address == <<"tcp", port[s]>>
      refused == InUse(address) \/ port[s] > 65535
  IN  /\ At(s, "apply")
      /\ \/ bound[s] # Nil /\ Goto(s, "load") /\ UNCHANGED bound
         \/ bound[s] = Nil /\ port[s] <= 0 /\ Fail(s, "NoServeConfig") /\ UNCHANGED bound
         \/ bound[s] = Nil /\ port[s] > 0 /\ refused /\ Fail(s, "Listen") /\ UNCHANGED bound
         \/ /\ bound[s] = Nil /\ port[s] > 0 /\ ~refused
            /\ bound' = [bound EXCEPT ![s] = address]
            /\ Goto(s, "load")
      /\ UNCHANGED <<disk, opt, port, seen, cert, ca, counts>>

(* The certificate and the key in the files of the options. *)
CertOnDisk(s) == IF UsesDir(s) THEN crt ELSE IF opt[s].files = "pair" THEN UserPair ELSE Torn

KeyOnDisk(s) == IF UsesDir(s) THEN key ELSE UserPair

FromFiles(s) == UsesDir(s) \/ opt[s].files # "none"

(* The start of loadCertKeyPair, or the pair that is in memory already. *)
LoadCert(s) ==
  /\ At(s, "load")
  /\ \/ /\ FromFiles(s)
        /\ seen' = [seen EXCEPT ![s] = CertOnDisk(s)]
        /\ Goto(s, "loadKey")
     \/ ~FromFiles(s) /\ Goto(s, "config") /\ UNCHANGED seen
  /\ UNCHANGED <<disk, opt, port, bound, cert, ca, counts>>

(* A faulty variant: the key is not compared with the certificate. *)
NotTorn(c, k) == c \notin {Torn, Missing} /\ k \notin {Torn, Missing}

X509KeyPair(c, k) == c = k /\ c \notin {Torn, Missing}

(* The end of loadCertKeyPair, in ApplyTo and once more in TLSConfig. *)
LoadKey(s, from, to) ==
  /\ At(s, from)
  /\ \/ /\ X509KeyPair(seen[s], KeyOnDisk(s))
        /\ cert' = [cert EXCEPT ![s] = <<seen[s], KeyOnDisk(s)>>]
        /\ Goto(s, to)
     \/ ~X509KeyPair(seen[s], KeyOnDisk(s)) /\ Fail(s, "Load") /\ UNCHANGED cert
  /\ UNCHANGED <<disk, opt, port, bound, seen, ca, counts>>

(* A faulty variant: the loopback client trusts what is in the directory. *)
ConfigTrustsDir(s) ==
  /\ At(s, "config")
  /\ \/ opt[s].tls = "unknown" /\ Fail(s, "TLS") /\ UNCHANGED ca
     \/ opt[s].tls # "unknown" /\ cert[s] = Nil /\ Fail(s, "NoCertificate") /\ UNCHANGED ca
     \/ opt[s].tls # "unknown" /\ cert[s] # Nil /\ port[s] = 0 /\ Fail(s, "panic") /\ UNCHANGED ca
     \/ /\ opt[s].tls # "unknown" /\ cert[s] # Nil /\ port[s] # 0
        /\ ca' = [ca EXCEPT ![s] = crt]
        /\ Goto(s, "tls")
  /\ UNCHANGED <<disk, opt, port, bound, seen, cert, counts>>

(* The rest of ApplyTo and Config, with loopbackClientConfig. *)
Config(s) ==
  /\ At(s, "config")
  /\ \/ opt[s].tls = "unknown" /\ Fail(s, "TLS") /\ UNCHANGED ca
     \/ opt[s].tls # "unknown" /\ cert[s] = Nil /\ Fail(s, "NoCertificate") /\ UNCHANGED ca
     \/ opt[s].tls # "unknown" /\ cert[s] # Nil /\ port[s] = 0 /\ Fail(s, "panic") /\ UNCHANGED ca
     \/ /\ opt[s].tls # "unknown" /\ cert[s] # Nil /\ port[s] # 0
        /\ ca' = [ca EXCEPT ![s] = cert[s][1]]
        /\ Goto(s, "tls")
  /\ UNCHANGED <<disk, opt, port, bound, seen, cert, counts>>

(* TLSConfig, which reads the files a second time, and RunServer. *)
TLSConfig(s) ==
  /\ At(s, "tls")
  /\ \/ opt[s].tls = "insecure" /\ Fail(s, "TLS") /\ UNCHANGED seen
     \/ /\ opt[s].tls # "insecure" /\ FromFiles(s)
        /\ seen' = [seen EXCEPT ![s] = CertOnDisk(s)]
        /\ Goto(s, "tlsKey")
     \/ opt[s].tls # "insecure" /\ ~FromFiles(s) /\ Goto(s, "serving") /\ UNCHANGED seen
  /\ UNCHANGED <<disk, opt, port, bound, cert, ca, counts>>

-----------------------------------------------------------------------------
Down(s) ==
  /\ pc' = [pc EXCEPT ![s] = "down"]
  /\ why' = [why EXCEPT ![s] = Nil]
  /\ opt' = [opt EXCEPT ![s] = Nil]
  /\ port' = [port EXCEPT ![s] = 0]
  /\ bound' = [bound EXCEPT ![s] = Nil]
  /\ seen' = [seen EXCEPT ![s] = Nil]
  /\ cert' = [cert EXCEPT ![s] = Nil]
  /\ ca' = [ca EXCEPT ![s] = Nil]

(* The process ends, after it has served or failed to start. *)
Stop(s) ==
  /\ pc[s] \in {"failed", "serving"}
  /\ Down(s)
  /\ UNCHANGED <<disk, counts>>

(* The process is killed in the middle of its start. *)
Crash(s) ==
  /\ pc[s] \notin AtRest
  /\ crashes < MaxCrashes
  /\ crashes' = crashes + 1
  /\ disturbed' = TRUE
  /\ Down(s)
  /\ UNCHANGED <<disk, starts>>

(* Months pass, all pairs so far near their end.  No start takes that long. *)
Expire ==
  /\ \A s \in Servers : pc[s] \in AtRest
  /\ old # 1..made
  /\ old' = 1..made
  /\ UNCHANGED <<crt, key, made, pc, why, locals, counts>>

ServerStep(s) ==
  \/ Listen(s)
  \/ MaybeDefaultWithSelfSignedCerts(s)
  \/ checkCertAndKeyReadableAndValid(s)
  \/ WriteCert(s)
  \/ WriteKey(s)
  \/ ApplyTo(s)
  \/ LoadCert(s)
  \/ LoadKey(s, "loadKey", "config")
  \/ Config(s)
  \/ TLSConfig(s)
  \/ LoadKey(s, "tlsKey", "serving")
  \/ Stop(s)

(* All starts are used up and every process has ended. *)
Done ==
  /\ starts = MaxStarts
  /\ \A s \in Servers : At(s, "down")
  /\ UNCHANGED vars

Next ==
  \/ \E s \in Servers : ServerStep(s) \/ Crash(s) \/ \E o \in Configurations : Begin(s, o)
  \/ Expire
  \/ Done

Spec == Init /\ [][Next]_vars

-----------------------------------------------------------------------------
Content == {Missing, Torn, UserPair, GeneratedPair, Nil} \cup 1..made

Labels == AtRest \cup {"listen", "default", "check", "crt", "crtFill", "key", "keyFill",
                       "apply", "load", "loadKey", "config", "tls", "tlsKey"}

(* Every variable has its type; a server that is down holds nothing. *)
TypeOK ==
  /\ made \in Nat
  /\ crt \in {Missing, Torn} \cup 1..made
  /\ key \in {Missing, Torn} \cup 1..made
  /\ old \subseteq 1..made
  /\ pc \in [Servers -> Labels]
  /\ why \in [Servers -> Reasons \cup {Nil}]
  /\ opt \in [Servers -> Options \cup {Nil}]
  /\ port \in [Servers -> Int]
  /\ bound \in [Servers -> Address \cup {Nil}]
  /\ seen \in [Servers -> Content]
  /\ cert \in [Servers -> (Content \X Content) \cup {Nil}]
  /\ ca \in [Servers -> Content]
  /\ disturbed \in BOOLEAN
  /\ \A s \in Servers : /\ At(s, "failed") <=> why[s] # Nil
                        /\ At(s, "down") <=> opt[s] = Nil

(* No two servers listen on one address, and the loopback client of a server
   that listens by itself dials the address the server listens on. *)
LoopbackDialsListener ==
  \A s \in Servers : At(s, "serving") =>
    /\ \A t \in Servers \ {s} : bound[t] # bound[s]
    /\ bound[s] # <<"own", s>> => bound[s] = <<IF opt[s].conn THEN "conn" ELSE "tcp", port[s]>>

(* The panic of loopbackClientConfig is out of reach for a server that listens
   by itself: whatever its port, it fails before with an error, or has a port. *)
PanicNeedsOwnListener ==
  \A s \in Servers : why[s] = "panic" => opt[s].listener /\ ~opt[s].conn

(* A server that has just come up has a certificate that belongs to its key and,
   when it comes from the certificate directory, is good for another month; and
   this with servers that generate pairs next to each other, and crash. *)
ServesGoodPair ==
  [][\A s \in Servers : ~At(s, "serving") /\ At(s, "serving")' =>
       /\ cert'[s][1] = cert'[s][2]
       /\ cert'[s][1] \notin old /\ cert'[s][1] # Torn]_vars

(* A start that nothing disturbs finds or generates its pair: a server that uses
   the certificate directory does not fail for want of one, whatever the starts
   before it did, and however often the pair has expired. *)
UndisturbedFindsPair ==
  ~disturbed => \A s \in Servers : why[s] \in {"Unpaired", "Load"} => ~UsesDir(s)

(* The loopback client of a server whose start nothing disturbed trusts the
   certificate that the server presents, wherever the certificate came from. *)
UndisturbedLoopbackTrusts ==
  ~disturbed => \A s \in Servers : At(s, "serving") => ca[s] = cert[s][1]

-----------------------------------------------------------------------------
(* What comments and flags say, and the code does not keep. *)

(* "If HTTPS serving is enabled, and --tls-cert-file and --tls-private-key-file are
   not provided, a self-signed certificate and key are generated": a server that
   uses the certificate directory never fails for want of a pair. *)
GeneratesPair ==
  \A s \in Servers : why[s] \in {"Unpaired", "Load"} => ~UsesDir(s)

(* "BindPort is ignored when Listener is set, will serve https even with 0." *)
PortIgnoredWithListener ==
  \A s \in Servers : At(s, "failed") /\ opt[s].listener => why[s] \notin {"Invalid", "panic"}

(* "PermitPortSharing [...] allows more than one instance to bind on the same
   address and port." *)
PortShared ==
  \A s \in Servers :
    why[s] = "Listen" /\ opt[s].share => \E t \in Servers \ {s} : opt[t] # Nil /\ ~opt[t].share

(* The loopback client of a running server trusts the certificate that the server
   presents. *)
LoopbackTrusts == \A s \in Servers : At(s, "serving") => ca[s] = cert[s][1]
=============================================================================
