---------------------------- MODULE DeviceStore ----------------------------
(***************************************************************************)
(* The data of kdeconnect-core/src/device.rs: a device as the core keeps   *)
(* it in memory, the record of it that survives a restart (<id>.ron), and  *)
(* the functions that go from one to the other.  No state lives here; the  *)
(* state machines over it are CoreLoop and the modules that extend it.     *)
(*                                                                         *)
(* Certificates are opaque values.  Name and address are left out: they    *)
(* are refreshed from every connection and nothing here depends on them.   *)
(***************************************************************************)
CONSTANTS
    Cert,     \* the TLS certificates a peer may present
    NoCert    \* Option::None, or an empty certificate

ASSUME NoCertAssumption == NoCert \notin Cert

CertOrNone == Cert \cup {NoCert}

PairState == {"NotPaired", "Requesting", "Requested", "Paired"}

\* What <id>.ron says.  An absent or unreadable file is read as Blank.
FileRecord == [state : PairState, pin : CertOrNone]

Blank == [state |-> "NotPaired", pin |-> NoCert]

\* The in-memory device: pin is paired_certificate, cert is
\* connection_certificate, which is never stored.  Every registered device
\* has a certificate, so cert = NoCert means "not in the devices map".
MemDevice == [state : PairState, pin : CertOrNone, cert : CertOrNone]

Absent == [state |-> "NotPaired", pin |-> NoCert, cert |-> NoCert]

\* payload_certificate() succeeds: paired, with a pinned certificate.
Trusted(rec) == rec.state = "Paired" /\ rec.pin # NoCert

\* The certificate a record pins, if it is one the code trusts.
PinOf(rec) == IF Trusted(rec) THEN rec.pin ELSE NoCert

\* Mutant of LoadFrom: a pending request is believed after a reload.
LoadFromKeepsPending(rec) == rec

\* A stored record is believed only if it is Paired and has a pin; a pending
\* request or a record from before pinning is loaded as NotPaired.
LoadFrom(rec) == IF Trusted(rec) THEN rec ELSE Blank

\* Mutant of BindAccepts: a changed certificate is taken for a paired device.
BindAcceptsAny(rec, x) == x # NoCert

\* A paired device is bound only to the certificate it pins.
BindAccepts(rec, x) == /\ x # NoCert
                       /\ rec.state = "Paired" => rec.pin = x

\* Device::new followed by bind_certificate, when that succeeds.
Loaded(rec, x) == [state |-> LoadFrom(rec).state,
                   pin   |-> LoadFrom(rec).pin,
                   cert  |-> x]

\* Mutant of StoreIn: the connection certificate is stored too (no serde(skip)).
StoreInConnection(dev, s) == [state |-> s, pin |-> dev.pin, cert |-> dev.cert]

\* What store_in writes for a device entering state s.
StoreIn(dev, s) == [state |-> s,
                    pin   |-> IF s = "Paired" THEN dev.pin ELSE NoCert]

\* The device in memory after it enters state s.
WithState(dev, s) == [dev EXCEPT !.state = s,
                                 !.pin = IF s = "Paired" THEN @ ELSE NoCert]

\* The device once its connection certificate has been pinned.
Pinned(dev) == [dev EXCEPT !.state = "Paired", !.pin = dev.cert]
=============================================================================
