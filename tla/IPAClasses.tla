------------------------------ MODULE IPAClasses ------------------------------
(***************************************************************************)
(* The classes of lib/modules as values for the class constants of         *)
(* IPAClient: <Class>Items for ItemSteps, the rest where a class departs   *)
(* from the default.  Attributes bear the names of the source; a class is  *)
(* restricted to the attributes ListAttr and ScalarAttr of the instance,   *)
(* so that a method all of whose attributes are left out is never queued.  *)
(***************************************************************************)
EXTENDS IPAClient

Method(op, attrs, announces) ==
    [op |-> op, attrs |-> attrs \cap ListAttr, announces |-> announces]

\* A class without methods of its own, and one without defaults.
NoItems    == <<>>
NoDefaults == [k \in ScalarAttr |-> None]

\* ipa_group.py: handle_members().  The base keys are scalars.
GroupBaseKeys == ListAttr \ {"member_user", "member_group"}
GroupItems ==
    <<Method("add",    {"member_user", "member_group"}, TRUE),
      Method("remove", {"member_user", "member_group"}, TRUE)>>

\* ipa_caacl.py: add_remove_list_items() queues all additions first.
CaaclBaseKeys == ListAttr \cap {"description"}
CaaclMembers ==
    <<{"user", "group"}, {"host", "hostgroup"}, {"certprofile"}, {"ca"},
      {"service"}>>
CaaclItems ==
    LET Each(op) == [j \in 1..5 |-> Method(op, CaaclMembers[j], TRUE)]
    IN  Each("add") \o Each("remove")

\* ipa_user.py: handle_cert() announces its changes, handle_principal() does
\* not.  nsaccountlock, the inverse of the flag, has a default.
UserBaseKeys    == ListAttr \ {"usercertificate", "krbprincipalname"}
UserFlagDefault == "enabled"
UserItems ==
    <<Method("add",    {"usercertificate"},  TRUE),
      Method("remove", {"usercertificate"},  TRUE),
      Method("add",    {"krbprincipalname"}, FALSE),
      Method("remove", {"krbprincipalname"}, FALSE)>>

\* ipa_service.py: handle_managedby_host() and handle_allow_keytab(), which
\* has one pair of methods per direction for four kinds of members.
ServiceBaseKeys == ListAttr \cap {"krbprincipalname"}
ServiceDefault ==
    [k \in ScalarAttr |->
        CASE k = "ipakrbrequirespreauth" -> "TRUE"
          [] k \in {"ipakrbokasdelegate", "ipakrboktoauthasdelegate"} -> "FALSE"
          [] OTHER -> None]
WriteKeys ==
    {"ipaallowedtoperform_write_keys_user",
     "ipaallowedtoperform_write_keys_group",
     "ipaallowedtoperform_write_keys_host",
     "ipaallowedtoperform_write_keys_hostgroup"}
ReadKeys ==
    {"ipaallowedtoperform_read_keys_user",
     "ipaallowedtoperform_read_keys_group",
     "ipaallowedtoperform_read_keys_host",
     "ipaallowedtoperform_read_keys_hostgroup"}
ServiceItems ==
    <<Method("add",    {"managedby_host"}, FALSE),
      Method("remove", {"managedby_host"}, FALSE),
      Method("add",    WriteKeys, FALSE), Method("remove", WriteKeys, FALSE),
      Method("add",    ReadKeys,  FALSE), Method("remove", ReadKeys,  FALSE)>>

\* ipa_ca.py: <name>_mod takes nothing but the description.
CAModifiable == ScalarAttr \cap {"description"}

\* ipa_dnsrecord.py and ipa_dnszone.py: every attribute is a base key, and
\* `nsrecord` is the zone's only list.
DNSBaseKeys == ListAttr
=============================================================================
