---------------------------- MODULE MCDeviceConfig ----------------------------
(***************************************************************************)
(* Instances of DeviceConfig for TLC, with the smallest sets of values     *)
(* that tell the cases apart.                                              *)
(***************************************************************************)
EXTENDS DeviceConfig

\* VERSION_BCD 0x0100 and BOARD 1, an older version, and another board
ThisVersion  == 256 * 65536 + 1
OlderVersion == 128 * 65536 + 1
OtherBoard   == 256 * 65536 + 2

DefaultName == <<66, 69>>

Object(id, v) == [size |-> SizeOf[id], val |-> v]
Empty         == [id \in Ids |-> Store!Absent]

\* Never used; left by an older version; and left by another board, with a
\* configuration this one would not accept.
Older  == [Empty EXCEPT ![EEP_ID_VER] = Object(EEP_ID_VER, OlderVersion),
                        ![EEP_ID_TEMP_CFG] = Object(EEP_ID_TEMP_CFG, <<10400, 57400>>),
                        ![EEP_ID_PINCODE] = Object(EEP_ID_PINCODE, 1234)]
Foreign == [Empty EXCEPT ![EEP_ID_VER] = Object(EEP_ID_VER, OtherBoard),
                         ![EEP_ID_DEV_CFG] = Object(EEP_ID_DEV_CFG, <<7, 0, 0, 9>>)]
StoresFound == {Empty, Older, Foreign}

\* A string longer than the buffer, and one that is empty for strlen and not for memcpy.
FewNames == {<<98, 97, 97, 97>>, <<0, 98>>}

\* Out of range below, and above with a long interval in a message of two fields.
SomeCfgs == {<<20, 0, 0, 1>>, <<20000, 27>>}

SomeTempCfgs == {<<10600>>}
FewPincodes  == {123456, 1000000}
SomePincodes == {0, 123456, 1000000}
None         == {}

Symmetry == Permutations(Keys) \cup Permutations(Addresses)
===========================================================================
