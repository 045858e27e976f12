----------------------------- MODULE Credential -----------------------------
(***************************************************************************)
(* The signed credential and its static verification                       *)
(* (staykey/credential.py), with cryptography taken as perfect: a token    *)
(* carries the key under which the signature over its exact payload bytes  *)
(* verifies, so a payload changed after signing is a token nobody signed.  *)
(* A device response likewise carries who signed it and over what.         *)
(***************************************************************************)
EXTENDS Integers

(* What parse_token makes of a presented string: parses is FALSE for text   *)
(* that is not two base64 segments around a JSON object with a key_id;      *)
(* complete is FALSE when a field the verifier requires is missing.         *)
CredentialOf(signer, key_id, stay_id, property_id, room_ids, valid_from, valid_until, device) ==
  [parses |-> TRUE, complete |-> TRUE, signed_by |-> signer,
   key_id |-> key_id, stay_id |-> stay_id, property_id |-> property_id,
   room_ids |-> room_ids, valid_from |-> valid_from,
   valid_until |-> valid_until, device_pub |-> device]

(* evaluate_static, with its early returns in the order of the code.  The   *)
(* result is a DenyReason, or "pass" when every static check passes.        *)
EvaluateStatic(token, property_pub, expected_property, expected_room, now, revoked) ==
  IF ~token.parses THEN "malformed"
  ELSE IF token.signed_by # property_pub THEN "forged_signature"
  ELSE IF ~token.complete THEN "malformed"
  ELSE IF token.property_id # expected_property THEN "wrong_property"
  ELSE IF expected_room \notin token.room_ids THEN "wrong_room"
  ELSE IF now < token.valid_from THEN "not_yet_valid"
  ELSE IF now > token.valid_until THEN "expired"
  ELSE IF token.key_id \in revoked THEN "revoked"
  ELSE "pass"

(* device_sign and verify_device_response. *)
DeviceSign(device, challenge) == [signer |-> device, over |-> challenge]
VerifyDeviceResponse(device_pub, challenge, response) ==
  response = DeviceSign(device_pub, challenge)
=============================================================================
