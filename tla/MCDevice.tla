------------------------------ MODULE MCDevice ------------------------------
\* Instance of Device for TLC: the power button and a latched key.
EXTENDS Device

ConfirmKeys == {"Power", "Confirm"}
=============================================================================
