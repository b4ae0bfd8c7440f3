----------------------------- MODULE MCAttribute -----------------------------
\* Module Attribute over the attributes of the provider.
EXTENDS Attribute
Table == INSTANCE AttributeTable
MCAttributes == Table!AllAttributes
=============================================================================
