----------------------------- MODULE ScsiWire ------------------------------
(***************************************************************************)
(* What travels between host and USB disk: the wrappers of the bulk-only   *)
(* transport, the SCSI commands in them and the answers, as the library    *)
(* declares them, bit by bit.  A field is Pkd(name, type, first bit, last  *)
(* bit, first byte, last byte).                                            *)
(***************************************************************************)
EXTENDS Packing

Flag(name, bit, byte) == Pkd(name, bool, bit, bit, byte, byte)
Byte(name, byte) == Pkd(name, u8, 7, 0, byte, byte)
Word(name, byte) == Pkd(name, u16, 7, 0, byte, byte + 1)
Long(name, byte) == Pkd(name, u32, 7, 0, byte, byte + 3)
Bits(name, high, low, byte) == Pkd(name, u8, high, low, byte, byte)

-----------------------------------------------------------------------------
(* Wrappers *)

DeviceToHost == 128
Direction == Enum({0, DeviceToHost})

CommandOk == 0
CommandError == 1
CommandStatus == Enum({CommandOk, CommandError, 2})

CswSignature == 1396855637

CommandBlockWrapper ==
    Struct("little", << Long("signature", 0), Long("tag", 4),
                        Long("data_transfer_length", 8),
                        Pkd("direction", Direction, 7, 0, 12, 12), Byte("lun", 13),
                        Byte("data_length", 14), Pkd("data", Array(16), 7, 0, 15, 30) >>)

CommandStatusWrapper ==
    Struct("little", << Long("signature", 0), Long("tag", 4), Long("data_residue", 8),
                        Pkd("status", CommandStatus, 7, 0, 12, 12) >>)

-----------------------------------------------------------------------------
(* Commands *)

OpCode ==
    [TestUnitReady |-> 0, RequestSense |-> 3, Format |-> 4, Read6 |-> 8, Write6 |-> 10,
     Inquiry |-> 18, ReadCapacity10 |-> 37, Read10 |-> 40, SendDiagnostic |-> 29,
     ReportLuns |-> 160, ModeSense6 |-> 26, ModeSense10 |-> 90, ModeSelect6 |-> 21,
     StartStopUnit |-> 27, PreventAllowMediumRemoval |-> 30, ReadFormatCapacities |-> 35,
     Write10 |-> 42, Verify10 |-> 47, SynchronizeCache10 |-> 53, ReadTocPmaAtip |-> 67,
     ModeSelect10 |-> 85, Read12 |-> 168, Write12 |-> 170]

Control == Struct("big", <<Bits("vendor_specific", 7, 6, 0), Flag("normal_aca", 2, 0)>>)

\* Every command begins with the op code and ends with a control byte.
Cdb(fields, last) ==
    Struct("big", <<Byte("op_code", 0)>> \o fields
                  \o <<Pkd("control", Nested(Control.bytes), 7, 0, last, last)>>)

Read6Command == Cdb(<<Pkd("lba", u32, 4, 0, 1, 3), Byte("transfer_length", 4)>>, 5)
Write6Command == Read6Command

Protection(protect) ==
    <<Bits(protect, 7, 5, 1), Flag("dpo", 4, 1), Flag("fua", 3, 1), Flag("fua_nv", 1, 1)>>

Transfer10(protect) ==
    Cdb(Protection(protect)
        \o <<Long("lba", 2), Bits("group_number", 4, 0, 6), Word("transfer_length", 7)>>, 9)
Read10Command == Transfer10("rd_protect")
Write10Command == Transfer10("wr_protect")

Transfer12(protect) ==
    Cdb(Protection(protect)
        \o <<Long("lba", 2), Long("transfer_length", 6), Bits("group_number", 4, 0, 10)>>, 11)
Read12Command == Transfer12("rd_protect")
Write12Command == Transfer12("wr_protect")

TestUnitReadyCommand == Cdb(<<>>, 5)

InquiryCommand ==
    Cdb(<<Flag("enable_vital_product_data", 0, 1), Byte("page_code", 2),
          Word("allocation_length", 3)>>, 5)

RequestSenseCommand ==
    Cdb(<<Flag("descriptor_format", 0, 1), Byte("allocation_length", 4)>>, 5)

ReadCapacity10Command == Cdb(<<Long("lba", 2)>>, 9)

ReadFormatCapacitiesCommand ==
    Cdb(<<Bits("logical_unit_number", 7, 5, 1), Word("allocation_length", 7)>>, 9)

PageControl == Enum(0..3)
CurrentValues == 0

ModeSense6Command ==
    Cdb(<<Flag("disable_block_descriptors", 3, 1), Pkd("page_control", PageControl, 7, 6, 2, 2),
          Bits("page_code", 5, 0, 2), Byte("subpage_code", 3), Byte("allocation_length", 4)>>, 5)

ModeSense10Command ==
    Cdb(<<Flag("long_lba_accepted", 4, 1), Flag("disable_block_descriptors", 3, 1),
          Pkd("page_control", PageControl, 7, 6, 2, 2), Bits("page_code", 5, 0, 2),
          Byte("subpage_code", 3), Word("allocation_length", 8)>>, 10)

ModeSelect6Command ==
    Cdb(<<Flag("page_format", 4, 1), Flag("save_pages", 0, 1),
          Byte("parameter_list_length", 4)>>, 5)

ModeSelect10Command ==
    Cdb(<<Flag("page_format", 4, 1), Flag("save_pages", 0, 1),
          Word("parameter_list_length", 7)>>, 9)

PreventAllowMediumRemovalCommand == Cdb(<<Bits("prevent", 1, 0, 4)>>, 5)

FormatCommand ==
    Cdb(<<Bits("format_protection_information", 7, 6, 1), Flag("long_list", 5, 1),
          Flag("format_data", 4, 1), Flag("complete_list", 3, 1),
          Bits("defect_list_format", 2, 0, 1)>>, 5)

SendDiagnosticCommand ==
    Cdb(<<Bits("self_test_code", 7, 5, 1), Flag("page_format", 4, 1), Flag("self_test", 2, 1),
          Flag("device_offline", 1, 1), Flag("unit_offline", 0, 1),
          Word("parameter_list_length", 3)>>, 5)

ReportLunsCommand == Cdb(<<Byte("select_report", 2), Long("allocation_length", 6)>>, 11)

StartStopUnitCommand ==
    Cdb(<<Flag("immediate", 0, 1), Bits("power_condition_modifier", 3, 0, 3),
          Bits("power_condition", 7, 4, 4), Flag("no_flush", 2, 4), Flag("load_eject", 1, 4),
          Flag("start", 0, 4)>>, 5)

Verify10Command ==
    Cdb(<<Bits("vr_protect", 7, 5, 1), Flag("dpo", 4, 1), Bits("byte_check", 1, 1, 1),
          Long("lba", 2), Bits("group_number", 4, 0, 6), Word("verification_length", 7)>>, 9)

SynchronizeCache10Command ==
    Cdb(<<Flag("immediate", 1, 1), Long("lba", 2), Bits("group_number", 4, 0, 6),
          Word("number_of_blocks", 7)>>, 9)

\* The structure of every op code that is taken, and the command it becomes.
CommandTable ==
    [Read6 |-> <<"Read", Read6Command>>, Read10 |-> <<"Read", Read10Command>>,
     Read12 |-> <<"Read", Read12Command>>,
     ReadCapacity10 |-> <<"ReadCapacity", ReadCapacity10Command>>,
     ReadFormatCapacities |-> <<"ReadFormatCapacities", ReadFormatCapacitiesCommand>>,
     Inquiry |-> <<"Inquiry", InquiryCommand>>,
     TestUnitReady |-> <<"TestUnitReady", TestUnitReadyCommand>>,
     ModeSense6 |-> <<"ModeSense", ModeSense6Command>>,
     ModeSense10 |-> <<"ModeSense", ModeSense10Command>>,
     ModeSelect6 |-> <<"ModeSelect", ModeSelect6Command>>,
     ModeSelect10 |-> <<"ModeSelect", ModeSelect10Command>>,
     PreventAllowMediumRemoval |->
         <<"PreventAllowMediumRemoval", PreventAllowMediumRemovalCommand>>,
     RequestSense |-> <<"RequestSense", RequestSenseCommand>>,
     Write6 |-> <<"Write", Write6Command>>, Write10 |-> <<"Write", Write10Command>>,
     Write12 |-> <<"Write", Write12Command>>,
     Format |-> <<"Format", FormatCommand>>,
     SendDiagnostic |-> <<"SendDiagnostic", SendDiagnosticCommand>>,
     ReportLuns |-> <<"ReportLuns", ReportLunsCommand>>,
     StartStopUnit |-> <<"StartStopUnit", StartStopUnitCommand>>,
     Verify10 |-> <<"Verify", Verify10Command>>,
     SynchronizeCache10 |-> <<"SynchronizeCache", SynchronizeCache10Command>>]

NameOf(cbw) == {n \in DOMAIN CommandTable : OpCode[n] = cbw.data[1]}

\* An op code that is known, enough bytes for its structure, and no number that
\* an enum does not have.
ExtractsFromCbw(cbw) ==
    \E n \in NameOf(cbw) : /\ cbw.data_length >= CommandTable[n][2].bytes
                           /\ Unpacks(CommandTable[n][2], cbw.data)

None == [op |-> "None", lba |-> 0, count |-> 0, current |-> FALSE]

\* The command with the fields that are used: address and length of Read and
\* Write, and whether a ModeSense is a short one for the current values.
ExtractFromCbw(cbw) ==
    LET n == CHOOSE k \in NameOf(cbw) : TRUE
        op == CommandTable[n][1]
        f == Unpack(CommandTable[n][2], cbw.data)
    IN CASE op \in {"Read", "Write"} ->
              [None EXCEPT !.op = op, !.lba = f.lba, !.count = f.transfer_length]
         [] op = "ModeSense" ->
              [None EXCEPT !.op = op,
                           !.current = (n = "ModeSense6" /\ f.page_control = CurrentValues)]
         [] OTHER -> [None EXCEPT !.op = op]

-----------------------------------------------------------------------------
(* Answers *)

\* What a value is where Default leaves it at zero.
Zero(type) == CASE type.kind = "bool" -> FALSE
                [] type.kind \in {"struct", "array"} -> [k \in 1..type.bytes |-> 0]
                [] OTHER -> 0
Default(s) ==
    [name \in Names(s) |-> Zero(Field(s, name).type)]

ReadCapacity10Response == Struct("big", <<Long("max_lba", 0), Long("block_size", 4)>>)

\* Sense key and additional sense code of a result.
NoSense == <<0, 0>>
HardwareError == <<4, 0>>
IllegalRequest == <<5, 32 * 256>>

SenseKey == Enum(0..11 \cup {13, 14, 15})
AdditionalSenseCode == u16
ResponseCode == Enum({112, 114})

\* Without the 235 bytes of additional_sense_data, which are all zero.
RequestSenseResponse ==
    Struct("big", << Flag("valid", 7, 0), Pkd("response_code", ResponseCode, 6, 0, 0, 0),
                     Flag("filemark", 7, 2), Flag("end_of_medium", 6, 2),
                     Flag("incorrect_length_indicator", 5, 2),
                     Pkd("sense_key", SenseKey, 3, 0, 2, 2), Long("information", 3),
                     Byte("additional_sense_length", 7),
                     Long("command_specifc_information", 8),
                     Pkd("additional_sense_code", AdditionalSenseCode, 7, 0, 12, 13),
                     Byte("field_replaceable_unit_code", 14),
                     Flag("sense_key_specific_valid", 7, 15),
                     Pkd("sense_key_specific", u32, 6, 0, 15, 17) >>)

Sense(sense) ==
    [Default(RequestSenseResponse) EXCEPT
        !.valid = TRUE, !.response_code = 112, !.additional_sense_length = 253 - 7,
        !.sense_key_specific_valid = TRUE, !.sense_key = sense[1],
        !.additional_sense_code = sense[2]]

MediumType == Enum({0})

SbcDeviceSpecificParameter ==
    Struct("big", <<Flag("write_protect", 7, 0),
                    Flag("disable_page_out_and_force_unit_access_available", 4, 0)>>)

ModeParameterHeader6 ==
    Struct("big", << Byte("mode_data_length", 0), Pkd("medium_type", MediumType, 7, 0, 1, 1),
                     Pkd("device_specific_parameter",
                         Nested(SbcDeviceSpecificParameter.bytes), 7, 0, 2, 2),
                     Byte("block_descriptor_length", 3) >>)

PageCode == Enum({8})

CachingModePage ==
    Struct("big", << Flag("ps", 7, 0), Flag("spf", 6, 0), Pkd("page_ode", PageCode, 5, 0, 0, 0),
                     Byte("page_length", 1), Flag("ic", 7, 2), Flag("abpf", 6, 2),
                     Flag("cap", 5, 2), Flag("disc", 4, 2), Flag("size", 3, 2),
                     Flag("wce", 2, 2), Flag("mf", 1, 2), Flag("rcd", 0, 2),
                     Bits("demand_read_retention_priority", 7, 4, 3),
                     Bits("write_retention_priority", 3, 0, 3),
                     Word("disable_prefetch_transfer_length", 4), Word("minimum_prefetch", 6),
                     Word("maximum_prefetch", 8), Word("maximum_prefetch_ceiling", 10),
                     Flag("fsw", 7, 12), Flag("lbcss", 6, 12), Flag("dra", 5, 12),
                     Bits("vendor_specific", 4, 3, 12), Bits("sync_prog", 2, 1, 12),
                     Flag("nv_dis", 0, 12), Byte("number_of_cache_segments", 13),
                     Word("cache_segment_size", 14), Byte("reserved", 16),
                     Pkd("obsolete", u32, 7, 0, 17, 19) >>)

ModeSenseAnswer ==
    Pack(ModeParameterHeader6,
         [Default(ModeParameterHeader6) EXCEPT
             !.mode_data_length = ModeParameterHeader6.bytes - 1 + CachingModePage.bytes])
    \o Pack(CachingModePage,
            [Default(CachingModePage) EXCEPT !.page_ode = 8, !.page_length = 18])

\* The texts, which vfs.rs sets, are left at the spaces they begin with.
Spaces(n) == [k \in 1..n |-> 32]

PeripheralQualifier == Enum({0, 1, 3})
PeripheralDeviceType == Enum((0..5) \cup {7, 8} \cup (12..19) \cup {30, 31})
SpcVersion == Enum({0, 4, 5, 6})
ResponseDataFormat == Enum({2})
TargetPortGroupSupport == Enum(0..3)
\* The lowest, the highest and the three that are sent of several hundred.
VersionDescriptor == Enum({0, 96, 1120, 1216, 65476})

InquiryResponse ==
    Struct("big", << Pkd("peripheral_qualifier", PeripheralQualifier, 7, 5, 0, 0),
                     Pkd("peripheral_device_type", PeripheralDeviceType, 4, 0, 0, 0),
                     Flag("removable_medium", 7, 1), Pkd("version", SpcVersion, 7, 0, 2, 2),
                     Flag("normal_aca", 5, 3), Flag("hierarchical_support", 4, 3),
                     Pkd("response_data_format", ResponseDataFormat, 3, 0, 3, 3),
                     Byte("additional_length", 4), Flag("scc_supported", 7, 5),
                     Flag("access_controls_coordinator", 6, 5),
                     Pkd("target_port_group_support", TargetPortGroupSupport, 5, 4, 5, 5),
                     Flag("third_party_copy", 3, 5), Flag("protect", 0, 5),
                     Flag("enclosure_services", 6, 6), Flag("_vendor_specific", 5, 6),
                     Flag("multi_port", 4, 6), Flag("_addr_16", 0, 6), Flag("_wbus_16", 5, 7),
                     Flag("_sync", 4, 7), Flag("command_queue", 1, 7),
                     Flag("_vendor_specific2", 0, 7),
                     Pkd("vendor_identification", Array(8), 7, 0, 8, 15),
                     Pkd("product_identification", Array(16), 7, 0, 16, 31),
                     Pkd("product_revision_level", Array(4), 7, 0, 32, 35),
                     Pkd("_vendor_specific3", Array(20), 7, 0, 36, 55),
                     Bits("_clocking", 3, 2, 56), Flag("_qas", 1, 56), Flag("_ius", 0, 56) >>
                  \o [k \in 1..8 |-> Pkd("compliant_standard_" \o ToString(k), VersionDescriptor,
                                         7, 0, 56 + 2 * k, 57 + 2 * k)])

InquiryAnswer ==
    Pack(InquiryResponse,
         [Default(InquiryResponse) EXCEPT
             !.removable_medium = TRUE, !.version = 6, !.response_data_format = 2,
             !.additional_length = InquiryResponse.bytes - 4,
             !.vendor_identification = Spaces(8), !.product_identification = Spaces(16),
             !.product_revision_level = Spaces(4), !.compliant_standard_1 = 96,
             !.compliant_standard_2 = 1120, !.compliant_standard_3 = 1216])

CurrentCapacityDescriptor ==
    Struct("big", << Long("number_of_blocks", 0), Bits("reserved", 7, 2, 4),
                     Bits("descriptor_type", 1, 0, 4), Long("block_length", 5) >>)

\* One byte more is set aside for the descriptor than it has.
FormatingCapacities ==
    Struct("big", << Pkd("reserved", u32, 7, 0, 0, 2), Byte("list_length", 3),
                     Pkd("descriptor", Nested(CurrentCapacityDescriptor.bytes), 7, 0, 4, 13) >>)

FormatCapacitiesAnswer(blocks, length) ==
    Pack(FormatingCapacities,
         [Default(FormatingCapacities) EXCEPT
             !.list_length = CurrentCapacityDescriptor.bytes,
             !.descriptor = Pack(CurrentCapacityDescriptor,
                 [number_of_blocks |-> blocks, reserved |-> 0, descriptor_type |-> 2,
                  block_length |-> length])])

CapacityAnswer(last, length) ==
    Pack(ReadCapacity10Response, [max_lba |-> last, block_size |-> length])

SenseAnswer(sense) == Pack(RequestSenseResponse, Sense(sense))

Structures ==
    {CommandTable[n][2] : n \in DOMAIN CommandTable}
    \cup {CommandBlockWrapper, CommandStatusWrapper, Control, ReadCapacity10Response,
          RequestSenseResponse, SbcDeviceSpecificParameter, ModeParameterHeader6,
          CachingModePage, InquiryResponse, CurrentCapacityDescriptor, FormatingCapacities}

\* The macro takes every structure.
ASSUME StructuresAccepted == \A s \in Structures : s.accepted

=============================================================================
