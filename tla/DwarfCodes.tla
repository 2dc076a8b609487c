------------------------------ MODULE DwarfCodes ------------------------------
(***************************************************************************)
(* The codes of tags, attributes and forms (src/include/dwarf/data.hpp),   *)
(* and the kind of value an attribute has when it is encoded in a form     *)
(* (resolve_type of src/src/dwarf/abbrev.cpp).                             *)
(***************************************************************************)
EXTENDS Integers, Functions

DW_TAG ==
    [array_type |-> 1, class_type |-> 2, entry_point |-> 3,
     enumeration_type |-> 4, formal_parameter |-> 5,
     imported_declaration |-> 8, label |-> 10, lexical_block |-> 11,
     member |-> 13, pointer_type |-> 15, reference_type |-> 16,
     compile_unit |-> 17, string_type |-> 18, structure_type |-> 19,
     subroutine_type |-> 21, typedef_ |-> 22, union_type |-> 23,
     unspecified_parameters |-> 24, variant |-> 25, common_block |-> 26,
     common_inclusion |-> 27, inheritance |-> 28, inlined_subroutine |-> 29,
     module |-> 30, ptr_to_member_type |-> 31, set_type |-> 32,
     subrange_type |-> 33, with_stmt |-> 34, access_declaration |-> 35,
     base_type |-> 36, catch_block |-> 37, const_type |-> 38, constant |-> 39,
     enumerator |-> 40, file_type |-> 41, friend_ |-> 42, namelist |-> 43,
     namelist_item |-> 44, packed_type |-> 45, subprogram |-> 46,
     template_type_parameter |-> 47, template_value_parameter |-> 48,
     thrown_type |-> 49, try_block |-> 50, variant_part |-> 51,
     variable |-> 52, volatile_type |-> 53, dwarf_procedure |-> 54,
     restrict_type |-> 55, interface_type |-> 56, namespace_ |-> 57,
     imported_module |-> 58, unspecified_type |-> 59, partial_unit |-> 60,
     imported_unit |-> 61, condition |-> 63, shared_type |-> 64,
     type_unit |-> 65, rvalue_reference_type |-> 66, template_alias |-> 67]

DW_AT ==
    [sibling |-> 1, location |-> 2, name |-> 3, ordering |-> 9,
     byte_size |-> 11, bit_offset |-> 12, bit_size |-> 13, stmt_list |-> 16,
     low_pc |-> 17, high_pc |-> 18, language |-> 19, discr |-> 21,
     discr_value |-> 22, visibility |-> 23, import |-> 24,
     string_length |-> 25, common_reference |-> 26, comp_dir |-> 27,
     const_value |-> 28, containing_type |-> 29, default_value |-> 30,
     inline_ |-> 32, is_optional |-> 33, lower_bound |-> 34, producer |-> 37,
     prototyped |-> 39, return_addr |-> 42, start_scope |-> 44,
     bit_stride |-> 46, upper_bound |-> 47, abstract_origin |-> 49,
     accessibility |-> 50, address_class |-> 51, artificial |-> 52,
     base_types |-> 53, calling_convention |-> 54, count |-> 55,
     data_member_location |-> 56, decl_column |-> 57, decl_file |-> 58,
     decl_line |-> 59, declaration |-> 60, discr_list |-> 61, encoding |-> 62,
     external |-> 63, frame_base |-> 64, friend_ |-> 65,
     identifier_case |-> 66, macro_info |-> 67, namelist_item |-> 68,
     priority |-> 69, segment |-> 70, specification |-> 71,
     static_link |-> 72, type |-> 73, use_location |-> 74,
     variable_parameter |-> 75, virtuality |-> 76,
     vtable_elem_location |-> 77, allocated |-> 78, associated |-> 79,
     data_location |-> 80, byte_stride |-> 81, entry_pc |-> 82,
     use_UTF8 |-> 83, extension |-> 84, ranges |-> 85, trampoline |-> 86,
     call_column |-> 87, call_file |-> 88, call_line |-> 89,
     description |-> 90, binary_scale |-> 91, decimal_scale |-> 92,
     small |-> 93, decimal_sign |-> 94, digit_count |-> 95,
     picture_string |-> 96, mutable_ |-> 97, threads_scaled |-> 98,
     explicit_ |-> 99, object_pointer |-> 100, endianity |-> 101,
     elemental |-> 102, pure |-> 103, recursive |-> 104, signature |-> 105,
     main_subprogram |-> 106, data_bit_offset |-> 107, const_expr |-> 108,
     enum_class |-> 109, linkage_name |-> 110]

DW_FORM ==
    [addr |-> 1, block2 |-> 3, block4 |-> 4, data2 |-> 5, data4 |-> 6,
     data8 |-> 7, string |-> 8, block |-> 9, block1 |-> 10, data1 |-> 11,
     flag |-> 12, sdata |-> 13, strp |-> 14, udata |-> 15, ref_addr |-> 16,
     ref1 |-> 17, ref2 |-> 18, ref4 |-> 19, ref8 |-> 20, ref_udata |-> 21,
     indirect |-> 22, sec_offset |-> 23, exprloc |-> 24, flag_present |-> 25,
     ref_sig8 |-> 32]

(* What a code read from a section stands for; the vendors' attributes are *)
(* not told apart.                                                         *)
Named(enum, code) == IF code \in Range(enum) THEN CHOOSE n \in DOMAIN enum : enum[n] = code
                     ELSE IF code \in 8192 .. 16383 THEN "vendor" ELSE "unknown"

Loclistable  == {"location", "string_length", "return_addr", "data_member_location",
                 "frame_base", "segment", "static_link", "use_location",
                 "vtable_elem_location"}
Rangeable    == {"start_scope", "ranges"}
Computable   == Loclistable \union
                {"byte_size", "bit_offset", "bit_size", "lower_bound", "bit_stride",
                 "upper_bound", "count", "allocated", "associated", "data_location",
                 "byte_stride"}
Offsets      == Loclistable \union Rangeable \union {"stmt_list", "macro_info"}

OffsetType(name) == CASE name = "stmt_list"    -> "line"
                      [] name \in Loclistable  -> "loclist"
                      [] name = "macro_info"   -> "mac"
                      [] name \in Rangeable    -> "rangelist"
                      [] name = "vendor"       -> "invalid"
                      [] OTHER                 -> "error"

(* "error" where the code throws format_error.                             *)
TypeOf(name, form) ==
    CASE form = "addr"                                  -> "address"
      [] form \in {"block", "block1", "block2", "block4"} ->
           IF name \in Computable THEN "exprloc" ELSE "block"
      [] form \in {"data4", "data8"} /\ name \in Offsets -> OffsetType(name)
      [] form \in {"data1", "data2", "data4", "data8"}   -> "constant"
      [] form = "udata"                                 -> "uconstant"
      [] form = "sdata"                                 -> "sconstant"
      [] form = "exprloc"                               -> "exprloc"
      [] form \in {"flag", "flag_present"}              -> "flag"
      [] form \in {"ref1", "ref2", "ref4", "ref8", "ref_addr", "ref_sig8", "ref_udata"} -> "reference"
      [] form \in {"string", "strp"}                    -> "string"
      [] form = "indirect"                              -> "invalid"
      [] form = "sec_offset"                            -> OffsetType(name)
      [] OTHER                                          -> "error"
===============================================================================
